CONSTANTS
    Paths = {a}
    Volume = Work
    NoPath = NoPath
    LockIds = {1, 2}
    HandleIds = {1}
    Absent = Absent
    Junk = Junk
    HostDir = HostDir
    chunk = chunk
    Chunks = {chunk}
    Names <- AllNames
    IconBase <- DrawerIcon
    InitDisks <- AnyDisks
    FaultPlans <- OneFault
    HostEdits = TRUE
    MaxEntries = 1
    MaxChunks = 0
SPECIFICATION Spec
CHECK_DEADLOCK FALSE
INVARIANT ReferencesBalanced
INVARIANT CacheMatchesUse
INVARIANT CountsExact
INVARIANT NoDangling
INVARIANT HandlesOwnLocks
INVARIANT ShutdownLeavesNothing

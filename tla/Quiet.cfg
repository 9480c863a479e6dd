CONSTANTS
    Paths = {a}
    Volume = Work
    NoPath = NoPath
    LockIds = {1, 2}
    HandleIds = {1, 2}
    Absent = Absent
    Junk = Junk
    HostDir = HostDir
    chunk = chunk
    Chunks = {chunk}
    Names <- TwoNames
    IconBase <- NoIcons
    InitDisks <- CleanDisks
    FaultPlans <- NoFaults
    HostEdits = FALSE
    MaxEntries = 2
    MaxChunks = 1
SPECIFICATION Spec
CHECK_DEADLOCK FALSE
INVARIANT LocksTrackCatalog
INVARIANT CacheCoherent
PROPERTY CloseStoresData

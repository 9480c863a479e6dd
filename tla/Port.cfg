CONSTANTS
    Clients = {a, b}
    Mounter = Mounter
    Kinds <- AllKinds
    Routes <- AllRoutes
    MaxCalls = 2
SPECIFICATION Spec
CHECK_DEADLOCK FALSE
INVARIANT IconsReadSafely
PROPERTY ServesOnce
PROPERTY ServesAll

\* Guarded calls, sidecar engines among them, that wedge.
CONSTANTS
    Slots = 2
    Kinds = {"guarded", "sidecar"}
    MaxCalls = 3
    MaxSidecar = 2
    MaxWedges = 2
SPECIFICATION FairSpec
INVARIANTS
    CapacityRestored
PROPERTIES
    ServesCalls
    CallsAnswered
CHECK_DEADLOCK FALSE

\* A sidecar engine on a card with one worker.
CONSTANTS
    Slots = 1
    Kinds = {"sidecar"}
    MaxCalls = 1
    MaxSidecar = 1
    MaxWedges = 0
SPECIFICATION Spec
INVARIANT NoSelfDeadlock
CHECK_DEADLOCK FALSE

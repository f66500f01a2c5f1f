\* Two callers of four calls; loads that fail, are cancelled or hang.
CONSTANTS
    Callers = {c1, c2}
    MaxAsks = 4
    Regimes = {"quick", "slow"}
SPECIFICATION FairSpec
INVARIANTS
    OneCopy
PROPERTIES
    AsksEnd
    GpuFreed
CHECK_DEADLOCK FALSE

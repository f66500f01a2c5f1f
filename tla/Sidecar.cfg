\* Two threads share a sidecar that may crash, hang, be late, be reaped or,
\* in the second setting, be unloaded.
CONSTANTS
    Callers = {c1, c2}
    Unloaders = {u1}
    None = None
    Settings <- ReapedAndUnloaded
    MaxCalls = 2
    MaxLate = 1
SPECIFICATION FairSpec
INVARIANTS
    BusyIsSpared
    NoOrphan
    AnswersOwn
PROPERTY
    CallsReturn
CHECK_DEADLOCK FALSE

\* Two threads cancel, at any line.
CONSTANTS
    Clients = {c1, c2}
    Langs = 2
    Segs = 2
    MaxJobs = 3
    MaxResets = 1
    Preempt = TRUE
SPECIFICATION FairSpec
INVARIANTS
    Accounted
    DoneIsComplete
PROPERTIES
    CancelSavesGpu
    ServesInOrder
    JobsEnd
CHECK_DEADLOCK FALSE

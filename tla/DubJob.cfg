\* A preparation with two aborts and a deletion; two streams and an import.
CONSTANTS
    Streams = {s1, s2}
    Chunks = 2
    MaxAborts = 2
    Phases = {"prep", "transcribe"}
SPECIFICATION FairSpec
INVARIANTS
    NoProcLeft
    DeletedStays
    ModelBack
    KillsAll
PROPERTY EveryoneEnds
CHECK_DEADLOCK FALSE

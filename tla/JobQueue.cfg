\* Fresh ids, two lanes that may die, a caller that waits, stop and restart.
CONSTANTS
    Ids = {a, b, c}
    Workers = {w1, w2}
    Waiters = {x}
    MaxSubmits = 3
    MaxStops <- MCMaxStops
    ReuseIds = FALSE
SPECIFICATION FairSpec
INVARIANTS
    Accounted
    PositionExact
PROPERTIES
    ServesInOrder
    WaitEnds
CHECK_DEADLOCK FALSE

\* Fresh ids: one failed write, one restart, a table that has to trim.
CONSTANTS
    Tasks = {t1, t2}
    Clients = {c1}
    MaxAdds = 2
    MaxLog = 2
    MaxFaults = 1
    MaxRestarts = 1
    EventCap = 2
    ReplayLimit = 2
    ReuseIds = FALSE
SPECIFICATION Spec
SYMMETRY Symmetry
INVARIANTS
    StoreOrdered
    StreamOrdered
    NothingMissedLive
    EofReachesListeners
    OneStory
CHECK_DEADLOCK FALSE

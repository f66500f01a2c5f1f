\* Every write succeeds: the life cycle is implemented and nothing hangs.
CONSTANTS
    Tasks = {t1, t2}
    Clients = {c1}
    MaxAdds = 2
    MaxLog = 2
    MaxFaults = 0
    MaxRestarts = 1
    EventCap = 2
    ReplayLimit = 2
    ReuseIds = FALSE
SPECIFICATION FairSpec
PROPERTIES
    ImplementsLifecycle
    JobsEnd
    StreamsEnd
CHECK_DEADLOCK FALSE

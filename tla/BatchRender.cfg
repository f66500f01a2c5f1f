\* Requests at any moment; or a worker that dies, restarts, refused sources.
CONSTANTS
    Sources = {1, 2}
    Templates = {1, 2}
    MaxBatches = 1
    MaxReruns = 1
    MaxResets = 1
    MaxRestarts = 1
    Regimes = {"busy", "faulty"}
    Shapes <- MCShapes
SPECIFICATION FairSpec
INVARIANT NoSpinner
PROPERTIES
    EndedStays
    DeletedStays
    ItemsEnd
CHECK_DEADLOCK FALSE

\* Two installs that may overlap, a file of two segments, a crash, a deletion.
CONSTANTS
    Installs = {i1, i2}
    Segments = {1, 2}
    Regimes <- MCRegimes
    MaxAttempts = 2
    MaxFiles = 3
    MaxStarts <- MCMaxStarts
    MaxCrashes = 1
    MaxDeletes <- MCMaxDeletes
SPECIFICATION FairSpec
INVARIANTS
    Intact
PROPERTIES
    InstallsEnd
CHECK_DEADLOCK FALSE

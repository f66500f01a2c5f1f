\* Two tracks of two segments, two runs, one fault.
CONSTANTS
    Langs = {l1, l2}
    Segs = 2
    Texts = {x, y, blank}
    Blank = blank
    None = none
    Strategies = {"strict_slot", "smart_fit"}
    MaxRuns = 2
    MaxFaults = 1
SPECIFICATION Spec
SYMMETRY Symmetry
INVARIANTS
    OwnLanguage
    TrackTrue
CHECK_DEADLOCK FALSE

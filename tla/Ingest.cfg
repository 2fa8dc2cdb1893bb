SPECIFICATION QuietSpec
CONSTANTS
    Row = {1, 2}
    KeysOf <- OneCallOrTwoReports
    NoKey = none
    Run = {"nightly", "other"}
    Limits <- PageSizes
    MaxPages = 2
    Overlap = 3
    Late = 1
    Window = 0
    MaxDay = 4
    Quiet = {2}
    MaxCorrections = 1
    MaxExtras = 1
    ByHandFrom = 4
INVARIANT WalkIsComplete
PROPERTY Settles
CHECK_DEADLOCK FALSE

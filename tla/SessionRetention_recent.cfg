SPECIFICATION ShapesSpec
CONSTANTS
    Public = {alice}
    Internal = {}
    TTL = 1
    AbsoluteMax = 2
    Retention = 3
    RawRetention = TRUE
    BatchSize = 1
    RequestBound = 1
    MaxNow = 5
    MaxWrites = 3
    MaxCrashes = 0
    PublicWrites = 2
    InternalWrites = 0
    FirstSweep = 5
PROPERTY RecentAnalysisKeepsRows

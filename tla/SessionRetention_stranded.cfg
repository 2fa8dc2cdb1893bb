SPECIFICATION Spec
CONSTANTS
    Public = {}
    Internal = {demo}
    TTL = 1
    AbsoluteMax = 1
    Retention = 3
    RawRetention = TRUE
    BatchSize = 1
    RequestBound = 1
    MaxNow = 6
    MaxWrites = 2
    MaxCrashes = 0
INVARIANT NeverStranded

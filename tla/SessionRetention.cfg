SPECIFICATION ShapesSpec
CONSTANTS
    Public = {alice}
    Internal = {demo}
    TTL = 1
    AbsoluteMax = 4
    Retention = 3
    RawRetention = TRUE
    BatchSize = 1
    RequestBound = 1
    MaxNow = 5
    MaxWrites = 4
    MaxCrashes = 1
    PublicWrites = 2
    InternalWrites = 4
    FirstSweep = 5
INVARIANTS TypeOK CookieBackedByActivity NoDanglingReference HalfDeletedIsUnreachable
PROPERTIES SweepSparesReachable SilentDataGoes

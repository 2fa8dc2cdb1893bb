SPECIFICATION Spec
CONSTANTS
    Search = {s1, s2}
    MinInterval = 2
    Ttl = 4
    Patience = 3
    MaxClock = 10
    Thread = {t1, t2}
    CacheTtl = 4
    QueryTime = 1
    MaxInstant = 11
    Incident = {1, 2, 3}
    Time = {1, 2}
    Label = {1, 2}
    PageSize = 1
    TypeLimit = 1
    MaxChanges = 1
    Fix <- Fixes
    MaxFixes = 3
    StopRadius = 1
    MinStay = 3
    TopSpeed = 1
    Visit <- Stayed
    MaxVisits = 4
    PlaceRadius = 1
    MinVisits = 2
    MinDwell = 3
    One = 30
    MaxOptions = 4
    MaxCount = 3
    PValue = {6, 12, 30}
    Alpha = 13
    PlaceFloor = 1
    CombinedFloor = 3
    MinDays = 2
    MonthDays = 2
    MaxMonths = 3
    Crime = {i1, i2}
    MinPlace = 1
    MinTogether = 2
    Cell = {0, 1, 2, 3, 4, 5, 6, 7}
    AreaOf <- Polygons
    SectorOf <- Sectors
    None = None
    Radius = 1
    Recorded <- Rows
    Selections <- Asked
    TestValue = {6, 18}
    MaxIngested = 1
    Dataset = {d1, d2}
    ExternalId = {e1}
    MaxRows = 2
    Caller = {c1, c2}
    Name = {"a", "b"}
    ToolCall <- TasksOf
    SavedPlaces <- AtFirst
    MaxGone = 1
    Pin = {1, 2}
    Position = {1, 3}
    SourceRecord = {1, 2}
    Recording <- Recordings
    ReportAsked <- ReportRequests
    Reach = 1
    FirstDay = 2
    TopN = 1
    MaxEdits = 1
    Block = {0, 1, 2, 3, 4, 5, 6, 7, 8, 9}
    Street = {0, 1, 2, 3, 4, 9}
    Zone <- Zones
    NoSector = {4, 5}
    Span = 2
    Happening <- Happenings
    MinCenters = 3
    MaxExact = 5
    Draws = 3
    Whole = 60
    MaxRequests = 2
INVARIANTS GeocodingHolds AgeBound AreaAnswersAgree StaysAndPlaces DecisionsHold
INVARIANTS BaselinesHold MigrationsWorkHere ToolsHold ReportReconciles ReferenceIsWeighted
CHECK_DEADLOCK FALSE

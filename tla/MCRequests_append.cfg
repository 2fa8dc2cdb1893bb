SPECIFICATION PartSpec
CONSTANTS
    Parts = {"workspace"}
    Scope = {"a", "b", "off"}
    Loadable = {"a", "b"}
    Bounds = {v, w}
    None = None
    MaxViews = 4
    MaxTurns = 2
    Query = {"", "p", "q"}
    Blank = ""
    MaxFetches = 4
    Area = {g, h}
    NoArea = NoArea
    Filters = {0, 1}
    NoFilters = 0
    Size = {1, 2}
    NoAnswer = NoAnswer
    MaxChanges = 4
    Spot = {1, 2, 3}
    AtFirstSaved <- TwoSaved
    Does = {"run", "save"}
    NoReport = NoReport
    MaxEntries = 3
    MaxRuns = 3
    MaxAnswers = 2
    Family <- TwoFamilies
    Key = {a}
    Capacity <- TwoCapacity
    Per <- SlowPer
    MaxKeys = 1
    MaxDrops = 1
    Lag = 1
    DayLength = 2
    DayLimit = 1
    MaxNow = 5
    Ip = {x}
    User = {u, v}
    Request = {r1, r2}
    Full <- Calls
    PerTick <- Regain
    DayTicks = 2
    DayCalls = 4
    Traffic <- Busy
    MaxHours = 2
    BodyLimit = 4
    ReplayChunk = 2
    Declared = {0, 4, 5}
    Pieces = {0, 1, 2, 3}
INVARIANTS ReportMatchesList
CHECK_DEADLOCK FALSE

SPECIFICATION Spec
CONSTANTS
    Family <- TwoFamilies
    Key = {a}
    Capacity <- TwoCapacity
    Per <- TwoPer
    MaxKeys = 1
    Lag = 0
    DayLength = 2
    DayLimit = 1
    MaxNow = 5
PROPERTY PruneDropsOnlyRefilled

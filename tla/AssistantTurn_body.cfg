SPECIFICATION Spec
CONSTANTS
    Turn = {t1}
    Chain = 2
    Budget = 2
    MaxCost = 1
    MaxWords = 2
    Holdback = 1
    MaxTurns = 2
    MaxDay = 1
PROPERTY GivesUpLast
CHECK_DEADLOCK FALSE

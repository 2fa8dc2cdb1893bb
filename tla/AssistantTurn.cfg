SPECIFICATION FairSpec
CONSTANTS
    Turn = {t1, t2}
    Chain = 2
    Budget = 2
    MaxCost = 1
    MaxWords = 2
    Holdback = 1
    MaxTurns = 2
    MaxDay = 1
INVARIANTS TypeOK BudgetBound NoTransactionWhileWaiting ShownIsGuarded
PROPERTIES GenerationIsCharged KeepsPromise TurnEnds
CHECK_DEADLOCK FALSE

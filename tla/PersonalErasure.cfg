SPECIFICATION Spec
CONSTANTS
    Manual = {m1}
    Imported = {u1, u2}
    Slot = {q1}
    RawRetention = TRUE
    MaxWrites = 2
INVARIANTS TypeOK SummariesMatchRuns
PROPERTIES EraseCovers ManualHistoryKept

SPECIFICATION Spec
CONSTANTS
    Days <- MCDays
    Seeded <- MCSeeded
    MaxID = 4
    MaxRows = 2
INVARIANT StepsRerunnable
CHECK_DEADLOCK FALSE

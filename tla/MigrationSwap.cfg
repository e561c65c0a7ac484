SPECIFICATION Spec
CONSTANTS
    Days <- MCDays
    Seeded <- MCSeeded
    MaxID = 4
    MaxRows = 2
INVARIANT SwapKeepsEveryRow
CHECK_DEADLOCK FALSE

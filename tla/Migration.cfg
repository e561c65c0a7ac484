SPECIFICATION Spec
CONSTANTS
    Days <- MCDays
    Seeded <- MCSeeded
    MaxID = 7
    MaxRows = 4
INVARIANTS MigrationTypeOK VerifiedRowsSurvive TripIDsUnique
CHECK_DEADLOCK FALSE

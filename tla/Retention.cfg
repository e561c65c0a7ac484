SPECIFICATION RetentionSpec
CONSTANTS
    TripIDs <- MCTripIDs
    Dates <- MCDates
    EventDate <- MCEventDate
    Jobs = {j1, j2}
    MaxTasks = 1
    MaxSpan = 1
    Faults = {"athena"}
    RetentionDays = 1
    LookaheadDays = 1
    TrimFaults = {}
    TrimPeriod = 1
    OnTime = TRUE
    MaxLateRows = 1
    OldExports = FALSE
    None = None
SYMMETRY JobSymmetry
INVARIANTS TrimmedRowsInLake ExportedRowsKept
CHECK_DEADLOCK FALSE

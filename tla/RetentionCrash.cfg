SPECIFICATION RetentionSpec
CONSTANTS
    TripIDs <- MCTripIDs
    Dates <- MCDates
    EventDate <- MCEventDate
    Jobs = {j1, j2}
    MaxTasks = 1
    MaxSpan = 1
    Faults = {"crash"}
    RetentionDays = 1
    LookaheadDays = 1
    TrimFaults = {}
    TrimPeriod = 1
    OnTime = TRUE
    MaxLateRows = 0
    OldExports = FALSE
    None = None
SYMMETRY JobSymmetry
INVARIANT TrimmedRowsInLake
CHECK_DEADLOCK FALSE

SPECIFICATION RetentionSpec
CONSTANTS
    TripIDs <- MCTripIDs
    Dates <- MCDates
    EventDate <- MCEventDate
    Jobs = {j1, j2}
    MaxTasks = 1
    MaxSpan = 1
    Faults = {}
    RetentionDays = 1
    LookaheadDays = 2
    TrimFaults = {}
    TrimPeriod = 1
    OnTime = TRUE
    MaxLateRows = 0
    OldExports = TRUE
    None = None
PROPERTIES RerunKeepsRowCount
CHECK_DEADLOCK FALSE

SPECIFICATION RecoverySpec
CONSTANTS
    TripIDs <- OneTripID
    Dates <- FourDays
    EventDate <- LaterEventDate
    RetentionDays = 1
    LookaheadDays = 3
    TrimFaults = {"pg", "s3", "crash"}
    TrimPeriod = 1
    OnTime = TRUE
    None = None
PROPERTIES FailedRunsAbsorbed OldDatesGo
CHECK_DEADLOCK FALSE

SPECIFICATION Spec
CONSTANTS
    TripIDs <- MCTripIDs
    Dates <- FourDays
    EventDate <- MCEventDate
    RetentionDays = 1
    LookaheadDays = 2
    TrimFaults = {"pg", "s3", "crash"}
    TrimPeriod = 1
    OnTime = FALSE
    None = None
INVARIANTS TrimTypeOK
PROPERTIES WindowKept
CHECK_DEADLOCK FALSE

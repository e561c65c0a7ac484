SPECIFICATION Spec
CONSTANTS
    TripIDs <- MCTripIDs
    Dates <- FourDays
    EventDate <- MCEventDate
    RetentionDays = 1
    LookaheadDays = 2
    TrimFaults = {"crash"}
    TrimPeriod = 1
    OnTime = TRUE
    None = None
INVARIANTS SafetyNetHarmless
CHECK_DEADLOCK FALSE

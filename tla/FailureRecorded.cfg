SPECIFICATION Spec
CONSTANTS
    TripIDs <- OneTripIDs
    Dates <- OneDate
    EventDate <- OneEventDate
    Jobs = {j1}
    MaxTasks = 1
    MaxSpan = 1
    Faults = {"athena"}
    None = None
INVARIANTS FailureRecorded
CHECK_DEADLOCK FALSE

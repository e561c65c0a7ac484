SPECIFICATION PipelineSpec
CONSTANTS
    TripIDs <- OneTrip
    Dates <- MCDates
    EventDate <- OneEventDate
    Jobs = {j1}
    MaxTasks = 1
    MaxSpan = 1
    Faults = {}
    CurateTasks = {c1}
    CurateFaults = {}
    None = None
INVARIANT TimersDeliver
CHECK_DEADLOCK FALSE

SPECIFICATION Spec
CONSTANTS
    TripIDs <- MCTripIDs
    Dates <- MCDates
    EventDate <- MCEventDate
    Jobs = {j1, j2}
    MaxTasks = 1
    MaxSpan = 2
    Faults = {"athena", "crash"}
    None = None
SYMMETRY JobSymmetry
INVARIANTS ReplaceNotDuplicate ExitTellsEveryDate SummaryAgreesWithManifests NoFalseAlarm
PROPERTIES RefinesPublication
CHECK_DEADLOCK FALSE

SPECIFICATION Spec
CONSTANTS
    Trips <- OneTrip
    Identifiers <- OneIdentifier
    VehicleOf <- OneVehicleOf
    Tasks = {e1}
    Compaction = TRUE
    TightAge = 0
    DefaultAge = 1
    MaxTime = 2
    LastWrite = 1
    MaxCommits = 3
    MaxLate = 1
    Faults = {}
    Deviations = {}
    None = None
PROPERTY RoutineVacuumKeepsHistory
CHECK_DEADLOCK FALSE

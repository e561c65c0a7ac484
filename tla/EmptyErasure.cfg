SPECIFICATION Spec
CONSTANTS
    Trips <- OneTrip
    Identifiers <- OneIdentifier
    VehicleOf <- OneVehicleOf
    Tasks = {e1, e2}
    Compaction = FALSE
    TightAge = 0
    DefaultAge = 1
    MaxTime = 2
    LastWrite = 1
    MaxCommits = 1
    MaxLate = 1
    Faults = {"athena"}
    Deviations = {}
    None = None
PROPERTY NothingToErase
CHECK_DEADLOCK FALSE

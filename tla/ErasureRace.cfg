SPECIFICATION Spec
CONSTANTS
    Trips <- OneTrip
    Identifiers <- OneIdentifier
    VehicleOf <- OneVehicleOf
    Tasks = {e1}
    Compaction = FALSE
    TightAge = 0
    DefaultAge = 1
    MaxTime = 2
    LastWrite = 1
    MaxCommits = 3
    MaxLate = 1
    Faults = {}
    Deviations = {"overlap"}
    None = None
INVARIANT TimeTravelCannotResurface
CHECK_DEADLOCK FALSE

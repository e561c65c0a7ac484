SPECIFICATION Spec
CONSTANTS
    Trips <- OneTrip
    Identifiers <- OneIdentifier
    VehicleOf <- OneVehicleOf
    Tasks = {e1, e2}
    Compaction = FALSE
    TightAge = 0
    DefaultAge = 1
    MaxTime = 2
    LastWrite = 1
    MaxCommits = 3
    MaxLate = 1
    Faults = {"late", "s3", "crash"}
    Deviations = {}
    None = None
SYMMETRY TaskSymmetry
INVARIANTS ErasureTypeOK ErasedStaysErased VerifiedMeansExpired
PROPERTY ErasedWhenTold
CHECK_DEADLOCK FALSE

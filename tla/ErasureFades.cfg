SPECIFICATION FairSpec
CONSTANTS
    Trips <- OneTrip
    Identifiers <- OneIdentifier
    VehicleOf <- OneVehicleOf
    Tasks = {e1}
    Compaction = TRUE
    TightAge = 0
    DefaultAge = 1
    MaxTime = 2
    LastWrite = 0
    MaxCommits = 2
    MaxLate = 1
    Faults = {"athena", "crash", "compact"}
    Deviations = {"overlap", "postgresLater"}
    None = None
INVARIANT VerifiedMeansExpired
PROPERTY HistoryFades
CHECK_DEADLOCK FALSE

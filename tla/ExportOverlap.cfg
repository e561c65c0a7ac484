SPECIFICATION Spec
CONSTANTS
    TripIDs <- OneTripIDs
    Dates <- OneDate
    EventDate <- OneEventDate
    Jobs = {j1, j2}
    MaxTasks = 2
    MaxSpan = 1
    Faults = {"pg", "s3", "late", "crash"}
    None = None
SYMMETRY JobSymmetry
INVARIANTS TypeOK SuccessMeansExact EvidenceAccurate QuietLakeIsExact
CHECK_DEADLOCK FALSE

SPECIFICATION PipelineSpec
CONSTANTS
    TripIDs <- TwoTrips
    Dates <- MCDates
    EventDate <- TwoEventDate
    Jobs = {j1, j2}
    MaxTasks = 2
    MaxSpan = 1
    Faults = {"athena"}
    CurateTasks = {c1}
    CurateFaults = {}
    None = None
SYMMETRY JobSymmetry
INVARIANTS AgreeingManifestsDeliver CuratedAfterExport
CHECK_DEADLOCK FALSE

SPECIFICATION Spec
CONSTANTS
    RawCopies <- MCRawCopies
    RawID <- MCRawID
    RawDate <- MCRawDate
    Dates <- MCDates
    CurateTasks = {c1, c2}
    CurateFaults = {"late", "s3", "crash"}
    None = None
SYMMETRY CurateSymmetry
INVARIANTS CurateTypeOK SteadyCopy CuratedEvidence
CHECK_DEADLOCK FALSE

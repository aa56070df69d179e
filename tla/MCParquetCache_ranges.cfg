SPECIFICATION Spec
CONSTANTS
    p1 = p1
    p2 = p2
    Procs = {p1, p2}
    Nobody = Nobody
    Asks <- RangeAsks
    MaxDay = 2
    InitialFrontier = 2
    MaxRev = 2
    RowRevs = {1, 2}
    UseLock = TRUE
    WriteBatchSize = 1
    ReadRetries = 1
    MaxOpenSinks = 4
    MaxScanPaths = 4
    Faults = {"expiry", "kill"}
    MaxQueries = 1
INVARIANTS
    AnswersFresh
    NoRowTwice
    NoOverwriteRefused
PROPERTIES
    FilesKept
CHECK_DEADLOCK FALSE

SPECIFICATION Spec
CONSTANTS
    p1 = p1
    p2 = p2
    Procs = {p1}
    Nobody = Nobody
    Asks <- OneRange
    MaxDay = 2
    InitialFrontier = 2
    MaxRev = 1
    RowRevs = {1}
    UseLock = TRUE
    WriteBatchSize = 0
    ReadRetries = 1
    MaxOpenSinks = 4
    MaxScanPaths = 4
    Faults = {"listing"}
    MaxQueries = 1
INVARIANTS
    AnswersFresh
CHECK_DEADLOCK FALSE

SPECIFICATION FairSpec
CONSTANTS
    p1 = p1
    p2 = p2
    Procs = {p1, p2}
    Nobody = Nobody
    Asks <- FaultyAsks
    MaxDay = 2
    InitialFrontier = 1
    MaxRev = 1
    RowRevs = {1}
    UseLock = TRUE
    WriteBatchSize = 0
    ReadRetries = 1
    MaxOpenSinks = 1
    MaxScanPaths = 4
    Faults = {"sink", "visitor"}
    MaxQueries = 1
INVARIANTS
    TornCleaned
PROPERTIES
    EveryQueryEnds
CHECK_DEADLOCK FALSE

INIT CachesInit
NEXT CachesNext
CONSTANTS
    p1 = p1
    p2 = p2
    Procs = {t1, t2}
    Nobody = Nobody
    Asks <- OpenAsks
    MaxDay = 2
    InitialFrontier = 1
    MaxRev = 2
    RowRevs = {1}
    UseLock = TRUE
    WriteBatchSize = 0
    ReadRetries = 1
    MaxOpenSinks = 4
    MaxScanPaths = 4
    Faults = {"delete"}
    MaxQueries = 1
    t1 = t1
    t2 = t2
    t3 = t3
    key = key
    NoPred = NoPred
    Missing = Missing
    Threads = {t1, t2, t3}
    Keys = {key}
    Preds = {}
    Sel <- MCSel
    Partitioned = FALSE
    PhysicalCols = {FALSE}
    InitialKeys = {key}
    MaxVersion = 2
    AsyncInterrupts = TRUE
    part1 = part1
    part2 = part2
    id = id
    x = x
    Collectors = {t1, t2}
    Parts = {part1, part2}
    Cols = {id, x}
    OrderBy = {id}
    ColumnAsks <- MixedAsks
    InitialParts = {part1}
    MaxRevision = 2
    DupRevs <- DupUntilCorrected
    Validate = TRUE
    Evicting = TRUE
SYMMETRY Symmetry
INVARIANTS
    FilesTrue
    GapsSettled
    BuildsBounded
    ColumnsComplete
    MissesFresh
    ValidatedOnly
PROPERTIES
    VersionsAdvance
    WritesStayInScope
    ImplementsReplay
CHECK_DEADLOCK FALSE

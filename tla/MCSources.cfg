INIT SourcesInit
NEXT SourcesNext
CONSTANTS
    TaskRows <- MCTaskRows
    MaxConcurrency = 2
    Orders = {TRUE, FALSE}
    BatchSize = 2
    Caps = {0, 1, 4, 5, Uncapped}
    Uncapped = Uncapped
    Executions = {"first", "second"}
    Parents = {"query", "other"}
    NoParent = "none"
    MaxBatches = 2
    Sinks <- MCSinks
    Chunks <- MCChunks
    Unit <- MCUnit
    Plain = "Plain"
    Latest = Latest
    MaxCollects = 1
    Null = Null
    None = None
    LastDay = 2
    LeftRows <- MCLeftRows
    RightRows <- MCRightRows
    JoinAsks <- MCJoinAsks
    MaxChanges = 1
    SourceRows <- MCSourceRows
    OnColumns <- MCOnColumns
    FrameColumns <- MCFrameColumns
    ShapeAsks <- MCShapeAsks
    MaxLength = 3
    CombineRows <- MCCombineRows
    Keys <- MCKeys
    CombineAsks <- MCCombineAsks
    MaxEnumerated = 2
    PartitionColumns <- MCPartitionColumns
    PartitionCells <- MCPartitionCells
INVARIANTS
    ExclusionExact
    TasksBounded
    NothingLeftRunning
    ExecutionsObserved
    SinksShowPrefixes
    ScansDecode
    JoinsAgree
    ReshapesAgree
    CombineAgrees
PROPERTIES
    ImplementsStream
CHECK_DEADLOCK FALSE

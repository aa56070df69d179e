SPECIFICATION MCSpec
CONSTANTS
    c = c
    d = d
    Columns = {c, d}
    Values = {1, 2, 3}
    Null = Null
    Matching = {2}
    Kept = {c}
    Target = c
    Leaves <- MCLeaves
    None = None
    PartitionColumns = {c}
    Every = 2
    MaxLeaves = 3
    MaxNodes = 4
    MaxOperands = 2
    Dialects = {tsql, sqlite, duckdb}
    NoBooleans = {tsql}
    CaseSensitive = {duckdb}
    MatchingAnyCase = {1, 2}
    Unpushable = {3}
    MaxIn = 2
    PushedLeaves <- MCPushedLeaves
    Incomparable = {c}
    NaN = 3
    Mapped = {c}
    Logical <- MCLogical
    SourceRows <- MCSourceRows
    Limits = {0, 2}
INVARIANTS
    RestrictionKeepsRows
    NormalFormKeepsRows
    SkippedScansAreEmpty
    PruningKeepsFiles
    PartitionsCoverOnce
    PushedKeepsRows
    LimitCountsReadRows
CHECK_DEADLOCK FALSE

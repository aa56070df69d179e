SPECIFICATION ColumnSpec
CONSTANTS
    t1 = t1
    t2 = t2
    p1 = p1
    id = id
    x = x
    Collectors = {t1, t2}
    Parts = {p1}
    Cols = {id, x}
    OrderBy = {id}
    ColumnAsks <- WholeAsks
    InitialParts = {p1}
    MaxRevision = 2
    DupRevs = {}
    Validate = TRUE
    Evicting = FALSE
INVARIANTS
    ColumnsTogether
CHECK_DEADLOCK FALSE

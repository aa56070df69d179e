CONSTANTS
    t1 = t1
    t2 = t2
    k1 = k1
    k2 = k2
    p1 = p1
    q1 = q1
    p12 = p12
    NoPred = NoPred
    Missing = Missing
    Threads = {t1, t2}
    Keys = {k1, k2}
    Preds = {p1, q1, p12}
    Sel <- MCSel
    Partitioned = TRUE
    PhysicalCols = {TRUE, FALSE}
    InitialKeys = {k2}
    MaxVersion = 2
    AsyncInterrupts = TRUE
SPECIFICATION FairMemorySpec
INVARIANTS
    AnswersAgree
    AnswersComplete
    BuildsBounded
PROPERTIES
    EveryCollectReturns

SPECIFICATION FairSpec
CONSTANTS
    a = a
    b = b
    Scans = {a, b}
    Batches <- MCBatches
    Budget = 2
    MaxConcurrency <- MCMaxConcurrency
    Caps <- MCCaps
    Uncapped = Uncapped
INVARIANTS
    SlotsBounded
    NoOrphans
PROPERTIES
    ImplementsStream
    EveryScanEnds
CHECK_DEADLOCK FALSE

CONSTANTS
    p = p
    q = q
    ProductIDs <- MCProductIDs
    dpList <- MCList
    Capacity = 1
    MaxProducts = 5
    MaxBatch = 2
SPECIFICATION Spec
INVARIANTS
    PopsWhatIsThere
    QueueIsBounded
PROPERTIES
    ReplaysArchive
    ReaderEnds
CHECK_DEADLOCK FALSE

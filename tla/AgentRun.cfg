SPECIFICATION FairSpec
CONSTANTS
    ReadSize = 2
    ChunkSize = 3
    Capacity = 3
    MaxOut = 4
    Nothing = Nothing
CHECK_DEADLOCK FALSE
INVARIANTS
    ResultIsReal
PROPERTY
    Ends

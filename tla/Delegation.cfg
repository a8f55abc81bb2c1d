SPECIFICATION FairSpec
CHECK_DEADLOCK FALSE
CONSTANTS
    Depth = 2
    Worker = {w1, w2, w3}
    NoWorker = NoWorker
    MaxFaults = 1
INVARIANTS
    ReturnPath
    ResultsAreReal
    CompletedIsWhole
PROPERTIES
    OriginatorAnswered

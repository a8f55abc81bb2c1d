SPECIFICATION FairSpec
CONSTANTS
    Hop = Hop
    Raw = Raw
    Threads = {t1, t2}
    Importers = {i1, i2}
    Nothing = Nothing
    MaxFaults = 1
    MaxCalls = 2
    MaxCount = 4
CHECK_DEADLOCK FALSE
INVARIANTS
    NoneLost
    RepliesEarned
PROPERTY
    Served

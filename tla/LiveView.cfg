SPECIFICATION ViewFairSpec
CONSTANTS
    Messages = {m1, m2}
    Workers = {w1, w2}
    Clients = {c1}
    Newest = 1
    Recent = 1
    MaxTime = 1
    MaxChanges = 1
    Nothing = Nothing
CHECK_DEADLOCK FALSE
INVARIANTS
    NothingMissed
PROPERTY
    Seen

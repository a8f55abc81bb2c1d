SPECIFICATION FairSpec
CHECK_DEADLOCK FALSE
CONSTANTS
    Depth = 1
    Msg = {m1, m2, m3, m4}
    NoMsg = NoMsg
    File = {f1, f2}
    NoFile = NoFile
    Answers <- MCAnswers
    NoTask = NoTask
    NoWorker = NoWorker
    Budgets <- MCBudgets
    t1 = t1
    w1 = w1
    w2 = w2
    c1 = c1
    c2 = c2
    c3 = c3
INVARIANTS
    Audited
    MarkedWasTold
    CallsDiffer
PROPERTIES
    OwnerHears

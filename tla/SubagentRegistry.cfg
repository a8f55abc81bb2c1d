SPECIFICATION Spec
CHECK_DEADLOCK FALSE
CONSTANTS
    Worker = {w1}
    NoWorker = NoWorker
    Client = {c1, c2, c3}
    Results = {r1, r2}
    NoResult = NoResult
    MaxSaves = 2
SYMMETRY Symmetry
INVARIANTS
    Reporting
    ArchivedWasFinished
PROPERTIES
    ResultKept
    NeverReturns
    ContextConsistent

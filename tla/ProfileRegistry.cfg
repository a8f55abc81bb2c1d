SPECIFICATION Spec
CHECK_DEADLOCK FALSE
CONSTANTS
    Name = {hermes, a, b}
    NoName = NoName
    Hermes = hermes
    Client = {c1, c2}
    Keep = Keep
    Creations <- MCCreations
    Updates <- MCUpdates
    MaxCalls = 5
SYMMETRY Symmetry
INVARIANTS
    ForestUnlessRaced
    RanksOrdered
    ScanExact
PROPERTIES
    BriefBeforeActive

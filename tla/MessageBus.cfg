SPECIFICATION Spec
CONSTANTS
    Msg = {m1, m2}
    NoMsg = NoMsg
    Client = {c1, c2, c3}
    TTLs <- MCTTLs
    MaxTime = 3
SYMMETRY Symmetry
INVARIANTS
    Conservation
    OnlyOverdueExpires
    NeverOfferedAgain
PROPERTIES
    Lifecycle
    MailboxSpec

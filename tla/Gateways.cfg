SPECIFICATION GatewaySpec
CONSTANTS
    p1 = p1
    p2 = p2
    p3 = p3
    a1 = a1
    a2 = a2
    Pids = {p1, p2, p3}
    Agents = {a1, a2}
    Consoles = {c1}
    Nothing = Nothing
    Torn = Torn
    Stub = Stub
SYMMETRY Symmetry
INVARIANTS
    EntryIsChild
    OneGateway

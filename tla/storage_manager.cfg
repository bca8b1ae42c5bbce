SPECIFICATION Spec
CONSTANTS
    c1 = c1
    c2 = c2
    x = x
    y = y
    Clients = {c1, c2}
    Cells = {x, y}
    Values = {1}
    Nobody = Nobody
    MaxCalls = 2
    Requests <- MCRequests
INVARIANTS
    TypeOK
PROPERTIES
    ImplementsAtomicStorage
    EveryCallAnswered
CHECK_DEADLOCK FALSE

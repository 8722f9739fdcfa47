SPECIFICATION Spec
CONSTANTS
    c1 = c1
    c2 = c2
    b1 = b1
    b2 = b2
    b3 = b3
    Undeclared = Undeclared
    Empty = Empty
    Clients <- TwoClients
    Calls <- ThreeCalls
    Filtered <- OneFiltered
    Scope <- OneClient
    QueueCap = 3
    Serialized = FALSE
INVARIANTS
    LatchInv
    LatestNeverMissed
CHECK_DEADLOCK FALSE

CONSTANTS
    A = A
    a1 = a1
    a2 = a2
    a3 = a3
    NoConn = NoConn
    Endpoints = {A}
    Conns = {a1, a2, a3}
    Owner <- MCOwner
    MaxSessions = 3
    MaxPerEndpoint = 3
    QueueCap = 1
    MaxShutdowns = 1
SPECIFICATION MCSpec
INVARIANTS
    DrainedApart
PROPERTIES
    CancelledLeaves
    ServesNewest
CHECK_DEADLOCK FALSE

CONSTANTS
    A = A
    B = B
    a1 = a1
    a2 = a2
    a3 = a3
    b1 = b1
    r1 = r1
    r2 = r2
    NONE = NONE
    Endpoints <- MCEndpoints
    Conns <- MCConns
    Owner <- MCOwner
    NoConn = NONE
    MaxSessions = 3
    MaxPerEndpoint = 2
    QueueCap = 1
    MaxShutdowns = 0
    Ids <- MCRemotes
    NoId = NONE
    MaxActors = 2
    InboxCap = 1
    MaxMsgs = 3
    MaxTries = 1
SPECIFICATION MCSpec
INVARIANTS
    PermitsAccounted
    NoZombies
    NoOrphans
    RoutesRevocable
    SenderCurrent
    ActorPermits
    Conserved
    OrderKept
PROPERTIES
    StaysReachable
SYMMETRY MCSymmetry
CHECK_DEADLOCK FALSE

SPECIFICATION GossipSpec
CONSTANTS
    A = A
    B = B
    C = C
    D = D
    X = X
    Nodes = {A, B, C, D}
    ActiveCap = 2
    PassiveCap = 1
    ARWL = 2
    PRWL = 1
    SRWL = 2
    ShuffleActive = 1
    ShufflePassive = 1
    MaxJoins = 1
    MaxShuffles = 1
    MaxLosses = 1
    MaxQuits = 1
    Members = {A, B, C}
    Ids = {X}
    Links <- Triangle
    Threshold = 1
    MaxPending = 1
    MaxGraftRetries = 2
    MaxLazyQueue = 1
    MaxBroadcasts = 1
    MaxDisturbances = 1
    Docs = {d1, d2}
    Hashes = {h1, h2, h3}
    MaxHashes = 2
    MaxPerDoc = 1
    MaxEvents = 5
INVARIANTS
    QueuesAgree
    ReadyPending
    ViewsApart
    NeighborsTold
    WalksSafe
    NeighborsServed
    GraftPending
    DispatchPending
PROPERTIES
    Settles
    Delivered
    ReadyAnnounced
CHECK_DEADLOCK FALSE

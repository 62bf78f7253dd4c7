SPECIFICATION MCStoreSpec
CONSTANTS
    A = A
    B = B
    c1 = c1
    c2 = c2
    t1 = t1
    t2 = t2
    Blobs = {A, B}
    Small = {A}
    Children <- MCChildren
    Names = {t1, t2}
    Clients = {c1, c2}
    Stored = {A, B}
    Tagged <- MCTagged
    MaxOps = 2
    MaxRuns = 1
    MaxCrashes = 1
INVARIANTS FilesKept ImportKept
PROPERTY SteadyKept
SYMMETRY MCClients
CHECK_DEADLOCK FALSE

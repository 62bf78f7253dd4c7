SPECIFICATION StoreSpec
CONSTANTS
    A = A
    B = B
    c1 = c1
    t1 = t1
    Blobs = {A, B}
    Small = {A}
    Children <- MCChildren
    Names = {t1}
    Stored = {A, B}
    Tagged <- MCTagged
    Clients = {c1}
    MaxOps = 1
    MaxRuns = 1
    MaxCrashes = 0
PROPERTY ChildrenKept
CHECK_DEADLOCK FALSE

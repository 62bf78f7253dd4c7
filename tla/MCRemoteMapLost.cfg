CONSTANTS
    A = A
    B = B
    C = C
    NONE = NONE
    Ids <- MCIds
    NoId = NONE
    MaxActors = 1
    InboxCap = 1
    MaxMsgs = 3
    MaxTries = 1
SPECIFICATION MapSpec
INVARIANTS
    NoneLost
SYMMETRY MCSymmetry
CHECK_DEADLOCK FALSE

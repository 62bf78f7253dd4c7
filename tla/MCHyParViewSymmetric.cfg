SPECIFICATION Spec
CONSTANTS
    A = A
    B = B
    C = C
    D = D
    Nodes = {A, B, C}
    ActiveCap = 1
    PassiveCap = 1
    ARWL = 2
    PRWL = 1
    SRWL = 1
    ShuffleActive = 1
    ShufflePassive = 1
    MaxJoins = 2
    MaxShuffles = 0
    MaxLosses = 0
    MaxQuits = 0
SYMMETRY Symmetry
INVARIANT Bidirectional
CHECK_DEADLOCK FALSE

SPECIFICATION DocsSpec
CONSTANTS
    Peers = {1, 2}
    Leavers = {}
    MaxLive = 1
    MaxUps = 0
    MaxReports = 0
    KeyCount = 3
    ProperPrefixes <- Paths
    EmptyKeys = {1}
    MaxValue = 3
    EmptyValues = {2}
    SplitFactor = 2
    MaxSetSize = 1
    MaxEntries = 4
    MaxParts = 4
    Insertions = {}
    MaxInserts = 0
    Beginnings <- MCDeletions
INVARIANT NoneOutdated
CHECK_DEADLOCK FALSE

SPECIFICATION ReplicasSpec
CONSTANTS
    Peers = {1, 2}
    Leavers = {2}
    MaxLive = 2
    MaxUps = 2
    MaxReports = 1
    KeyCount = 8
    ProperPrefixes <- Paths
    EmptyKeys = {}
    MaxValue = 3
    EmptyValues = {2}
    SplitFactor = 2
    MaxSetSize = 1
    MaxEntries = 7
    MaxParts = 7
    Insertions <- MCInsertions
    MaxInserts = 1
    Beginnings <- MCBeginnings
    c1 = c1
    c2 = c2
    c3 = c3
    d1 = d1
    d2 = d2
    Replicas = {r1, r2, r3}
    Founders = {c1, c2}
    Devices = {d1, d2}
    Suites = {1, 2}
    Policies <- MCPolicies
    Scenarios <- MCScenarios
    MaxLineage = 2
    MaxForkHeads = 3
SYMMETRY ReplicaSymmetry
INVARIANTS
    AcceptsAccounted
    LesserExclusive
    Merged
    Reconciled
    NoneUnderContent
    Logarithmic
    Projected
    Unstuck
PROPERTY
    TombstonesKept
CHECK_DEADLOCK FALSE

SPECIFICATION AccountSpec
CONSTANTS
    c1 = c1
    c2 = c2
    c3 = c3
    d1 = d1
    d2 = d2
    Replicas = {r1, r2, r3}
    Founders = {c1, c2}
    Devices = {d1, d2}
    Suites = {1, 2}
    Policies <- MCPolicies
    Scenarios <- PolicyChanges
    MaxLineage = 5
    MaxForkHeads = 3
INVARIANT DuplicatesTolerated
CHECK_DEADLOCK FALSE

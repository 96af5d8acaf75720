SPECIFICATION Spec
CONSTANTS
    k1 = k1
    k2 = k2
    v1 = v1
    v2 = v2
    c1 = c1
    c2 = c2
    c3 = c3
    s1 = s1
    s2 = s2
    s3 = s3
    s4 = s4
    Keys = {k1, k2}
    Vals = {v1}
    Clients = {c1, c2}
    Segs = {s1, s2, s3}
    SegSize = 1
    Modes = {"create", "replace"}
    Kinds = {"put", "del", "get"}
    MaxTs = 4
    Budgets <- MCReads
SYMMETRY MCSymmetry
INVARIANTS
    OneEntryPerKey
    RecoveryKeepsCommits
    GetLinearizable
    FreeIsUnreferenced
CHECK_DEADLOCK FALSE

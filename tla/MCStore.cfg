SPECIFICATION Spec
CONSTANTS
    k1 = k1
    k2 = k2
    v1 = v1
    v2 = v2
    c1 = c1
    c2 = c2
    c3 = c3
    s1 = s1
    s2 = s2
    s3 = s3
    s4 = s4
    Keys = {k1}
    Vals = {v1}
    Clients = {c1, c2}
    Segs = {s1, s2, s3}
    SegSize = 2
    Modes = {"upsert"}
    Kinds = {"put", "del", "get"}
    MaxTs = 5
    Budgets <- MCBudgets
SYMMETRY MCSymmetry
INVARIANTS
    TypeOK
    RecoveryKeepsCommits
    ValidIsExact
    FreeIsUnreferenced
PROPERTIES
    CommitsMoveForward
CHECK_DEADLOCK FALSE

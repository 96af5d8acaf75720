SPECIFICATION Spec
CONSTANTS
    k1 = k1
    k2 = k2
    v1 = v1
    v2 = v2
    c1 = c1
    c2 = c2
    c3 = c3
    s1 = s1
    s2 = s2
    s3 = s3
    s4 = s4
    Keys = {k1}
    Vals = {v1}
    Clients = {c1, c2, c3}
    Segs = {s1, s2, s3}
    SegSize = 4
    Modes = {"upsert"}
    Kinds = {"put", "del"}
    MaxTs = 2
    Budgets <- MCAcks
SYMMETRY MCSymmetry
INVARIANTS
    RecoveryReproducesAcks
CHECK_DEADLOCK FALSE

SPECIFICATION Spec
CONSTANTS
    ka = ka
    kb = kb
    kc = kc
    kd = kd
    w1 = w1
    w2 = w2
    g1 = g1
    gct = gct
    kUnusedPba = kUnusedPba
    kHopRange = 2
    kMaxDisplace = 1
    num_buckets = 2
    HomeOf <- MCHomeOf
    TagOf <- MCTagOf
    GcThread = gct
    kMaxTableBits = 2
    InitBits = 0
    Restored <- MCRestored
    Keys = {ka, kb, kc, kd}
    Writers = {w1, w2}
    Getters = {g1}
    FreeSegs = 2
    DataSegs = 0
    MaxWrites = 2
    MaxGets = 1
    MaxGc = 0
SYMMETRY MCSymmetry
INVARIANTS
    TypeOK
    GrowsOnce
    CopyFits
    EntriesExact
    SnapshotAlive
    GetLinearizable
CHECK_DEADLOCK FALSE

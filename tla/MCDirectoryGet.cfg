SPECIFICATION Spec
CONSTANTS
    ka = ka
    kb = kb
    kc = kc
    kd = kd
    w1 = w1
    w2 = w2
    g1 = g1
    gct = gct
    kUnusedPba = kUnusedPba
    kHopRange = 3
    kMaxDisplace = 1
    num_buckets = 2
    HomeOf <- MCSameHome
    TagOf <- MCTagOf1
    GcThread = gct
    kMaxTableBits = 1
    InitBits = 0
    Restored <- MCColliding
    Keys = {ka, kb, kc, kd}
    Writers = {w1}
    Getters = {g1}
    FreeSegs = 2
    DataSegs = 0
    MaxWrites = 1
    MaxGets = 1
    MaxGc = 0
INVARIANT
    GetLinearizable
CHECK_DEADLOCK FALSE

SPECIFICATION FairSpec
CONSTANTS
    ka = ka
    kb = kb
    kc = kc
    kd = kd
    w1 = w1
    w2 = w2
    g1 = g1
    gct = gct
    kUnusedPba = kUnusedPba
    kHopRange = 2
    kMaxDisplace = 1
    num_buckets = 2
    HomeOf <- MCHomeOf
    TagOf <- MCTagOf
    GcThread = gct
    kMaxTableBits = 2
    InitBits = 0
    Restored <- MCRestored
    Keys = {kd}
    Writers = {w1, w2}
    Getters = {}
    FreeSegs = 1
    DataSegs = 1
    MaxWrites = 2
    MaxGets = 0
    MaxGc = 1
INVARIANTS
    SegmentsExact
PROPERTIES
    WritesEnd
CHECK_DEADLOCK FALSE

SPECIFICATION Spec
CONSTANTS
    ka = ka
    kb = kb
    kc = kc
    kd = kd
    ke = ke
    kf = kf
    kl = kl
    w1 = w1
    w2 = w2
    r1 = r1
    x = x
    y = y
    kUnusedPba = kUnusedPba
    kHopRange = 2
    kMaxDisplace = 2
    num_buckets = 12
    slots_per_stripe_ = 8
    Keys = {ka, kb, kc, kd, ke, kf, kl}
    BucketOf <- MCBucketOf
    TagOf <- MCTagOf
    Present = {ka, kb, kc, kd}
    Restored <- MCRestored
    Writers = {w1, w2}
    Readers = {r1}
    MaxWrites = 3
    MaxReads = 1
    Lookups = {kb, ke}
SYMMETRY MCSymmetry
INVARIANTS
    TypeOK
    LookupLinearizable
    EntriesExact
    StripesProtect
    SomeWriterGoesOn
CHECK_DEADLOCK FALSE

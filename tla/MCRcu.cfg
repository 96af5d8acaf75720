CONSTANTS
    t1 = t1  t2 = t2  c1 = c1  c2 = c2  u1 = u1  u2 = u2
    Threads = {t1, t2}
    Sections = {c1, c2}
    Updaters = {u1}
    Reclaimer = rec
    kMaxThreads = 1
    ReaderFence = FALSE
    MaxEntries = 2
    MaxVersion = 2
SPECIFICATION Spec
SYMMETRY MCSymmetry
INVARIANTS TypeOK NoUseAfterFree BarrierCovers DestroyRunsAll
PROPERTIES ImplementsGracePeriod

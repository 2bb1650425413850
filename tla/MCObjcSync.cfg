CONSTANTS
    Threads = {t1, t2}
    Objects = {o1, o2}
    Stripes = {s1}
    nil = nil
    StripeOf <- OneStripe
    SyncCacheCount = 1
    MaxSyncData = 2
    MaxLockCount = 2
    MaxStray = 1
SYMMETRY Symmetry
SPECIFICATION Spec
CHECK_DEADLOCK FALSE
INVARIANTS
    MutualExclusion
    UniqueSyncData
    NoFatal
    ThreadCountExact
    ExitReportsOwnership
PROPERTY
    InUseKeepsObject

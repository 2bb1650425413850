CONSTANTS
    Threads = {t1, t2}
    Objects = {1, 2, 3}
    Stripes = {s1}
    nil = nil
    StripeOf <- OneStripe
    Order <- NaturalOrder
    SyncCacheCount = 1
    MaxSyncData = 3
    MaxLockCount = 2
    MaxStray = 1
    MaxEnters = 3
SPECIFICATION ClientSpec
INVARIANTS
    CacheInBounds
    AllAvailable
PROPERTY
    EveryProgramFinishes

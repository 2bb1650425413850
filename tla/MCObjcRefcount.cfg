CONSTANTS
    a = a
    t1 = t1
    t2 = t2
    nil = nil
    Threads = {t1, t2}
    Objects = {a}
    Locations = {w1, w2}
    StripeOf <- TwoTables
    RC_HALF = 2
    Creator <- FirstThread
    MaxRefs <- TwiceOver
SPECIFICATION Spec
INVARIANTS
    CountExact
    NoUseAfterFree
    WeakTableExact
    LocksInOrder
PROPERTY
    RefinesRetainCount

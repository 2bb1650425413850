CONSTANTS
    m1 = m1
    m2 = m2
    s1 = s1
    p1 = p1
    b1 = b1
    b2 = b2
    o1 = o1
    o2 = o2
    Modes = {m1, m2}
    CommonModes = {m1, m2}
    Sources0 = {}
    Sources1 = {}
    InModes <- AddedTo
    Blocks = {b1, b2}
    RunsIn <- QueuedFor
    Observers <- TwoObservers
    ObservesAt <- Observing
    OneShot = {o2}
    Clients = {t1}
    Calls = {"block", "stopMode"}
    MainThread = TRUE
    BaseRuns <- RunForever
    NestedRuns <- RunModal
    NestIn = {"InObserver", "InBlock", "InMainQueue"}
    MaxDepth = 2
SPECIFICATION Spec
INVARIANTS
    TypeOK
    SleepsOnlyWhenIdle
    ObserverNotReentered
    MainQueueNotReentered
PROPERTIES
    BlocksConserved
    BlocksInOrder

CONSTANTS
    m1 = m1
    m2 = m2
    s1 = s1
    p1 = p1
    b1 = b1
    b2 = b2
    o1 = o1
    o2 = o2
    Modes = {m1, m2}
    CommonModes = {m1}
    Sources0 = {s1}
    Sources1 = {p1}
    InModes <- AddedTo
    Blocks = {}
    RunsIn <- QueuedFor
    Observers <- OneObserver
    ObservesAt <- Observing
    OneShot = {}
    Clients = {t1}
    Calls = {"signal"}
    MainThread = FALSE
    BaseRuns <- RunForever
    NestedRuns <- RunModal
    NestIn = {"InObserver"}
    MaxDepth = 2
SPECIFICATION Spec
INVARIANT NoWakeUpLost

CONSTANTS
    m1 = m1
    m2 = m2
    t1 = t1
    t2 = t2
    Modes = {m1, m2}
    Timers = {t1, t2}
    Interval <- Intervals
    Tolerance <- Tolerances
    InModes <- AddedTo
    FireDates <- Dates
    Clients = {c1}
    Calls = {"setNextFireDate", "add", "remove", "invalidate"}
    Delays = {1}
    RunModes = {m1}
    Early = 0
    Never = 1000
    MaxDepth = 2
    MaxTime = 1
SPECIFICATION Spec
INVARIANTS
    TimersSorted
    TimersArmed
    TimerNotReentered

SPECIFICATION Spec
CONSTANTS
    t1 = t1
    t2 = t2
    t3 = t3
    m1 = m1
    m2 = m2
    m3 = m3
    Thread <- ThreeThreads
    Model <- ThreeModels
    Ops = {"send", "unload", "remove", "add", "add_unloaded"}
    InitEngines = {}
    InitUnloaded <- JustM3
    AutoEvict = TRUE
    MayDie = FALSE
    MayTimeOut = FALSE
    MaxCalls = 3
SYMMETRY Interchangeable
INVARIANTS
    NoCircularWait
    DefaultRegistered
    OnlyOvertakenLost
CHECK_DEADLOCK FALSE

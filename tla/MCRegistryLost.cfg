SPECIFICATION Spec
CONSTANTS
    t1 = t1
    t2 = t2
    t3 = t3
    m1 = m1
    m2 = m2
    m3 = m3
    Thread <- ThreeThreads
    Model <- BothModels
    Ops = {"send", "unload"}
    InitEngines <- JustM1
    InitUnloaded <- JustM2
    AutoEvict = TRUE
    MayDie = FALSE
    MayTimeOut = FALSE
    MaxCalls = 3
SYMMETRY Interchangeable
INVARIANTS
    NoModelLost
CHECK_DEADLOCK FALSE

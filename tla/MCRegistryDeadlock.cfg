SPECIFICATION Spec
CONSTANTS
    t1 = t1
    t2 = t2
    t3 = t3
    m1 = m1
    m2 = m2
    m3 = m3
    Thread <- TwoThreads
    Model <- BothModels
    Ops = {"set_default", "remove"}
    InitEngines <- BothModels
    InitUnloaded = {}
    AutoEvict = TRUE
    MayDie = FALSE
    MayTimeOut = FALSE
    MaxCalls = 2
SYMMETRY Interchangeable
INVARIANTS
    NoCircularWait
CHECK_DEADLOCK FALSE

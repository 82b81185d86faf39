SPECIFICATION FairSpec
CONSTANTS
    t1 = t1
    t2 = t2
    t3 = t3
    m1 = m1
    m2 = m2
    m3 = m3
    Thread <- TwoThreads
    Model <- BothModels
    Ops = {"send", "send_default", "reload", "set_default"}
    InitEngines <- JustM1
    InitUnloaded <- JustM2
    AutoEvict = FALSE
    MayDie = TRUE
    MayTimeOut = TRUE
    MaxCalls = 3
PROPERTIES
    EveryCallReturns
CHECK_DEADLOCK FALSE

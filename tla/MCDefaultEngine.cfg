SPECIFICATION FairSpec
CONSTANTS
    one = one
    wide = wide
    stop = stop
    quit = quit
    Request = {one, wide, stop, quit}
    Class <- ClassOf
    NChoices <- ChoicesOf
    PromptLen <- PromptLenOf
    MaxActive = 2
    MaxSeqs = 2
    MaxPending = 2
    MaxGenerated = 3
    MayFail = TRUE
    Hit <- HitOf
    TerminateAll = {stop}
    MayClose = {one}
    MayRefuse = {wide}
    Junk = Junk
CHECK_DEADLOCK FALSE
INVARIANTS
    AdmissionSound
    OnlyExposedHarmed
PROPERTIES
    EveryRequestEnds
    NoneDropped

SPECIFICATION Spec
CONSTANTS
    h1 = h1
    h2 = h2
    h3 = h3
    NumBlocks = 2
    Hash = {h1, h2}
    Lease = {l1, l2}
    DebugAssertions = TRUE
    Req = {r1, r2}
    Chains <- MCShortChains
    BlockSize = 1
    MaxTokens = 2
    Junk = Junk
SYMMETRY MCSymmetry
INVARIANTS
    NoPanic
    PoolConsistent
    ReservationsHonoured
PROPERTIES
    RevokesOldestFirst
    LedgerSpec

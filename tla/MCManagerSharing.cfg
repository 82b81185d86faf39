SPECIFICATION Spec
CONSTANTS
    h1 = h1
    h2 = h2
    h3 = h3
    NumBlocks = 2
    Hash = {h1, h2, h3}
    Lease = {}
    DebugAssertions = TRUE
    Req = {r1, r2}
    Chains <- MCChains
    BlockSize = 2
    MaxTokens = 4
    Junk = Junk
SYMMETRY MCSymmetry
INVARIANT
    NoOrphanedBlocks
PROPERTY
    LedgerSpec

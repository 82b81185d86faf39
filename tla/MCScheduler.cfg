SPECIFICATION FairSpec
CONSTANTS
    h1 = h1
    h2 = h2
    h3 = h3
    h4 = h4
    Hash = {h1, h2, h3, h4}
    Junk = Junk
    NumBlocks = 3
    BlockSize = 2
    NumSeqs = 3
    ChainOf <- MCChainOf
    PromptLen <- MCPromptLen
    MaxLen <- MCMaxLen
    Media <- MCMedia
    Visible = {3}
    Closable = {3}
    MayTerminate = TRUE
    MayFail = TRUE
    MaxNumSeqs = 2
    MaxBatchedTokens = 3
    MaxPrefillChunk = 1
    MaxDecodeSteps = 1
    WaitingTimeout = 1
    RaggedBucketTokens = 2
    UniformPrompt = TRUE
    UniformCompletion = TRUE
    UniformMedia = TRUE
    PackedPrefill = TRUE
    PreemptForWaiting = TRUE
CHECK_DEADLOCK FALSE
INVARIANTS
    NoSequenceLost
    
    AttendsToItsOwnTokens
    NoPanic
    OnlyTooLongIgnored
    WaitingHoldNothing
    BatchIsUniform
PROPERTIES
    PreemptsYoungestFirst
    EverySequenceEnds

SPECIFICATION FairSpec
CONSTANTS
    c1 = c1
    c2 = c2
    c3 = c3
    Call = {c1, c2, c3}
    SessionOf <- Sessions
    MaxPosts <- Posts
    None = None
CHECK_DEADLOCK FALSE
INVARIANTS
    AnswerDecides
    NothingLeft
PROPERTY
    EveryCallEnds

SPECIFICATION Spec
CONSTANTS
    h1 = h1
    h2 = h2
    h3 = h3
    r1 = r1
    r2 = r2
    Block = {b1, b2, b3}
    Req = {r1, r2}
    Hash = {h1, h2, h3}
    NoHash = NoHash
    Junk = Junk
    Chains <- MCChains
SYMMETRY MCSymmetry
INVARIANTS
    RefCountsExact
    PrefixHitsSound
    HeldPrefixIntact
    ReservationsExact
    ReservationsCovered
PROPERTIES
    SharedBlocksImmutable

SPECIFICATION Spec
CONSTANTS
    g1 = g1
    g2 = g2
    g3 = g3
    r1 = r1
    r2 = r2
    o1 = o1
    o2 = o2
    o3 = o3
    t1 = t1
    t2 = t2
    Loader = {t1, t2}
    Alias = {a1, a2, a3}
    Generation = {g1, g2, g3}
    Request = {r1, r2}
    Object = {o1, o2, o3}
    Bytes <- BytesOf
    MaxAdapters = 2
    MaxBytes = 3
    None = None
SYMMETRY Interchangeable
INVARIANTS
    DistinctResidents
    BudgetExact
    NothingWasted
PROPERTY
    PolicyHonoured

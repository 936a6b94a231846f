SPECIFICATION Spec
CONSTANTS
    t1 = t1
    t2 = t2
    c1 = c1
    h1 = h1
    g1 = g1
    g2 = g2
    k1 = k1
    k2 = k2
    None = None
    Threads = {t1, t2}
    Instruments = {c1, h1, g1, g2}
    Classes = {k1, k2}
    Kind <- MCKind
    ClassOf <- MCClassOf
    WarmStart = FALSE
CHECK_DEADLOCK FALSE
INVARIANTS
    LazyLoad

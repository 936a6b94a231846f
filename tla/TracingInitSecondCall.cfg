SPECIFICATION Spec
CONSTANTS
    t1 = t1
    t2 = t2
    f1 = f1
    f2 = f2
    Threads = {t1, t2}
    Filters = {f1, f2}
CHECK_DEADLOCK FALSE
INVARIANTS
    FalseMeansDisabled

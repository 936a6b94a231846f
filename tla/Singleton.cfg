SPECIFICATION Spec
CONSTANTS
    t1 = t1
    t2 = t2
    t3 = t3
    o1 = o1
    o2 = o2
    Threads = {t1, t2, t3}
    Objects = {o1, o2}
    Null = Null
CHECK_DEADLOCK FALSE
INVARIANTS
    OneLiveInstance

SPECIFICATION Spec
CONSTANTS
    t1 = t1
    t2 = t2
    s1 = s1
    s2 = s2
    s3 = s3
    r1 = r1
    Threads = {t1, t2}
    Spans = {s1, s2, s3}
    Remote = {r1}
    MaxEvents = 1
    NoSpan = NoSpan
    NoThread = NoThread
CHECK_DEADLOCK FALSE
SYMMETRY SpanSymmetry
INVARIANTS
    TypeOK
    StackDepth
    ScopeOwnership
PROPERTIES
    PoppedByOwnerOnly
    EndedIsFinal

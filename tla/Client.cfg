SPECIFICATION Spec
CONSTANTS
    r1 = r1
    r2 = r2
    r3 = r3
    idA = idA
    idB = idB
    None = None
    Requests = {r1, r2, r3}
    Ids = {idA, idB}
    RequestId <- MCRequestId
    NumThreads = 2
    Cancels = 1
    MaxCancels <- MCMaxCancels
CHECK_DEADLOCK FALSE
INVARIANTS
    TypeOK
    ReportedOnce
    CancelHonoured
    SessionTracked
    AnsweredBeforeClose
PROPERTIES
    NoIOAfterCancel
    CloseReturns

SPECIFICATION Spec
CONSTANTS
    r1 = r1
    r2 = r2
    idA = idA
    idB = idB
    None = None
    Requests = {r1, r2}
    Ids = {idA, idB}
    RequestId <- MCRequestId
    NumThreads = 2
    Cancels = 2
    MaxCancels <- MCMaxCancels
CHECK_DEADLOCK FALSE
PROPERTIES
    EveryRequestAnswered

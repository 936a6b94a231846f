SPECIFICATION DistSpec
CONSTANTS
    r1 = r1
    r2 = r2
    idA = idA
    idB = idB
    None = None
    Requests = {r1, r2}
    Conns = {r1, r2}
    Ids = {idA, idB}
    RequestId <- MCRequestId
    NumThreads = 2
    MaxCancels <- MCMaxCancels
    MaxResets = 1
    PoolSize = 1
    ContextStart = 5
    FLAGS_SIZE = 1
    SPAN_ID_SIZE = 2
    TRACE_ID_SIZE = 1
    Nibbles = {0, 1, 10}
    Zero = 0
    Char <- MCChar
    Dash = "-"
    Newline = "NL"
    ToHex <- MCToHex
    FromHex <- MCFromHex
    TraceFlagsFromHex <- MCTraceFlagsFromHex
    SpanIdOf <- MCSpanIdOf
    TraceId <- MCTraceId
    Cmd <- MCCmd
    Duration <- MCDuration
CHECK_DEADLOCK FALSE
INVARIANTS
    DistTypeOK
    SuccessMeansTraced
    FailureExplained
PROPERTIES
    ClientSpec
    ServiceEnds
    StopReturns

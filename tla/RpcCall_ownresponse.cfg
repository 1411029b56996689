CONSTANTS
    Callers = {k1, k2}
    Timed = {k1}
    Conns = {c1}
    NoConn = NoConn
    MaxRetries = 0
    MaxSeq = 2
SPECIFICATION Spec
INVARIANT OwnResponse
CHECK_DEADLOCK FALSE

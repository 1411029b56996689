CONSTANTS
    Callers = {k1, k2}
    Conns = {c1, c2}
    NoConn = NoConn
    Size = 2
    Waits = 1
SPECIFICATION FairSpec
PROPERTIES GetReturns CloseReturns
CHECK_DEADLOCK FALSE

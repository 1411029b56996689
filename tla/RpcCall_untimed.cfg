CONSTANTS
    Callers = {k1, k2}
    Timed = {}
    Conns = {c1, c2}
    NoConn = NoConn
    MaxRetries = 1
    MaxSeq = 3
SPECIFICATION Spec
SYMMETRY Symmetry
INVARIANTS OwnResponse ReturnedHoldsNothing
PROPERTY NilPendingNotWritten
CHECK_DEADLOCK FALSE

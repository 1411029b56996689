CONSTANTS
    Callers = {k1, k2}
    Conns = {c1, c2, c3, c4}
    NoConn = NoConn
    Size = 2
    Waits = 1
SPECIFICATION Spec
SYMMETRY Symmetry
INVARIANTS ExclusiveOwnership BoundedCreation SocketsCounted NoLeakWhileOpen HandedOutIsLive
PROPERTY ImplementsLease
CHECK_DEADLOCK FALSE

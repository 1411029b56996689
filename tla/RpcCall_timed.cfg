CONSTANTS
    Callers = {k1, k2}
    Timed = {k1}
    Conns = {c1}
    NoConn = NoConn
    MaxRetries = 1
    MaxSeq = 2
SPECIFICATION FairSpec
INVARIANT AnswersExpected
PROPERTY TimedReturns
CHECK_DEADLOCK FALSE

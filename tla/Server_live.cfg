SPECIFICATION FairSpec
CONSTANTS
    c1 = c1
    r1 = r1
    r2 = r2
    None = None
    Conns = {c1}
    Reqs = {r1, r2}
    TimedReqs = {r1}
    Auth = FALSE
    UseWorkerPool = TRUE
    QueueCap = 1
    Workers = 1
    MaxTimeouts = 1
PROPERTIES StopReturns RequestEnds RemovedIsClosed
CHECK_DEADLOCK FALSE

SPECIFICATION Spec
CONSTANTS
    c1 = c1
    c2 = c2
    r1 = r1
    r2 = r2
    None = None
    Conns = {c1, c2}
    Reqs = {r1, r2}
    TimedReqs = {}
    Auth = TRUE
    UseWorkerPool = TRUE
    QueueCap = 1
    Workers = 1
    MaxTimeouts = 1
SYMMETRY Symmetry
INVARIANTS CountExact ServingCounted WriteExclusion NoReaderAfterWait
CHECK_DEADLOCK FALSE

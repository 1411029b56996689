CONSTANTS
    MinWorkers = 5
    MaxWorkers = 6
    QueueSize = 1
    Requesters = {g1, g2}
    MaxRequests = 3
    MaxResets = 1
    MaxCount = 20
SPECIFICATION FairSpec
INVARIANTS LoadsExact EnoughWorkers CountAtLeastMin
 
CHECK_DEADLOCK FALSE

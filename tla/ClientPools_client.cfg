CONSTANTS
    Kinds = {"direct", "registry", "etcd"}
    Addrs = {a1, a2}
    Invokers = {g1}
    Heartbeat = Heartbeat
    Watcher = Watcher
    Pools = {p1, p2, p3}
    NoPool = NoPool
    MaxIdx = 3
    MaxEvents = 1
SPECIFICATION FairSpec
INVARIANT OpenIsReachable
PROPERTIES EachInTurn ListConverges
CHECK_DEADLOCK FALSE

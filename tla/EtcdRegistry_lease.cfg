CONSTANTS
    Leases = {l1, l2, l3}
    NoLease = NoLease
    Absent = Absent
    Main = Main
    KeepAlive = KeepAlive
SPECIFICATION EtcdFairSpec
INVARIANT RemovedStaysAway
PROPERTIES ComesBack DeadLeaves
CHECK_DEADLOCK FALSE

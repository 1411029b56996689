CONSTANTS
    Services = {s1}
    Addrs = {a1}
    Conns = {x1, x2}
    NoReply = NoReply
    NoConn = NoConn
    NoKey = NoKey
    App = App
    Beats = {b1}
    MaxCheckers = 2
    MaxFaults = 1
    MaxCalls = 2
SPECIFICATION FairSpec
INVARIANT EntryWatched
PROPERTIES DeadIsRemoved UnregisteredIsRemoved KeptRegistered
CHECK_DEADLOCK FALSE

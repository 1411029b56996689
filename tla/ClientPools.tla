---------------------------- MODULE ClientPools -----------------------------
(***************************************************************************)
(* The pools of a Client (client.go, and the beginning of invoke in        *)
(* call.go): invoke and the heartbeat ask discovery for a server, look its *)
(* pool up under the read lock, and make one under the lock if there is    *)
(* none; UpdateServers and Close close pools.  The inside of a pool is in  *)
(* ConnPool; here a pool is open or closed.                                *)
(***************************************************************************)
EXTENDS Discovery

CONSTANTS
    Pools, NoPool

ASSUME ClientPoolsAssumption ==
    /\ Kinds \subseteq {"direct", "registry", "etcd"} /\ NoAddr \notin Addrs
    /\ Heartbeat \notin Invokers /\ Watcher \notin Users /\ NoPool \notin Pools
    /\ IsFiniteSet(Addrs) /\ MaxIdx \in Nat /\ MaxEvents \in Nat

VARIABLES
    pools,         \* c.pools
    open,          \* pools that have been made and not closed
    closing,       \* c.closing, c.shutdown and, closed, c.heartbeatDone
    done,          \* heartbeatDone is closed
    update         \* UpdateServers between its two steps: the new list

poolVars == <<pools, open, closing, done, update>>
vars == <<discoveryVars, poolVars>>

NoUpdate == [pending |-> FALSE, list |-> <<>>]

Init ==
    /\ InitDiscovery
    /\ pools = [a \in Addrs |-> NoPool] /\ open = {}
    /\ closing = FALSE /\ done = FALSE
    /\ update = NoUpdate

-----------------------------------------------------------------------------
(* invoke and sendHeartbeat                                                 *)

(* The ticker stops when Close is called, but a tick may be waiting still.  *)
HeartbeatEnds ==
    /\ pc[Heartbeat] = "idle" /\ done
    /\ GoTo(Heartbeat, "ended")
    /\ UNCHANGED <<kind, backend, event, servers, idx, fresh, seen, target,
                   fetched, events, poolVars>>

Keep == UNCHANGED <<kind, backend, event, servers, idx, fresh, seen, fetched,
                    events, closing, done, update>>

(* The goroutine goes on with the pool it finds: get, the call, put.        *)
Proceed(g) ==
    /\ target' = [target EXCEPT ![g] = NoAddr]
    /\ GoTo(g, "idle")

Lookup(g) ==
    /\ pc[g] = "lookup"
    /\ IF pools[target[g]] = NoPool THEN GoTo(g, "create") /\ UNCHANGED target
                                    ELSE Proceed(g)
    /\ UNCHANGED <<pools, open>> /\ Keep

(* A pool that is closed and in no map stands for a new one.                *)
Unused(p) == p \notin open /\ p \notin Range(pools)

NewPool(a) ==
    /\ \E p \in Pools : Unused(p)
    /\ LET p == CHOOSE q \in Pools : Unused(q)
       IN  pools' = [pools EXCEPT ![a] = p] /\ open' = open \cup {p}

\* Mutant: the map is not looked at again under the lock.
CreateUnchecked(g) ==
    /\ pc[g] = "create"
    /\ NewPool(target[g])
    /\ Proceed(g) /\ Keep

Create(g) ==
    /\ pc[g] = "create"
    /\ IF pools[target[g]] = NoPool THEN NewPool(target[g])
                                    ELSE UNCHANGED <<pools, open>>
    /\ Proceed(g) /\ Keep

FindPool(g) == Lookup(g) \/ Create(g)

-----------------------------------------------------------------------------
(* A second Close returns at once.                                          *)
Close ==
    /\ ~closing
    /\ closing' = TRUE /\ done' = TRUE
    /\ open' = open \ Range(pools)
    /\ UNCHANGED <<discoveryVars, pools, update>>

(* UpdateServers: discovery first, without c.mu.                            *)
UpdateServers ==
    /\ ~update.pending /\ Happens
    /\ \E l \in Lists : Update(l) /\ update' = [pending |-> TRUE, list |-> l]
    /\ UNCHANGED <<kind, backend, event, idx, fresh, pc, target, fetched, pools, open, closing, done>>

(* Its second step, under c.mu.                                             *)
PrunePools ==
    /\ update.pending
    /\ LET gone == Addrs \ Range(update.list)
       IN  /\ open' = open \ {pools[a] : a \in gone}
           /\ pools' = [a \in Addrs |-> IF a \in gone THEN NoPool ELSE pools[a]]
    /\ update' = NoUpdate
    /\ UNCHANGED <<discoveryVars, closing, done>>

-----------------------------------------------------------------------------
Discover(A) == A /\ UNCHANGED poolVars

User(g) == Discover(Refresh(g) \/ Get(g)) \/ FindPool(g)

Watching == Discover(Watch \/ Refresh(Watcher))

Next ==
    \/ \E g \in Users : User(g) \/ Discover(GetAll(g))
    \/ HeartbeatEnds \/ Watching \/ Discover(Expire) \/ Discover(Change)
    \/ Close \/ UpdateServers \/ PrunePools

Spec == Init /\ [][Next]_vars

(* The heartbeat ticks and finishes what it does.  Time passes.  An invoke  *)
(* that has begun ends, but calls need not come.                            *)
FairSpec ==
    /\ Spec
    /\ WF_vars(User(Heartbeat))
    /\ \A g \in Invokers : WF_vars(~(pc[g] = "idle") /\ User(g))
    /\ WF_vars(Discover(Expire))
    /\ WF_vars(Watching)

-----------------------------------------------------------------------------
(* Properties                                                               *)

(* Every variable has its type.                                             *)
TypeOK ==
    /\ kind \in Kinds /\ backend \subseteq Addrs /\ event \in BOOLEAN
    /\ servers \in Lists /\ fresh \in BOOLEAN /\ seen \subseteq Addrs
    /\ idx \in Nat
    /\ pc \in [Goroutines -> {"none", "idle", "fetch", "store", "pick",
                              "lookup", "create", "ended"}]
    /\ target \in [Users -> Addrs \cup {NoAddr}]
    /\ fetched \in [Goroutines -> Lists]
    /\ pools \in [Addrs -> Pools \cup {NoPool}] /\ open \subseteq Pools
    /\ closing \in BOOLEAN /\ done \in BOOLEAN
    /\ update \in [pending : BOOLEAN, list : Lists]
    /\ events \in 0..MaxEvents

(* An open pool is in the map, so that UpdateServers and Close can reach    *)
(* it: of two goroutines that both found no pool, only one makes one.       *)
OpenIsReachable == \A p \in open : \E a \in Addrs : pools[a] = p

(* With a fixed list each server gets its turn: no server is selected twice *)
(* before the others have been once, also after an update that left idx     *)
(* beyond the end of the list.                                              *)
EachInTurn ==
    [][\A g \in Invokers :
          (pc[g] = "idle" /\ pc'[g] = "lookup" /\ kind = "direct"
             /\ Len(servers) > 1) => seen' # seen]_vars

(* When registrations stop changing, the client's list becomes what is      *)
(* registered and stays so, although refreshes that overlap may store an    *)
(* older list over a newer one, a fetch may fail and UpdateServers may      *)
(* replace the list: the heartbeat keeps asking.  The registry does not     *)
(* tell a client that the last server has gone.                             *)
ListConverges ==
    <>[](\/ closing \/ kind = "direct"
         \/ Range(servers) = backend
         \/ kind = "registry" /\ backend = {})

(* Violated.  "Close all connection pools" (client.go:266).                 *)
CloseClosesPools == closing => open = {}

(* Violated.  "Remove pools for servers that are no longer in the list"     *)
(* (client.go:305).                                                         *)
UpdateRemovesPools ==
    kind = "direct" /\ ~update.pending =>
        \A a \in Addrs : pools[a] # NoPool => a \in Range(servers)
=============================================================================

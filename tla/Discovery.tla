----------------------------- MODULE Discovery ------------------------------
(***************************************************************************)
(* Service discovery as a client uses it, in its three kinds, chosen by    *)
(* the target: a fixed list ("direct", discovery/memory/memory.go), the    *)
(* TCP registry ("registry", discovery/memory/zrpc_discovery.go) and etcd  *)
(* ("etcd", discovery/etcd/discovery.go).  The last two keep a copy of the *)
(* list that is fetched, outside the lock, when it is empty or older than  *)
(* refreshInterval; etcd fetches it at every watch event, too.             *)
(*                                                                         *)
(* What a goroutine does with the address it gets is in ClientPools; pc is *)
(* shared with it.                                                         *)
(***************************************************************************)
EXTENDS Integers, Sequences, FiniteSets, Functions

CONSTANTS
    Kinds,         \* the kinds of discovery
    Addrs,         \* server addresses
    Invokers,      \* goroutines in invoke
    Heartbeat,     \* the goroutine of startHeartbeat
    Watcher,       \* the goroutine of etcd's watch
    MaxIdx,        \* bound on the random first index
    MaxEvents      \* bound on changes of the registered servers, fetches
                   \* that fail and calls of UpdateServers

VARIABLES
    kind,
    backend,       \* the servers registered with the registry or etcd
    event,         \* a watch response is waiting
    servers, idx,  \* the fields of the same names
    fresh,         \* lastRefresh is within refreshInterval
    seen,          \* the servers selected in this turn of the round robin
    pc, target, fetched,     \* of each goroutine
    events

discoveryVars == <<kind, backend, event, servers, idx, fresh, seen, pc, target,
                   fetched, events>>

Users == Invokers \cup {Heartbeat}
Goroutines == Users \cup {Watcher}
NoAddr == "none"

(* The ways to list a set.                                                  *)
Orders(S) == {l \in [1..Cardinality(S) -> S] : Range(l) = S}
Lists == UNION {Orders(S) : S \in SUBSET Addrs}

(* What a fetch answers: a Go map is walked in any order, etcd sorts keys.  *)
Answers == IF kind = "etcd" THEN {CHOOSE l \in Orders(backend) : TRUE}
                            ELSE Orders(backend)

(* The first Refresh of a registry discovery may fail, etcd's may not.      *)
InitDiscovery ==
    /\ kind \in Kinds
    /\ backend \in IF kind = "direct" THEN {{}} ELSE SUBSET Addrs
    /\ event = FALSE /\ seen = {}
    /\ \/ /\ kind = "direct"
          /\ \E a \in Addrs : servers = <<a>>
          /\ idx \in 0..MaxIdx /\ fresh = FALSE
       \/ /\ kind = "registry" /\ idx = 0
          /\ \/ servers = <<>> /\ fresh = FALSE
             \/ backend # {} /\ servers \in Answers /\ fresh = TRUE
       \/ kind = "etcd" /\ idx = 0 /\ servers \in Answers /\ fresh = TRUE
    /\ pc = [g \in Goroutines |-> IF g = Watcher /\ kind # "etcd"
                                     THEN "none" ELSE "idle"]
    /\ target = [g \in Users |-> NoAddr]
    /\ fetched = [g \in Goroutines |-> <<>>]
    /\ events = 0

Happens == events < MaxEvents /\ events' = events + 1

GoTo(g, place) == pc' = [pc EXCEPT ![g] = place]

-----------------------------------------------------------------------------
(* Refresh: fetch, then store under the lock                                *)

(* The registry answers a service without servers with an error.            *)
Fetch(g) ==
    /\ pc[g] = "fetch" /\ (kind = "registry" => backend # {})
    /\ \E l \in Answers : fetched' = [fetched EXCEPT ![g] = l]
    /\ GoTo(g, "store")
    /\ UNCHANGED <<kind, backend, event, servers, idx, fresh, seen, target,
                   events>>

(* Get returns the error; watch ignores it.                                 *)
FetchFails(g) ==
    /\ pc[g] = "fetch"
    /\ \/ kind = "registry" /\ backend = {} /\ UNCHANGED events
       \/ Happens
    /\ GoTo(g, "idle")
    /\ UNCHANGED <<kind, backend, event, servers, idx, fresh, seen, target,
                   fetched>>

StoreList(g) ==
    /\ pc[g] = "store"
    /\ servers' = fetched[g] /\ fresh' = TRUE /\ seen' = {}
    /\ fetched' = [fetched EXCEPT ![g] = <<>>]
    /\ GoTo(g, IF g = Watcher THEN "idle" ELSE "pick")
    /\ UNCHANGED <<kind, backend, event, idx, target, events>>

Refresh(g) == Fetch(g) \/ FetchFails(g) \/ StoreList(g)

-----------------------------------------------------------------------------
(* Get, called by a new call, a retry or a tick                             *)

\* Mutant: the age of the list is not looked at.
EmptyOnly == kind # "direct" /\ servers = <<>>

NeedsRefresh == kind # "direct" /\ (servers = <<>> \/ ~fresh)

GetRefreshes(g) ==
    /\ pc[g] = "idle" /\ NeedsRefresh
    /\ GoTo(g, "fetch")
    /\ UNCHANGED <<kind, backend, event, servers, idx, fresh, seen, target,
                   fetched, events>>

\* Mutant: an index that an update left beyond the end starts again at 0.
Restarted(i, n) == IF i < n THEN i ELSE 0
At(i, n) == i % n
After(i, n) == (i + 1) % n

(* A turn is over when every server has been selected.                      *)
Turn(a) == LET s == seen \cup {a} IN IF s = Range(servers) THEN {} ELSE s

(* Under the read lock, idx is written by several at a time: any index may  *)
(* be left.                                                                 *)
RoundRobin(g) ==
    LET n == Len(servers)
        a == servers[At(idx, n) + 1]
    IN  /\ target' = [target EXCEPT ![g] = a]
        /\ idx' \in IF kind = "direct" THEN {After(idx, n)} ELSE 0..(n - 1)
        /\ seen' = IF kind = "direct" THEN Turn(a) ELSE seen

Random(g) ==
    /\ \E a \in Range(servers) : target' = [target EXCEPT ![g] = a]
    /\ UNCHANGED <<idx, seen>>

(* The heartbeat selects at random, invoke by balancerMode (round robin     *)
(* unless set otherwise).                                                   *)
Select(g) ==
    /\ (pc[g] = "idle" /\ ~NeedsRefresh) \/ pc[g] = "pick"
    /\ IF servers = <<>>
          THEN GoTo(g, "idle") /\ UNCHANGED <<target, idx, seen>>
          ELSE /\ GoTo(g, "lookup")
               /\ IF g = Heartbeat THEN Random(g) ELSE RoundRobin(g)
    /\ UNCHANGED <<kind, backend, event, servers, fresh, fetched, events>>

Get(g) == GetRefreshes(g) \/ Select(g)

(* GetAll refreshes like Get and returns a copy instead of selecting.       *)
GetAll(g) ==
    /\ g \in Invokers
    /\ (pc[g] = "idle" /\ ~NeedsRefresh) \/ pc[g] = "pick"
    /\ GoTo(g, "idle")
    /\ UNCHANGED <<kind, backend, event, servers, idx, fresh, seen, target,
                   fetched, events>>

(* The part of Update that discovery does: idx stays.                       *)
Update(l) == servers' = l /\ seen' = {}

-----------------------------------------------------------------------------
Watch ==
    /\ pc[Watcher] = "idle" /\ event
    /\ event' = FALSE /\ GoTo(Watcher, "fetch")
    /\ UNCHANGED <<kind, backend, servers, idx, fresh, seen, target, fetched,
                   events>>

(* refreshInterval passes.                                                  *)
Expire ==
    /\ fresh /\ fresh' = FALSE
    /\ UNCHANGED <<kind, backend, event, servers, idx, seen, pc, target, fetched,
                   events>>

Change ==
    /\ kind # "direct" /\ Happens
    /\ \E S \in SUBSET Addrs : S # backend /\ backend' = S
    /\ event' = (kind = "etcd")
    /\ UNCHANGED <<kind, servers, idx, fresh, seen, pc, target, fetched>>
=============================================================================

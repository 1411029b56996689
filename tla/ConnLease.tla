----------------------------- MODULE ConnLease -----------------------------
(***************************************************************************)
(* What a connection pool promises the goroutines that use it: a           *)
(* connection is leased to one holder at a time, passes from one holder to *)
(* the next only through the pool, and is never handed out again once it   *)
(* is gone.  invoke and sendHeartbeat rely on it: both write to and read   *)
(* from the connection they hold without any lock.                         *)
(***************************************************************************)
CONSTANTS Callers, Conns, NoConn

VARIABLES
    where,    \* of each connection: "unborn", "pool", "held" or "gone"
    holder    \* the connection each caller holds, or NoConn

leaseVars == <<where, holder>>

Places == {"unborn", "pool", "held", "gone"}

Init ==
    /\ where = [c \in Conns |-> "unborn"]
    /\ holder = [k \in Callers |-> NoConn]

(* The pool dials ahead of demand.                                          *)
Dial(c) ==
    /\ where[c] = "unborn"
    /\ where' = [where EXCEPT ![c] = "pool"]
    /\ UNCHANGED holder

(* A caller without a connection gets a pooled one or one dialled for it.   *)
Lease(k, c) ==
    /\ holder[k] = NoConn /\ where[c] \in {"unborn", "pool"}
    /\ where' = [where EXCEPT ![c] = "held"]
    /\ holder' = [holder EXCEPT ![k] = c]

Return(k) ==
    /\ holder[k] # NoConn
    /\ where' = [where EXCEPT ![holder[k]] = "pool"]
    /\ holder' = [holder EXCEPT ![k] = NoConn]

Discard(k) ==
    /\ holder[k] # NoConn
    /\ where' = [where EXCEPT ![holder[k]] = "gone"]
    /\ holder' = [holder EXCEPT ![k] = NoConn]

(* The pool gives up connections nobody holds.                              *)
Drop(S) ==
    /\ \A c \in S : where[c] = "pool"
    /\ where' = [c \in Conns |-> IF c \in S THEN "gone" ELSE where[c]]
    /\ UNCHANGED holder

Next ==
    \/ \E c \in Conns : Dial(c)
    \/ \E k \in Callers : Return(k) \/ Discard(k) \/ \E c \in Conns : Lease(k, c)
    \/ \E S \in SUBSET Conns : Drop(S)

Spec == Init /\ [][Next]_leaseVars

=============================================================================

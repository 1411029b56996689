---------------------------- MODULE EtcdRegistry ----------------------------
(***************************************************************************)
(* A server's registration in etcd (discovery/etcd/registry.go): one key,  *)
(* written under a lease that keepAlive renews; when the lease is lost,    *)
(* keepAlive registers again.  Goroutines: the application, which          *)
(* registers and unregisters, and keepAlive, which a re-registration       *)
(* replaces by a new one.  etcd is external: it grants and revokes leases, *)
(* and removes the keys of a lease that ends.  A Put is a request that is  *)
(* sent, applied and answered; its sender may stop waiting in between.     *)
(***************************************************************************)
EXTENDS FiniteSets, Integers

CONSTANTS
    Leases,        \* lease IDs; one that has ended is given out again
    NoLease, Absent,
    Main, KeepAlive    \* the application's goroutine and keepAlive's

ASSUME EtcdRegistryAssumption ==
    /\ NoLease \notin Leases /\ Absent \notin Leases \cup {NoLease}
    /\ Main # KeepAlive

VARIABLES
    key,           \* Absent, or the lease the key is attached to, or NoLease
    pending,       \* the lease of the Put in flight, NoLease, or Absent: none
    live,          \* leases that have not ended
    server,        \* the process: "up", "dead"
    leaseID,       \* r.leaseID
    cancelled,     \* r.ctx is done
    closed,        \* r.client is closed
    at,            \* the place of each goroutine
    again,         \* reRegister has sent a Put of the key
    removed,       \* a Delete of the key has succeeded
    late           \* a Put was in flight when it did

etcdVars == <<key, pending, live, server, leaseID, cancelled, closed, at, again,
              removed, late>>

EtcdGoroutines == {Main, KeepAlive}

EtcdInit ==
    /\ key = Absent /\ pending = Absent /\ live = {} /\ server = "up"
    /\ leaseID = NoLease /\ cancelled = FALSE /\ closed = FALSE
    /\ at = [g \in EtcdGoroutines |-> IF g = Main THEN "grant" ELSE "none"]
    /\ again = FALSE /\ removed = FALSE /\ late = FALSE

IsAt(g, place) == server = "up" /\ at[g] = place
MoveTo(g, place) == at' = [at EXCEPT ![g] = place]

(* A lease ID that is not in use.  A request that fails may have been       *)
(* granted a lease too: nobody knows it, and it ends by itself.             *)
Grants(l) ==
    /\ l \in Leases \ (live \cup {leaseID, key, pending})
    /\ live' = live \cup {l} /\ leaseID' = l

-----------------------------------------------------------------------------
(* RegisterService                                                          *)

Grant ==
    /\ IsAt(Main, "grant")
    /\ \/ \E l \in Leases : Grants(l) /\ MoveTo(Main, "add")
       \/ MoveTo(Main, "failed") /\ UNCHANGED <<live, leaseID>>
    /\ UNCHANGED <<key, pending, server, cancelled, closed, again, removed, late>>

\* Mutant: the lease is not passed on.
AddWithoutLease ==
    /\ IsAt(Main, "add")
    /\ pending' = NoLease /\ MoveTo(Main, "adding")
    /\ UNCHANGED <<key, live, server, leaseID, cancelled, closed, again, removed,
                   late>>

(* The Put is sent with the lease.                                          *)
AddEndpoint ==
    /\ IsAt(Main, "add")
    /\ pending' = leaseID /\ MoveTo(Main, "adding")
    /\ UNCHANGED <<key, live, server, leaseID, cancelled, closed, again, removed,
                   late>>

Added ==
    /\ IsAt(Main, "added")
    /\ at' = [at EXCEPT ![Main] = "registered", ![KeepAlive] = "start"]
    /\ UNCHANGED <<key, pending, live, server, leaseID, cancelled, closed, again,
                   removed, late>>

(* The request fails, or takes 2 seconds: a Put in flight is lost, or is    *)
(* applied later.                                                           *)
AddFails ==
    /\ server = "up" /\ at[Main] \in {"adding", "added"}
    /\ MoveTo(Main, "failed") /\ pending' \in {pending, Absent}
    /\ UNCHANGED <<key, live, server, leaseID, cancelled, closed, again, removed,
                   late>>

-----------------------------------------------------------------------------
(* keepAlive                                                                *)

(* client.KeepAlive fails on a closed client; on a context that is done the *)
(* channel is closed.                                                       *)
StartKeepAlive ==
    /\ IsAt(KeepAlive, "start")
    /\ MoveTo(KeepAlive, IF closed THEN "cancel" ELSE "loop")
    /\ UNCHANGED <<key, pending, live, server, leaseID, cancelled, closed, again,
                   removed, late>>

KeepAliveDone ==
    /\ IsAt(KeepAlive, "loop") /\ cancelled
    /\ MoveTo(KeepAlive, "ended")
    /\ UNCHANGED <<key, pending, live, server, leaseID, cancelled, closed, again,
                   removed, late>>

\* Mutant: the loop ends when the lease is lost.
LeaseLostEnds ==
    /\ IsAt(KeepAlive, "loop")
    /\ leaseID \notin live \/ cancelled \/ closed
    /\ MoveTo(KeepAlive, "ended")
    /\ UNCHANGED <<key, pending, live, server, leaseID, cancelled, closed, again,
                   removed, late>>

(* The channel is closed: the lease has ended, or the client or the         *)
(* context.                                                                 *)
LeaseLost ==
    /\ IsAt(KeepAlive, "loop")
    /\ leaseID \notin live \/ cancelled \/ closed
    /\ MoveTo(KeepAlive, "regrant")
    /\ UNCHANGED <<key, pending, live, server, leaseID, cancelled, closed, again,
                   removed, late>>

(* reRegister: a failure makes keepAlive unregister.                        *)
Regrant ==
    /\ IsAt(KeepAlive, "regrant")
    /\ \/ /\ ~cancelled /\ ~closed
          /\ \E l \in Leases : Grants(l)
          /\ MoveTo(KeepAlive, "readd")
       \/ MoveTo(KeepAlive, "cancel") /\ UNCHANGED <<live, leaseID>>
    /\ UNCHANGED <<key, pending, server, cancelled, closed, again, removed, late>>

(* The Put is sent without the new lease, unless the context is done.       *)
Readd ==
    /\ IsAt(KeepAlive, "readd")
    /\ \/ /\ ~cancelled /\ ~closed
          /\ pending' = NoLease /\ again' = TRUE /\ MoveTo(KeepAlive, "readding")
       \/ MoveTo(KeepAlive, "cancel") /\ UNCHANGED <<pending, again>>
    /\ UNCHANGED <<key, live, server, leaseID, cancelled, closed, removed, late>>

(* A new keepAlive takes over.                                              *)
Readded ==
    /\ IsAt(KeepAlive, "readded")
    /\ MoveTo(KeepAlive, "start")
    /\ UNCHANGED <<key, pending, live, server, leaseID, cancelled, closed, again,
                   removed, late>>

(* As AddFails; the context may also be cancelled.                          *)
ReaddFails ==
    /\ server = "up" /\ at[KeepAlive] \in {"readding", "readded"}
    /\ MoveTo(KeepAlive, "cancel") /\ pending' \in {pending, Absent}
    /\ UNCHANGED <<key, live, server, leaseID, cancelled, closed, again, removed,
                   late>>

-----------------------------------------------------------------------------
(* Unregister, by the application or by keepAlive                           *)

CallUnregister ==
    /\ IsAt(Main, "registered")
    /\ MoveTo(Main, "cancel")
    /\ UNCHANGED <<key, pending, live, server, leaseID, cancelled, closed, again,
                   removed, late>>

\* Mutant: the context is left alone.
NoCancel(g) ==
    /\ IsAt(g, "cancel")
    /\ MoveTo(g, "delete")
    /\ UNCHANGED <<key, pending, live, server, leaseID, cancelled, closed, again,
                   removed, late>>

Cancel(g) ==
    /\ IsAt(g, "cancel")
    /\ cancelled' = TRUE /\ MoveTo(g, "delete")
    /\ UNCHANGED <<key, pending, live, server, leaseID, closed, again, removed,
                   late>>

(* Errors are logged; a request that fails may have been applied, unless    *)
(* the client was closed.                                                   *)
DeleteKey(g) ==
    /\ IsAt(g, "delete")
    /\ \/ ~closed /\ key' = Absent /\ removed' = TRUE /\ late' = (pending # Absent)
       \/ /\ key' = key \/ (~closed /\ key' = Absent)
          /\ UNCHANGED <<removed, late>>
    /\ MoveTo(g, "revoke")
    /\ UNCHANGED <<pending, live, server, leaseID, cancelled, closed, again>>

(* etcd removes what is attached to the lease.                              *)
EndLease(l) ==
    /\ live' = live \ {l}
    /\ key' = IF key = l THEN Absent ELSE key

Revoke(g) ==
    /\ IsAt(g, "revoke")
    /\ \/ ~closed /\ EndLease(leaseID)
       \/ UNCHANGED <<key, live>>
    /\ MoveTo(g, "close")
    /\ UNCHANGED <<pending, server, leaseID, cancelled, closed, again, removed, late>>

CloseClient(g) ==
    /\ IsAt(g, "close")
    /\ closed' = TRUE /\ MoveTo(g, "ended")
    /\ UNCHANGED <<key, pending, live, server, leaseID, cancelled, again, removed,
                   late>>

UnregisterService(g) == Cancel(g) \/ DeleteKey(g) \/ Revoke(g) \/ CloseClient(g)

-----------------------------------------------------------------------------
(* etcd                                                                     *)

(* The Put in flight is applied, or refused if its lease has ended; the     *)
(* sender learns it if it still waits.                                      *)
PutArrives ==
    /\ pending # Absent /\ pending' = Absent
    /\ \/ /\ pending \in live \cup {NoLease} /\ key' = pending
          /\ at' = [g \in EtcdGoroutines |->
                      IF at[g] = "adding" THEN "added"
                      ELSE IF at[g] = "readding" THEN "readded" ELSE at[g]]
       \/ /\ pending \notin live \cup {NoLease} /\ UNCHANGED key
          /\ at' = [g \in EtcdGoroutines |->
                      IF at[g] = "adding" THEN "failed" ELSE at[g]]
    /\ UNCHANGED <<live, server, leaseID, cancelled, closed, again, removed, late>>

(* A lease is not renewed in time: the network, or no keepAlive.            *)
ExpireLease(l) ==
    /\ l \in live
    /\ EndLease(l)
    /\ UNCHANGED <<pending, server, leaseID, cancelled, closed, at, again, removed,
                   late>>

Die ==
    /\ server = "up" /\ server' = "dead"
    /\ UNCHANGED <<key, pending, live, leaseID, cancelled, closed, at, again,
                   removed, late>>

RegisterService == Grant \/ AddEndpoint \/ Added \/ AddFails
KeepAliveLoop ==
    \/ StartKeepAlive \/ KeepAliveDone \/ LeaseLost
    \/ Regrant \/ Readd \/ Readded \/ ReaddFails

EtcdNext ==
    \/ RegisterService \/ KeepAliveLoop \/ CallUnregister
    \/ \E g \in EtcdGoroutines : UnregisterService(g)
    \/ PutArrives
    \/ \E l \in Leases : ExpireLease(l)
    \/ Die

EtcdSpec == EtcdInit /\ [][EtcdNext]_etcdVars

(* Goroutines run, and stop waiting for etcd in time.  A lease that nobody  *)
(* renews ends; one that keepAlive renews need not.                         *)
Unrenewed(l) == server = "dead" \/ at[KeepAlive] # "loop" \/ l # leaseID

EtcdFairSpec ==
    /\ EtcdSpec
    /\ WF_etcdVars(RegisterService) /\ WF_etcdVars(KeepAliveLoop)
    /\ \A g \in EtcdGoroutines : WF_etcdVars(UnregisterService(g))
    /\ \A l \in Leases : WF_etcdVars(Unrenewed(l) /\ ExpireLease(l))

-----------------------------------------------------------------------------
(* Properties                                                               *)

(* Every variable has its type.                                             *)
EtcdTypeOK ==
    /\ key \in Leases \cup {NoLease, Absent}
    /\ pending \in Leases \cup {NoLease, Absent}
    /\ live \subseteq Leases /\ leaseID \in Leases \cup {NoLease}
    /\ server \in {"up", "dead"}
    /\ cancelled \in BOOLEAN /\ closed \in BOOLEAN
    /\ again \in BOOLEAN /\ removed \in BOOLEAN /\ late \in BOOLEAN
    /\ at \in [EtcdGoroutines ->
                {"none", "grant", "add", "adding", "added", "registered", "failed",
                 "start", "loop", "regrant", "readd", "readding", "readded",
                 "cancel", "delete", "revoke", "close", "ended"}]

(* Once Unregister has removed the key, only a Put that was in flight when  *)
(* Delete was applied can bring it back: cancel() comes before Delete       *)
(* (registry.go:133-135), and a re-registration that finds the context done *)
(* sends nothing.                                                           *)
RemovedStaysAway == removed /\ ~late => key = Absent

(* Violated.  Once Unregister has removed the key it stays away             *)
(* ("Unregister logout service", registry.go:131): cancel() does not take   *)
(* back the Put that reRegister has sent (registry.go:121), which etcd may  *)
(* apply after the Delete.                                                  *)
RemovedAlwaysStaysAway == removed => key = Absent

(* While the process is up, a registration that etcd has lost with its      *)
(* lease comes back, or keepAlive gives up and unregisters.                 *)
ComesBack ==
    (at[KeepAlive] = "loop" /\ key = Absent) ~>
        (key # Absent \/ cancelled \/ server = "dead")

(* The key of a process that died before it ever had to re-register leaves  *)
(* etcd with its lease, whatever the process was doing, and also when its   *)
(* Put is applied after its death.                                          *)
DeadLeaves == (server = "dead" /\ ~again) ~> key = Absent

(* Violated.  Every dead process leaves etcd: the key a re-registration has *)
(* written has no lease (registry.go:121), although a new one was granted.  *)
DeadAlwaysLeaves == server = "dead" ~> key = Absent
=============================================================================

------------------------------ MODULE Registry ------------------------------
(***************************************************************************)
(* The registry's table (registry/registry.go): service name -> address -> *)
(* entry.  Each operation is one critical section of r.mu.  Of an entry    *)
(* only the age of LastPing is kept: "fresh", or "stale" once more than    *)
(* r.timeout has passed since.                                             *)
(***************************************************************************)
EXTENDS Functions, FiniteSets

CONSTANTS Services, Addrs

VARIABLE servers

Table == UNION {[S -> UNION {[A -> {"fresh", "stale"}] : A \in SUBSET Addrs}] :
                  S \in SUBSET Services}

InitTable == servers = <<>>

Registered(s, a) == s \in DOMAIN servers /\ a \in DOMAIN servers[s]

\* A map after m[x] = v, and after delete(m, x).
With(f, x, v) == [y \in {x} \cup DOMAIN f |-> IF y = x THEN v ELSE f[y]]
Without(f, x) == Restrict(f, DOMAIN f \ {x})

(* An entry that exists is replaced.                                        *)
Register(s, a) ==
    LET services == IF s \in DOMAIN servers THEN servers[s] ELSE <<>>
    IN  servers' = With(servers, s, With(services, a, "fresh"))

(* A service with no address left goes too.                                 *)
Delete(s, a) ==
    servers' = IF DOMAIN servers[s] = {a}
                  THEN Without(servers, s)
                  ELSE [servers EXCEPT ![s] = Without(@, a)]

(* Unregister and Heartbeat return an error for an entry that is not there. *)
Unregister(s, a) ==
    IF Registered(s, a) THEN Delete(s, a) ELSE UNCHANGED servers

Heartbeat(s, a) ==
    IF Registered(s, a) THEN servers' = [servers EXCEPT ![s][a] = "fresh"]
                        ELSE UNCHANGED servers

IsExpired(s, a) == Registered(s, a) => servers[s][a] = "stale"

GetService(s) == IF s \in DOMAIN servers THEN DOMAIN servers[s] ELSE {}

GetAllServices == DOMAIN servers

\* Mutant: the comparison with the timeout is the wrong way round.
CleanLiveServers ==
    LET old(s) == {a \in DOMAIN servers[s] : servers[s][a] = "stale"}
        kept   == {s \in DOMAIN servers : old(s) # {}}
    IN  servers' = [s \in kept |-> Restrict(servers[s], old(s))]

(* One round of cleanExpiredServers.                                        *)
CleanExpiredServers ==
    LET live(s) == {a \in DOMAIN servers[s] : servers[s][a] = "fresh"}
        kept    == {s \in DOMAIN servers : live(s) # {}}
    IN  servers' = [s \in kept |-> Restrict(servers[s], live(s))]

(* r.timeout passes without a heartbeat.                                    *)
Age(s, a) ==
    /\ Registered(s, a) /\ servers[s][a] = "fresh"
    /\ servers' = [servers EXCEPT ![s][a] = "stale"]

-----------------------------------------------------------------------------
=============================================================================

---------------------------- MODULE RegistryProofs ---------------------------
(* The two registries.  Every entry of the TCP registry is watched, for any  *)
(* number of clients' goroutines, connections, services and faults; and a    *)
(* key that Unregister has removed from etcd stays away, for any set of      *)
(* leases and any number of failed requests.                                 *)
EXTENDS TcpClient, EtcdRegistry, TLAPS

(* The registry's side: a handler that has stored an entry still has the     *)
(* command it came with, and a registry that is down has no entries.         *)
Handlers ==
    /\ phase \in {"up", "closed", "down"}
    /\ srv \in [Conns -> {"waiting", "storing", "over"}]
    /\ sent \in [Conns -> Seq(Request)]
    /\ checkers \in [Keys -> [watching : Nat, expired : Nat]]
    /\ \A x \in Conns : srv[x] = "storing" => sent[x] # <<>>
    /\ phase = "down" => servers = <<>> /\ \A x \in Conns : srv[x] = "over"

Places == {"none", "idle", "connect", "write", "read", "reading", "close", "return", "ended"}

(* The client's side: what it sends is a command for a key.                  *)
Sending ==
    /\ conn \in Conns \cup {NoConn}
    /\ service \in Keys \cup {NoKey}
    /\ pc \in [Goroutines -> Places]
    /\ cmd \in [Goroutines -> Request \cup {NoCmd}]
    /\ \A g \in Goroutines : pc[g] \in {"connect", "write"} => cmd[g] \in Request
    /\ \A b \in Beats : pc[b] \notin {"none", "ended"} => service \in Keys

IInv == Handlers /\ Sending /\ EntryWatched

-----------------------------------------------------------------------------
(* The table.                                                                *)

(* Registry.Register adds one entry.                                         *)
LEMMA RegisterAdds ==
    ASSUME NEW s, NEW a, Register(s, a), NEW t, NEW b, Registered(t, b)'
    PROVE  Registered(t, b) \/ (t = s /\ b = a)
<1> DEFINE old == IF s \in DOMAIN servers THEN servers[s] ELSE <<>>
           new == With(old, a, "fresh")
<1>1. servers' = With(servers, s, new)
  BY DEF Register
<1>2. DOMAIN new = {a} \cup DOMAIN old
  BY DEF With
<1>3. s \notin DOMAIN servers => DOMAIN old = {}
  OBVIOUS
<1> HIDE DEF old, new
<1>4. /\ DOMAIN servers' = {s} \cup DOMAIN servers
      /\ servers'[s] = new
      /\ \A u \in DOMAIN servers : u # s => servers'[u] = servers[u]
  BY <1>1 DEF With
<1>5. CASE t # s
  BY <1>4, <1>5 DEF Registered
<1>6. CASE t = s
  <2>1. b = a \/ b \in DOMAIN old
    BY <1>2, <1>4, <1>6 DEF Registered
  <2> QED BY <1>3, <1>6, <2>1 DEF Registered, old
<1> QED BY <1>5, <1>6

(* Registry.Unregister adds none and removes the one it is called for.       *)
LEMMA UnregisterRemoves ==
    ASSUME NEW s, NEW a, Unregister(s, a), NEW t, NEW b, Registered(t, b)'
    PROVE  Registered(t, b) /\ ~(t = s /\ b = a)
<1>1. CASE ~Registered(s, a)
  BY <1>1 DEF Unregister, Registered
<1>2. CASE Registered(s, a)
  <2>1. Delete(s, a) /\ s \in DOMAIN servers
    BY <1>2 DEF Unregister, Registered
  <2>2. CASE DOMAIN servers[s] = {a}
    <3>1. servers' = [u \in DOMAIN servers \ {s} |-> servers[u]]
      BY <2>1, <2>2 DEF Delete, Without, Restrict
    <3> QED BY <3>1 DEF Registered
  <2>3. CASE DOMAIN servers[s] # {a}
    <3> DEFINE rest == [c \in DOMAIN servers[s] \ {a} |-> servers[s][c]]
    <3>1. servers' = [servers EXCEPT ![s] = rest]
      BY <2>1, <2>3 DEF Delete, Without, Restrict
    <3>2. DOMAIN rest = DOMAIN servers[s] \ {a}
      OBVIOUS
    <3> HIDE DEF rest
    <3>3. /\ DOMAIN servers' = DOMAIN servers /\ servers'[s] = rest
          /\ \A u \in DOMAIN servers : u # s => servers'[u] = servers[u]
      BY <2>1, <3>1
    <3> QED BY <3>2, <3>3 DEF Registered
  <2> QED BY <2>2, <2>3
<1> QED BY <1>1, <1>2

(* Registry.Heartbeat and the passing of time add none.                      *)
LEMMA TouchAddsNone ==
    ASSUME NEW s, NEW a, Heartbeat(s, a) \/ Age(s, a), NEW t, NEW b, Registered(t, b)'
    PROVE  Registered(t, b)
<1>1. CASE UNCHANGED servers
  BY <1>1 DEF Registered
<1>2. ASSUME NEW v, s \in DOMAIN servers, servers' = [servers EXCEPT ![s][a] = v]
      PROVE  Registered(t, b)
  <2> DEFINE new == [servers[s] EXCEPT ![a] = v]
  <2>1. servers' = [servers EXCEPT ![s] = new]
    BY <1>2
  <2>2. DOMAIN new = DOMAIN servers[s]
    OBVIOUS
  <2> HIDE DEF new
  <2>3. /\ DOMAIN servers' = DOMAIN servers /\ servers'[s] = new
        /\ \A u \in DOMAIN servers : u # s => servers'[u] = servers[u]
    BY <1>2, <2>1
  <2> QED BY <2>2, <2>3 DEF Registered
<1> QED BY <1>1, <1>2 DEF Heartbeat, Age, Registered

(* cleanExpiredServers adds none.                                            *)
LEMMA CleanAddsNone ==
    ASSUME CleanExpiredServers, NEW t, NEW b, Registered(t, b)'
    PROVE  Registered(t, b)
<1> DEFINE alive(s) == {a \in DOMAIN servers[s] : servers[s][a] = "fresh"}
           kept == {s \in DOMAIN servers : alive(s) # {}}
<1>1. servers' = [s \in kept |-> [x \in alive(s) |-> servers[s][x]]]
  BY DEF CleanExpiredServers, Restrict
<1>2. t \in kept /\ b \in alive(t)
  BY <1>1 DEF Registered
<1> QED BY <1>2 DEF Registered

-----------------------------------------------------------------------------
(* The registry's steps.                                                     *)

\* A handler about to start the checker of k.
Storing(k) == \E x \in Conns : srv[x] = "storing" /\ sent[x][1].key = k

(* An entry that was watched stays so while its checkers and the handlers    *)
(* that store it do.                                                         *)
LEMMA StaysWatched ==
    ASSUME IInv, phase' = "up" => phase = "up",
           \A k \in Keys : Registered(k[1], k[2])' =>
              \/ Watchers(k)' > 0
              \/ Storing(k)'
              \/ /\ Registered(k[1], k[2])
                 /\ Watchers(k) > 0 => Watchers(k)' > 0
                 /\ Storing(k) => Storing(k)'
    PROVE  EntryWatched'
BY DEF IInv, EntryWatched, Storing

(* The registry leaves the client's side alone.                              *)
LEMMA SendingStays ==
    ASSUME IInv, UNCHANGED clientVars
    PROVE  Sending'
BY DEF IInv, Sending, clientVars

(* A handler that answers and returns, if it was not about to store.         *)
LEMMA RespondKeeps ==
    ASSUME IInv, UNCHANGED clientVars, NEW x \in Conns, srv[x] = "waiting",
           NEW c, NEW o, Respond(x, c, o), UNCHANGED <<phase, checkers, faults>>,
           \A k \in Keys : Registered(k[1], k[2])' => Registered(k[1], k[2])
    PROVE  IInv'
<1>1. /\ srv' = [srv EXCEPT ![x] = "over"] /\ sent' = [sent EXCEPT ![x] = <<>>]
      /\ phase' = phase /\ checkers' = checkers
  BY DEF Respond
<1>2. phase # "down"
  BY DEF IInv, Handlers
<1>3. Handlers'
  BY <1>1, <1>2 DEF IInv, Handlers
<1>4. ASSUME NEW k \in Keys, Storing(k)
      PROVE  Storing(k)'
  <2>1. PICK y \in Conns : srv[y] = "storing" /\ sent[y][1].key = k
    BY <1>4 DEF Storing
  <2>2. y # x /\ srv'[y] = srv[y] /\ sent'[y] = sent[y]
    BY <1>1, <2>1 DEF IInv, Handlers
  <2> QED BY <2>1, <2>2 DEF Storing
<1>5. EntryWatched'
  BY <1>1, <1>4, StaysWatched DEF Watchers
<1> QED BY <1>3, <1>5, SendingStays DEF IInv

(* The key of a command a handler has.                                       *)
LEMMA KeySent ==
    ASSUME IInv, NEW x \in Conns, sent[x] # <<>> \/ Len(sent[x]) = 1
    PROVE  sent[x] # <<>> /\ sent[x][1].key \in Keys
<1>1. sent[x] \in Seq(Request)
  BY DEF IInv, Handlers
<1>2. sent[x] # <<>> /\ sent[x][1] \in Request
  <2> DEFINE q == sent[x]
             S == Request
  <2>1. q \in Seq(S) /\ (q # <<>> \/ Len(q) = 1)
    BY <1>1
  <2> HIDE DEF q, S
  <2>2. q # <<>> /\ q[1] \in S
    BY <2>1
  <2> QED BY <2>2 DEF q, S
<1> QED BY <1>2 DEF Request

(* handleRegister stores an entry, and the handler is the one that will      *)
(* start its checker.                                                        *)
LEMMA RegisterKeeps ==
    ASSUME IInv, UNCHANGED clientVars, NEW x \in Conns, HandleRegister(x)
    PROVE  IInv'
<1>4. PICK q \in Keys : q = sent[x][1].key
  BY KeySent DEF HandleRegister, Received
<1>1. /\ srv[x] = "waiting" /\ sent[x] # <<>> /\ Register(q[1], q[2])
      /\ srv' = [srv EXCEPT ![x] = "storing"]
      /\ phase' = phase /\ sent' = sent /\ checkers' = checkers
  BY <1>4, KeySent DEF HandleRegister, Received
<1>2. phase # "down"
  BY <1>1 DEF IInv, Handlers
<1>3. Handlers'
  BY <1>1, <1>2 DEF IInv, Handlers
<1>5. Storing(q)'
  <2>1. srv'[x] = "storing"
    BY <1>1 DEF IInv, Handlers
  <2> QED BY <1>1, <1>4, <2>1 DEF Storing
<1>6. ASSUME NEW k \in Keys, Registered(k[1], k[2])'
      PROVE  k = q \/ Registered(k[1], k[2])
  <2>1. Registered(k[1], k[2]) \/ (k[1] = q[1] /\ k[2] = q[2])
    BY <1>1, <1>6, RegisterAdds
  <2> QED BY <2>1 DEF Keys
<1>7. ASSUME NEW k \in Keys, Storing(k)
      PROVE  Storing(k)'
  <2>1. PICK y \in Conns : srv[y] = "storing" /\ sent[y][1].key = k
    BY <1>7 DEF Storing
  <2>2. srv'[y] = "storing"
    BY <1>1, <2>1 DEF IInv, Handlers
  <2> QED BY <1>1, <2>1, <2>2 DEF Storing
<1>8. \A k \in Keys : Watchers(k)' = Watchers(k)
  BY <1>1 DEF Watchers
<1>9. EntryWatched'
  BY <1>1, <1>5, <1>6, <1>7, <1>8, StaysWatched
<1> QED BY <1>3, <1>9, SendingStays DEF IInv

(* The checkers of an entry are a number.                                    *)
LEMMA WatchersNat ==
    ASSUME Handlers, NEW k \in Keys
    PROVE  /\ checkers[k].watching \in Nat /\ checkers[k].expired \in Nat
           /\ Watchers(k) \in Nat /\ Watchers(k) = checkers[k].watching + checkers[k].expired
<1>1. checkers[k].watching \in Nat /\ checkers[k].expired \in Nat
  BY DEF Handlers
<1> QED BY <1>1 DEF Watchers

(* The rest of a registration starts a checker, unless there are so many     *)
(* that one more is not counted.                                             *)
LEMMA StoreKeeps ==
    ASSUME IInv, UNCHANGED clientVars, NEW x \in Conns, StoreAndWatch(x)
    PROVE  IInv'
<1>1. srv[x] = "storing" /\ phase # "down" /\ sent[x] # <<>>
  BY DEF StoreAndWatch, IInv, Handlers
<1>2. PICK q \in Keys : q = sent[x][1].key
  BY <1>1, KeySent
<1>3. /\ checkers' = IF Watchers(q) < MaxCheckers THEN [checkers EXCEPT ![q].watching = @ + 1]
                                                  ELSE checkers
      /\ srv' = [srv EXCEPT ![x] = "over"] /\ sent' = [sent EXCEPT ![x] = <<>>]
      /\ phase' = phase /\ servers' = servers
  BY <1>2 DEF StoreAndWatch, Respond
<1>4. PICK w \in Nat, e \in Nat : w = checkers[q].watching /\ e = checkers[q].expired
  BY WatchersNat DEF IInv
<1>5. Watchers(q) = w + e
  BY <1>4 DEF Watchers
<1>6. /\ checkers' \in [Keys -> [watching : Nat, expired : Nat]]
      /\ \A k \in Keys : k # q => checkers'[k] = checkers[k]
      /\ checkers'[q].expired = e
      /\ checkers'[q].watching = IF w + e < MaxCheckers THEN w + 1 ELSE w
  <2>1. checkers \in [Keys -> [watching : Nat, expired : Nat]]
    BY DEF IInv, Handlers
  <2>2. CASE w + e < MaxCheckers
    <3>1. checkers' = [checkers EXCEPT ![q] = [@ EXCEPT !.watching = w + 1]]
      BY <1>3, <1>4, <1>5, <2>2
    <3>2. w + 1 \in Nat
      OBVIOUS
    <3> QED BY <1>4, <2>1, <2>2, <3>1, <3>2
  <2>3. CASE ~(w + e < MaxCheckers)
    BY <1>3, <1>4, <1>5, <2>1, <2>3
  <2> QED BY <2>2, <2>3
<1>7. Watchers(q)' > 0
  <2>1. Watchers(q)' = checkers'[q].watching + checkers'[q].expired
    BY DEF Watchers
  <2>2. MaxCheckers \in Nat \ {0}
    BY TcpClientAssumption
  <2>3. PICK v \in Nat : v = checkers'[q].watching /\ v = IF w + e < MaxCheckers THEN w + 1 ELSE w
    BY <1>6
  <2>4. Watchers(q)' = v + e
    BY <1>6, <2>1, <2>3
  <2>5. v + e > 0
    BY <2>2, <2>3
  <2> QED BY <2>4, <2>5
<1>8. ASSUME NEW k \in Keys, k # q
      PROVE  /\ Registered(k[1], k[2])' => Registered(k[1], k[2])
             /\ Watchers(k)' = Watchers(k)
             /\ Storing(k) => Storing(k)'
  <2>1. Registered(k[1], k[2])' => Registered(k[1], k[2])
    BY <1>3 DEF Registered
  <2>2. Watchers(k)' = Watchers(k)
    BY <1>6, <1>8 DEF Watchers
  <2>3. ASSUME Storing(k)
        PROVE  Storing(k)'
    <3>1. PICK y \in Conns : srv[y] = "storing" /\ sent[y][1].key = k
      BY <2>3 DEF Storing
    <3>2. y # x /\ srv'[y] = srv[y] /\ sent'[y] = sent[y]
      BY <1>2, <1>3, <1>8, <3>1 DEF IInv, Handlers
    <3> QED BY <3>1, <3>2 DEF Storing
  <2> QED BY <2>1, <2>2, <2>3
<1>9. EntryWatched'
  BY <1>3, <1>7, <1>8, StaysWatched
<1>10. Handlers'
  BY <1>1, <1>3, <1>6 DEF IInv, Handlers
<1> QED BY <1>9, <1>10, SendingStays DEF IInv

(* The other commands.                                                       *)
LEMMA HandleKeeps ==
    ASSUME IInv, UNCHANGED clientVars, NEW x \in Conns, HandleConnection(x)
    PROVE  IInv'
<1>1. CASE HandleGarbled(x)
  <2>1. \A k \in Keys : Registered(k[1], k[2])' => Registered(k[1], k[2])
    BY <1>1 DEF HandleGarbled, Registered
  <2>2. /\ srv[x] = "waiting" /\ Respond(x, "garbled", FALSE)
        /\ UNCHANGED <<phase, checkers, faults>>
    BY <1>1 DEF HandleGarbled
  <2> QED BY <2>1, <2>2, RespondKeeps
<1>2. CASE HandleUnregister(x)
  <2> DEFINE q == sent[x][1].key
             o == Registered(q[1], q[2])
  <2>1. /\ srv[x] = "waiting" /\ Unregister(q[1], q[2]) /\ Respond(x, "unregister", o)
        /\ UNCHANGED <<phase, checkers, faults>>
    BY <1>2 DEF HandleUnregister, Received
  <2> HIDE DEF q, o
  <2>2. \A k \in Keys : Registered(k[1], k[2])' => Registered(k[1], k[2])
    BY <2>1, UnregisterRemoves
  <2> QED BY <2>1, <2>2, RespondKeeps
<1>3. CASE HandleHeartbeat(x)
  <2> DEFINE q == sent[x][1].key
             o == Registered(q[1], q[2])
  <2>1. /\ srv[x] = "waiting" /\ Heartbeat(q[1], q[2]) /\ Respond(x, "heartbeat", o)
        /\ UNCHANGED <<phase, checkers, faults>>
    BY <1>3 DEF HandleHeartbeat, Received
  <2> HIDE DEF q, o
  <2>2. \A k \in Keys : Registered(k[1], k[2])' => Registered(k[1], k[2])
    BY <2>1, TouchAddsNone
  <2> QED BY <2>1, <2>2, RespondKeeps
<1>4. CASE HandleQuery(x)
  <2>1. \A k \in Keys : Registered(k[1], k[2])' => Registered(k[1], k[2])
    BY <1>4 DEF HandleQuery, Registered
  <2>2. /\ srv[x] = "waiting" /\ \E o : Respond(x, "query", o)
        /\ UNCHANGED <<phase, checkers, faults>>
    BY <1>4 DEF HandleQuery, Received
  <2> QED BY <2>1, <2>2, RespondKeeps
<1> QED BY <1>1, <1>2, <1>3, <1>4, RegisterKeeps, StoreKeeps DEF HandleConnection

(* A checker that finds its entry expired goes on to remove it; one that     *)
(* ends without a removal does so only after Close.                          *)
LEMMA CheckerKeeps ==
    ASSUME IInv, UNCHANGED clientVars, NEW q \in Keys, HeartbeatChecker(q)
    PROVE  IInv'
<1>1. PICK w \in Nat, e \in Nat : w = checkers[q].watching /\ e = checkers[q].expired
  BY WatchersNat DEF IInv
<1>2. checkers \in [Keys -> [watching : Nat, expired : Nat]]
  BY DEF IInv, Handlers
<1>3. srv' = srv /\ sent' = sent /\ phase' = phase
  BY DEF HeartbeatChecker, CheckExpired, CheckerUnregisters, CheckerStops
<1>4. /\ checkers' \in [Keys -> [watching : Nat, expired : Nat]]
      /\ \A k \in Keys : k # q => checkers'[k] = checkers[k]
  <2>1. CASE CheckExpired(q)
    <3>1. checkers' = [checkers EXCEPT ![q] = [watching |-> w - 1, expired |-> e + 1]] /\ w > 0
      BY <1>1, <1>2, <2>1 DEF CheckExpired
    <3>2. w - 1 \in Nat /\ e + 1 \in Nat
      BY <3>1
    <3> QED BY <1>2, <3>1, <3>2
  <2>2. CASE CheckerUnregisters(q)
    <3>1. checkers' = [checkers EXCEPT ![q] = [@ EXCEPT !.expired = e - 1]] /\ e > 0
      BY <1>1, <2>2 DEF CheckerUnregisters
    <3>2. e - 1 \in Nat
      BY <3>1
    <3> QED BY <1>2, <3>1, <3>2
  <2>3. CASE CheckerStops(q)
    <3>1. checkers' = [checkers EXCEPT ![q] = [@ EXCEPT !.watching = w - 1]] /\ w > 0
      BY <1>1, <2>3 DEF CheckerStops
    <3>2. w - 1 \in Nat
      BY <3>1
    <3> QED BY <1>2, <3>1, <3>2
  <2> QED BY <2>1, <2>2, <2>3 DEF HeartbeatChecker
<1>5. \A k \in Keys : Storing(k)' <=> Storing(k)
  BY <1>3 DEF Storing
<1>6. \A k \in Keys : k # q => Watchers(k)' = Watchers(k)
  BY <1>4 DEF Watchers
<1>7. phase = "down" => servers' = servers
  <2>1. ASSUME phase = "down", CheckerUnregisters(q)
        PROVE  servers' = servers
    <3>1. ~Registered(q[1], q[2])
      BY <2>1 DEF IInv, Handlers, Registered
    <3> QED BY <2>1, <3>1 DEF CheckerUnregisters, Unregister
  <2> QED BY <2>1 DEF HeartbeatChecker, CheckExpired, CheckerStops
<1>8. Handlers'
  BY <1>3, <1>4, <1>7 DEF IInv, Handlers
<1>9. EntryWatched'
  <2>1. CASE CheckExpired(q)
    <3>1. servers' = servers /\ w > 0
      BY <1>1, <2>1 DEF CheckExpired
    <3>2. \A k \in Keys : Registered(k[1], k[2])' => Registered(k[1], k[2])
      BY <3>1 DEF Registered
    <3>3. Watchers(q)' > 0
      <4>1. checkers'[q].watching = w - 1 /\ checkers'[q].expired = e + 1
        BY <1>1, <1>2, <2>1 DEF CheckExpired
      <4>2. Watchers(q)' = (w - 1) + (e + 1)
        BY <4>1 DEF Watchers
      <4> QED BY <3>1, <4>2
    <3> QED BY <1>3, <1>5, <1>6, <3>2, <3>3, StaysWatched
  <2>2. CASE CheckerUnregisters(q)
    <3>1. ASSUME NEW k \in Keys, Registered(k[1], k[2])'
          PROVE  Registered(k[1], k[2]) /\ k # q
      BY <2>2, <3>1, UnregisterRemoves DEF CheckerUnregisters
    <3> QED BY <1>3, <1>5, <1>6, <3>1, StaysWatched
  <2>3. CASE CheckerStops(q)
    BY <1>3, <2>3 DEF CheckerStops, EntryWatched
  <2> QED BY <2>1, <2>2, <2>3 DEF HeartbeatChecker
<1> QED BY <1>8, <1>9, SendingStays DEF IInv

(* What changes only the table, and adds nothing to it.                      *)
LEMMA TableKeeps ==
    ASSUME IInv, UNCHANGED clientVars, UNCHANGED <<phase, srv, sent, checkers>>,
           \A k \in Keys : Registered(k[1], k[2])' => Registered(k[1], k[2]),
           phase = "down" => servers' = <<>>
    PROVE  IInv'
<1>1. \A k \in Keys : (Storing(k)' <=> Storing(k)) /\ Watchers(k)' = Watchers(k)
  BY DEF Storing, Watchers
<1>2. EntryWatched'
  BY <1>1, StaysWatched
<1>3. Handlers'
  BY DEF IInv, Handlers
<1> QED BY <1>2, <1>3, SendingStays DEF IInv

(* A step of the registry.                                                   *)
LEMMA RegistryKeeps ==
    ASSUME IInv, UNCHANGED clientVars, RegistryNext
    PROVE  IInv'
<1>1. ASSUME NEW x \in Conns, LoseRequest(x)
      PROVE  IInv'
  <2>1. /\ srv[x] = "waiting" /\ servers' = servers /\ phase' = phase /\ checkers' = checkers
        /\ srv' = [srv EXCEPT ![x] = "over"] /\ sent' = [sent EXCEPT ![x] = <<>>]
    BY <1>1 DEF LoseRequest
  <2>2. Handlers'
    BY <2>1 DEF IInv, Handlers
  <2>3. ASSUME NEW k \in Keys, Storing(k)
        PROVE  Storing(k)'
    <3>1. PICK y \in Conns : srv[y] = "storing" /\ sent[y][1].key = k
      BY <2>3 DEF Storing
    <3>2. y # x /\ srv'[y] = srv[y] /\ sent'[y] = sent[y]
      BY <2>1, <3>1 DEF IInv, Handlers
    <3> QED BY <3>1, <3>2 DEF Storing
  <2>4. \A k \in Keys : Watchers(k)' = Watchers(k) /\ (Registered(k[1], k[2])' => Registered(k[1], k[2]))
    BY <2>1 DEF Watchers, Registered
  <2>5. EntryWatched'
    BY <2>1, <2>3, <2>4, StaysWatched
  <2> QED BY <2>2, <2>5, SendingStays DEF IInv
<1>2. ASSUME NEW x \in Conns, LoseReply(x)
      PROVE  IInv'
  <2>1. UNCHANGED <<servers, phase, srv, sent, checkers>>
    BY <1>2 DEF LoseReply
  <2>2. \A k \in Keys : Registered(k[1], k[2])' => Registered(k[1], k[2])
    BY <2>1 DEF Registered
  <2>3. phase = "down" => servers' = <<>>
    BY <2>1 DEF IInv, Handlers
  <2> QED BY <2>1, <2>2, <2>3, TableKeeps
<1>3. ASSUME NEW q \in Keys, Expire(q)
      PROVE  IInv'
  <2>1. UNCHANGED <<phase, srv, sent, checkers>> /\ Age(q[1], q[2])
    BY <1>3 DEF Expire
  <2>2. \A k \in Keys : Registered(k[1], k[2])' => Registered(k[1], k[2])
    BY <2>1, TouchAddsNone
  <2>3. phase # "down"
    BY <2>1 DEF IInv, Handlers, Age, Registered
  <2> QED BY <2>1, <2>2, <2>3, TableKeeps
<1>4. CASE Clean
  <2>1. UNCHANGED <<phase, srv, sent, checkers>> /\ CleanExpiredServers /\ servers' # servers
    BY <1>4 DEF Clean
  <2>2. \A k \in Keys : Registered(k[1], k[2])' => Registered(k[1], k[2])
    BY <2>1, CleanAddsNone
  <2>3. phase # "down"
    <3> SUFFICES ASSUME phase = "down" PROVE FALSE
      OBVIOUS
    <3>1. servers = <<>> /\ DOMAIN servers = {}
      BY DEF IInv, Handlers
    <3>2. servers' = <<>>
      BY <2>1, <3>1 DEF CleanExpiredServers
    <3> QED BY <2>1, <3>1, <3>2
  <2> QED BY <2>1, <2>2, <2>3, TableKeeps
<1>5. CASE Close
  <2>1. phase' = "closed" /\ UNCHANGED <<servers, srv, sent, checkers>>
    BY <1>5 DEF Close
  <2>2. Handlers' /\ EntryWatched'
    BY <2>1 DEF IInv, Handlers, EntryWatched
  <2> QED BY <2>2, SendingStays DEF IInv
<1>6. CASE Fail
  <2>1. /\ phase' = "down" /\ servers' = <<>>
        /\ checkers' = [k \in Keys |-> NoCheckers]
        /\ srv' = [x \in Conns |-> "over"] /\ sent' = [x \in Conns |-> <<>>]
    BY <1>6 DEF Fail
  <2>2. NoCheckers \in [watching : Nat, expired : Nat] /\ <<>> \in Seq(Request)
    BY DEF NoCheckers
  <2>3. Handlers' /\ EntryWatched'
    BY <2>1, <2>2 DEF Handlers, EntryWatched
  <2> QED BY <2>3, SendingStays DEF IInv
<1>7. CASE Restart
  <2>1. phase = "down" /\ phase' = "up" /\ UNCHANGED <<servers, srv, sent, checkers>>
    BY <1>7 DEF Restart
  <2>2. servers' = <<>>
    BY <2>1 DEF IInv, Handlers
  <2>3. EntryWatched'
    BY <2>2 DEF EntryWatched, Registered
  <2>4. Handlers'
    BY <2>1 DEF IInv, Handlers
  <2> QED BY <2>3, <2>4, SendingStays DEF IInv
<1> QED BY <1>1, <1>2, <1>3, <1>4, <1>5, <1>6, <1>7, HandleKeeps, CheckerKeeps DEF RegistryNext

(* The read deadline of a handler.                                           *)
LEMMA GiveUpKeeps ==
    ASSUME IInv, UNCHANGED clientVars, NEW x \in Conns, HandlerGivesUp(x)
    PROVE  IInv'
<1>1. /\ srv[x] = "waiting" /\ servers' = servers /\ phase' = phase /\ checkers' = checkers
      /\ srv' = [srv EXCEPT ![x] = "over"] /\ sent' = sent
  BY DEF HandlerGivesUp
<1>2. Handlers'
  BY <1>1 DEF IInv, Handlers
<1>3. ASSUME NEW k \in Keys, Storing(k)
      PROVE  Storing(k)'
  <2>1. PICK y \in Conns : srv[y] = "storing" /\ sent[y][1].key = k
    BY <1>3 DEF Storing
  <2>2. y # x /\ srv'[y] = srv[y] /\ sent'[y] = sent[y]
    BY <1>1, <2>1 DEF IInv, Handlers
  <2> QED BY <2>1, <2>2 DEF Storing
<1>4. \A k \in Keys : Watchers(k)' = Watchers(k) /\ (Registered(k[1], k[2])' => Registered(k[1], k[2]))
  BY <1>1 DEF Watchers, Registered
<1>5. EntryWatched'
  BY <1>1, <1>3, <1>4, StaysWatched
<1> QED BY <1>2, <1>5, SendingStays DEF IInv

-----------------------------------------------------------------------------
(* The client's steps.                                                       *)

(* The client does not touch the registry's table, checkers and handlers.    *)
LEMMA HandlersStay ==
    ASSUME IInv, UNCHANGED <<servers, phase, checkers, srv, sent>>
    PROVE  Handlers' /\ EntryWatched'
<1>1. Handlers'
  BY DEF IInv, Handlers
<1>2. \A k \in Keys : /\ Storing(k)' <=> Storing(k)
                      /\ Watchers(k)' = Watchers(k)
                      /\ Registered(k[1], k[2])' => Registered(k[1], k[2])
  BY DEF Storing, Watchers, Registered
<1>3. EntryWatched'
  BY <1>2, StaysWatched
<1> QED BY <1>1, <1>3

(* Before a dial nobody stores what came over the connection, and what is    *)
(* written to one is not what its handler is storing.                        *)
LEMMA ChannelChanges ==
    ASSUME IInv, UNCHANGED <<servers, phase, checkers>>, NEW x \in Conns, srv[x] # "storing",
           NEW s \in {"waiting", "over"}, NEW q \in Seq(Request),
           srv' = [srv EXCEPT ![x] = s], sent' = [sent EXCEPT ![x] = q],
           phase = "down" => s = "over"
    PROVE  Handlers' /\ EntryWatched'
<1>1. Handlers'
  BY DEF IInv, Handlers
<1>2. ASSUME NEW k \in Keys, Storing(k)
      PROVE  Storing(k)'
  <2>1. PICK y \in Conns : srv[y] = "storing" /\ sent[y][1].key = k
    BY <1>2 DEF Storing
  <2>2. y # x /\ srv'[y] = srv[y] /\ sent'[y] = sent[y]
    BY <2>1 DEF IInv, Handlers
  <2> QED BY <2>1, <2>2 DEF Storing
<1>3. \A k \in Keys : Watchers(k)' = Watchers(k) /\ (Registered(k[1], k[2])' => Registered(k[1], k[2]))
  BY DEF Watchers, Registered
<1>4. EntryWatched'
  BY <1>2, <1>3, StaysWatched
<1> QED BY <1>1, <1>4

(* A goroutine that goes on with its command.                                *)
LEMMA GoesOn ==
    ASSUME Sending, NEW g \in Goroutines, NEW place \in Places \ {"none", "ended", "connect"},
           place = "write" => pc[g] = "connect",
           pc[g] \notin {"none", "ended"}, GoTo(g, place),
           conn' \in Conns \cup {NoConn}, service' = service, cmd' = cmd
    PROVE  Sending'
BY DEF Sending, GoTo

(* A goroutine that begins another.                                          *)
LEMMA Starts ==
    ASSUME Sending, NEW g \in Goroutines, NEW action \in Actions, NEW k \in Keys,
           pc[g] \notin {"none", "ended"}, Start(g, action, k),
           conn' \in Conns \cup {NoConn}, service' = service
    PROVE  Sending'
<1> DEFINE c == [action |-> action, key |-> k]
<1>1. c \in Request
  BY DEF Request
<1>2. cmd' = [cmd EXCEPT ![g] = c] /\ pc' = [pc EXCEPT ![g] = "connect"]
  BY DEF Start, GoTo
<1>3. "connect" \in Places
  BY DEF Places
<1> HIDE DEF c
<1> QED BY <1>1, <1>2, <1>3 DEF Sending

(* A goroutine that has finished one.                                        *)
LEMMA Rests ==
    ASSUME Sending, NEW g \in Goroutines, pc[g] \notin {"none", "ended"}, Rest(g),
           conn' \in Conns \cup {NoConn}, service' = service
    PROVE  Sending'
<1>1. cmd' = [cmd EXCEPT ![g] = NoCmd] /\ pc' = [pc EXCEPT ![g] = "idle"]
  BY DEF Rest, GoTo
<1>2. "idle" \in Places
  BY DEF Places
<1> QED BY <1>1, <1>2 DEF Sending

(* The process ends.                                                         *)
LEMMA EndsKeeps ==
    ASSUME IInv, NEW how, Ends(how)
    PROVE  IInv'
<1>1. /\ conn' = NoConn /\ pc' = [g \in Goroutines |-> "ended"]
      /\ cmd' = [g \in Goroutines |-> NoCmd] /\ service' = service
      /\ UNCHANGED <<servers, phase, checkers, srv, sent>>
  BY DEF Ends, registryVars
<1>2. Sending'
  <2>1. "ended" \in Places
    BY DEF Places
  <2> QED BY <1>1, <2>1 DEF IInv, Sending, Goroutines
<1> QED BY <1>1, <1>2, HandlersStay DEF IInv

(* sendRequest.                                                              *)
LEMMA SendRequestKeeps ==
    ASSUME IInv, NEW g \in Goroutines, SendRequest(g)
    PROVE  IInv'
<1>1. Sending
  BY DEF IInv
<1>2. CASE Connect(g)
  <2> DEFINE x == CHOOSE y \in Conns : Unused(y)
  <2>1. x \in Conns /\ Unused(x)
    BY <1>2 DEF Connect
  <2>2. /\ conn' = x /\ srv' = [srv EXCEPT ![x] = "waiting"] /\ sent' = [sent EXCEPT ![x] = <<>>]
        /\ phase = "up" /\ pc[g] = "connect" /\ GoTo(g, "write")
        /\ UNCHANGED <<servers, phase, checkers, service, cmd>>
    BY <1>2 DEF Connect, At, registryVars
  <2> HIDE DEF x
  <2>3. srv[x] # "storing" /\ <<>> \in Seq(Request)
    BY <2>1 DEF Unused
  <2>4. Handlers' /\ EntryWatched'
    BY <2>1, <2>2, <2>3, ChannelChanges
  <2>5. Sending'
    <3>1. "write" \in Places \ {"none", "ended", "connect"}
      BY DEF Places
    <3> QED BY <1>1, <2>1, <2>2, <3>1, GoesOn
  <2> QED BY <2>4, <2>5 DEF IInv
<1>3. CASE ConnectFails(g)
  <2>1. /\ pc[g] = "connect" /\ GoTo(g, "return")
        /\ UNCHANGED <<servers, phase, checkers, srv, sent, conn, service, cmd>>
    BY <1>3 DEF ConnectFails, At, tcpVars
  <2>2. Sending'
    <3>1. "return" \in Places \ {"none", "ended", "connect"}
      BY DEF Places
    <3>2. conn' \in Conns \cup {NoConn}
      BY <1>1, <2>1 DEF Sending
    <3> QED BY <1>1, <2>1, <3>1, <3>2, GoesOn
  <2> QED BY <2>1, <2>2, HandlersStay DEF IInv
<1>4. CASE NilConn(g)
  BY <1>4, EndsKeeps DEF NilConn
<1>5. CASE Write(g)
  <2>1. /\ pc[g] = "write" /\ conn # NoConn
        /\ UNCHANGED <<servers, phase, checkers, srv, conn, service, cmd>>
    BY <1>5 DEF Write, At, registryVars
  <2>2. Sending'
    <3>1. "read" \in Places \ {"none", "ended", "connect"} /\ "close" \in Places \ {"none", "ended", "connect"}
      BY DEF Places
    <3>2. conn' \in Conns \cup {NoConn}
      BY <1>1, <2>1 DEF Sending
    <3>3. GoTo(g, "read") \/ GoTo(g, "close")
      BY <1>5 DEF Write
    <3> QED BY <1>1, <2>1, <3>1, <3>2, <3>3, GoesOn
  <2>3. CASE sent' = sent
    BY <2>1, <2>2, <2>3, HandlersStay DEF IInv
  <2>4. CASE srv[conn] = "waiting" /\ sent' = [sent EXCEPT ![conn] = Append(@, cmd[g])]
    <3> DEFINE x == conn
               q == Append(sent[x], cmd[g])
    <3>1. x \in Conns /\ cmd[g] \in Request
      BY <1>1, <2>1 DEF Sending
    <3>2. sent[x] \in Seq(Request) /\ srv = [srv EXCEPT ![x] = "waiting"]
      BY <2>4, <3>1 DEF IInv, Handlers
    <3>3. q \in Seq(Request)
      BY <3>1, <3>2
    <3>4. phase # "down"
      BY <2>4, <3>1 DEF IInv, Handlers
    <3>5. sent' = [sent EXCEPT ![x] = q] /\ srv' = [srv EXCEPT ![x] = "waiting"] /\ srv[x] # "storing"
      BY <2>1, <2>4, <3>2
    <3> HIDE DEF x, q
    <3>6. Handlers' /\ EntryWatched'
      BY <2>1, <3>1, <3>3, <3>4, <3>5, ChannelChanges
    <3> QED BY <2>2, <3>6 DEF IInv
  <2> QED BY <1>5, <2>3, <2>4 DEF Write
<1>6. CASE Read(g) \/ ReadReturns(g)
  <2>1. /\ pc[g] \in {"read", "reading"} /\ (GoTo(g, "reading") \/ GoTo(g, "close"))
        /\ UNCHANGED <<servers, phase, checkers, srv, sent, conn, service, cmd>>
    BY <1>6 DEF Read, ReadReturns, At, tcpVars, registryVars
  <2>2. Sending'
    <3>1. "reading" \in Places \ {"none", "ended", "connect"} /\ "close" \in Places \ {"none", "ended", "connect"}
      BY DEF Places
    <3>2. conn' \in Conns \cup {NoConn}
      BY <1>1, <2>1 DEF Sending
    <3> QED BY <1>1, <2>1, <3>1, <3>2, GoesOn
  <2> QED BY <2>1, <2>2, HandlersStay DEF IInv
<1> QED BY <1>2, <1>3, <1>4, <1>5, <1>6 DEF SendRequest

(* What sendRequest leaves when it returns.                                  *)
LEMMA ReturnsKeeps ==
    ASSUME IInv, NEW g \in Goroutines, Returns(g)
    PROVE  /\ pc[g] \in {"return", "close"} /\ conn' \in Conns \cup {NoConn}
           /\ Handlers' /\ EntryWatched'
<1>1. /\ pc[g] \in {"return", "close"} /\ (conn' = conn \/ conn' = NoConn)
      /\ UNCHANGED <<servers, phase, checkers, srv, sent>>
  BY DEF Returns, At, registryVars
<1>2. conn' \in Conns \cup {NoConn}
  BY <1>1 DEF IInv, Sending
<1> QED BY <1>1, <1>2, HandlersStay

(* The application's calls.                                                  *)
LEMMA ApplicationKeeps ==
    ASSUME IInv, Application
    PROVE  IInv'
<1>1. Sending /\ App \in Goroutines
  BY DEF IInv, Goroutines
<1>2. CASE CallApp
  <2>1. /\ pc[App] = "idle" /\ UNCHANGED <<servers, phase, checkers, srv, sent, conn, service>>
        /\ \E k \in Keys, action \in Actions : Start(App, action, k)
    <3>1. service # NoKey => service \in Keys
      BY <1>1 DEF Sending
    <3> QED BY <1>2, <3>1 DEF CallApp, At, tcpVars, Actions
  <2>2. conn' \in Conns \cup {NoConn}
    BY <1>1, <2>1 DEF Sending
  <2>3. Sending'
    BY <1>1, <2>1, <2>2, Starts
  <2> QED BY <2>1, <2>3, HandlersStay DEF IInv
<1>3. CASE RegisterReturns
  <2>1. /\ Returns(App) /\ service' = cmd[App].key /\ cmd[App].action = "register"
        /\ cmd' = [cmd EXCEPT ![App] = NoCmd]
    BY <1>3 DEF RegisterReturns
  <2>2. PICK b \in Beats : pc' = [pc EXCEPT ![App] = "idle", ![b] = "idle"]
    BY <1>3 DEF RegisterReturns
  <2>3. service' \in Keys
    <3>1. cmd[App] # NoCmd /\ cmd[App] \in Request \cup {NoCmd}
      BY <1>1, <2>1 DEF NoCmd, Sending
    <3> QED BY <2>1, <3>1 DEF Request
  <2>4. Sending'
    <3>1. "idle" \in Places
      BY DEF Places
    <3>2. b \in Goroutines
      BY DEF Goroutines
    <3>3. pc' \in [Goroutines -> Places] /\ \A g \in Goroutines : pc'[g] = "idle" \/ (g # App /\ pc'[g] = pc[g])
      BY <1>1, <2>2, <3>1, <3>2 DEF Sending
    <3>4. cmd' \in [Goroutines -> Request \cup {NoCmd}] /\ \A g \in Goroutines : g # App => cmd'[g] = cmd[g]
      BY <1>1, <2>1 DEF Sending
    <3>5. conn' \in Conns \cup {NoConn}
      BY <1>1, <2>1, ReturnsKeeps
    <3> QED BY <1>1, <2>3, <3>3, <3>4, <3>5 DEF Sending, Goroutines
  <2> QED BY <1>1, <2>1, <2>4, ReturnsKeeps DEF IInv
<1>4. CASE UnregisterReturns
  <2>1. CASE done
    BY <1>4, <2>1, EndsKeeps DEF UnregisterReturns
  <2>2. CASE ~done
    <3>1. Returns(App) /\ Rest(App) /\ service' = service
      BY <1>4, <2>2 DEF UnregisterReturns
    <3>2. /\ pc[App] \in {"return", "close"} /\ conn' \in Conns \cup {NoConn}
          /\ Handlers' /\ EntryWatched'
      BY <1>1, <3>1, ReturnsKeeps
    <3>3. Sending'
      BY <1>1, <3>1, <3>2, Rests
    <3> QED BY <3>2, <3>3 DEF IInv
  <2> QED BY <2>1, <2>2
<1>5. CASE OtherReturns
  <2>1. Returns(App) /\ Rest(App) /\ service' = service
    BY <1>5 DEF OtherReturns
  <2>2. /\ pc[App] \in {"return", "close"} /\ conn' \in Conns \cup {NoConn}
        /\ Handlers' /\ EntryWatched'
    BY <1>1, <2>1, ReturnsKeeps
  <2>3. Sending'
    BY <1>1, <2>1, <2>2, Rests
  <2> QED BY <2>2, <2>3 DEF IInv
<1> QED BY <1>2, <1>3, <1>4, <1>5 DEF Application

(* The heartbeat goroutines.                                                 *)
LEMMA BeatKeeps ==
    ASSUME IInv, NEW b \in Beats, Beat(b) \/ BeatEnds(b)
    PROVE  IInv'
<1>1. Sending /\ b \in Goroutines /\ (pc[b] \notin {"none", "ended"} => service \in Keys)
  BY DEF IInv, Sending, Goroutines
<1>2. CASE Tick(b)
  <2>1. /\ pc[b] = "idle" /\ UNCHANGED <<servers, phase, checkers, srv, sent, conn, service>>
        /\ Start(b, "heartbeat", service)
    BY <1>2 DEF Tick, At, tcpVars
  <2>2. conn' \in Conns \cup {NoConn} /\ "heartbeat" \in Actions /\ service \in Keys
    BY <1>1, <2>1 DEF Sending, Actions
  <2>3. Sending'
    BY <1>1, <2>1, <2>2, Starts
  <2> QED BY <2>1, <2>3, HandlersStay DEF IInv
<1>3. CASE BeatReturns(b)
  <2>1. Returns(b) /\ (Start(b, "register", service) \/ Rest(b)) /\ service' = service
    BY <1>3 DEF BeatReturns
  <2>2. /\ pc[b] \in {"return", "close"} /\ conn' \in Conns \cup {NoConn}
        /\ Handlers' /\ EntryWatched'
    BY <1>1, <2>1, ReturnsKeeps
  <2>3. "register" \in Actions /\ service \in Keys
    BY <1>1, <2>2 DEF Actions
  <2>4. Sending'
    BY <1>1, <2>1, <2>2, <2>3, Starts, Rests
  <2> QED BY <2>2, <2>4 DEF IInv
<1>4. CASE BeatEnds(b)
  <2>1. /\ pc' = [pc EXCEPT ![b] = "ended"]
        /\ UNCHANGED <<servers, phase, checkers, srv, sent, conn, service, cmd>>
    BY <1>4 DEF BeatEnds, GoTo, tcpVars
  <2>2. Sending'
    <3>1. "ended" \in Places
      BY DEF Places
    <3> QED BY <1>1, <2>1, <3>1 DEF Sending, Goroutines
  <2> QED BY <2>1, <2>2, HandlersStay DEF IInv
<1> QED BY <1>2, <1>3, <1>4 DEF Beat

-----------------------------------------------------------------------------
(* The invariant.                                                            *)

(* The inductive invariant at the start.                                     *)
LEMMA InitIInv == Init => IInv
<1> SUFFICES ASSUME Init PROVE IInv
  OBVIOUS
<1>1. /\ servers = <<>> /\ phase = "up" /\ srv = [x \in Conns |-> "over"]
      /\ sent = [x \in Conns |-> <<>>] /\ checkers = [k \in Keys |-> NoCheckers]
  BY DEF Init, InitTcpRegistry, InitTable
<1>2. NoCheckers \in [watching : Nat, expired : Nat] /\ <<>> \in Seq(Request)
  BY DEF NoCheckers
<1>3. Handlers
  BY <1>1, <1>2 DEF Handlers
<1>4. EntryWatched
  BY <1>1 DEF EntryWatched, Registered
<1>5. Sending
  <2>1. /\ conn = NoConn /\ service = NoKey /\ cmd = [g \in Goroutines |-> NoCmd]
        /\ pc = [g \in Goroutines |-> IF g = App THEN "idle" ELSE "none"]
    BY DEF Init
  <2>2. "idle" \in Places /\ "none" \in Places
    BY DEF Places
  <2>3. \A b \in Beats : b # App /\ b \in Goroutines
    BY TcpClientAssumption DEF Goroutines
  <2> QED BY <2>1, <2>2, <2>3 DEF Sending
<1> QED BY <1>3, <1>4, <1>5 DEF IInv

(* And through every step.                                                   *)
LEMMA NextIInv == IInv /\ [Next]_vars => IInv'
<1> SUFFICES ASSUME IInv, [Next]_vars PROVE IInv'
  OBVIOUS
<1>1. CASE Kill
  BY <1>1, EndsKeeps DEF Kill
<1>2. ASSUME NEW x \in Conns, HandlerEnds(x)
      PROVE  IInv'
  BY <1>2, GiveUpKeeps DEF HandlerEnds, Aside
<1>3. CASE Aside(RegistryNext)
  BY <1>3, RegistryKeeps DEF Aside
<1>4. CASE UNCHANGED vars
  <2>1. UNCHANGED clientVars /\ UNCHANGED <<servers, phase, checkers, srv, sent>>
    BY <1>4 DEF vars, tcpVars
  <2> QED BY <2>1, HandlersStay, SendingStays DEF IInv
<1> QED BY <1>1, <1>2, <1>3, <1>4, ApplicationKeeps, SendRequestKeeps, BeatKeeps DEF Next

(* While the TCP registry is up every entry of it has a checker goroutine    *)
(* that will find it expired, or a handler that is about to start one        *)
(* (handleRegister and heartbeatChecker of tcp_registry.go), although the    *)
(* checkers remove entries they no longer look at, clients register again    *)
(* and again, requests and replies are lost, and the registry fails and      *)
(* comes back.                                                               *)
THEOREM EntriesWatched == Spec => []EntryWatched
<1>1. IInv => EntryWatched
  BY DEF IInv
<1> QED BY <1>1, InitIInv, NextIInv, PTL DEF Spec

-----------------------------------------------------------------------------
(* The registration in etcd (discovery/etcd/registry.go).                    *)

(* Why it stays away: whoever deletes the key has cancelled the context      *)
(* before, and keepAlive sends no Put on a cancelled context, so that the    *)
(* only Put that may still come is one the Delete has overtaken; the first   *)
(* registration is over before anyone can unregister.                        *)
Registering == {"grant", "add", "adding", "added", "failed"}

RemovalInv ==
    /\ EtcdTypeOK
    /\ removed => cancelled
    /\ removed /\ ~late => key = Absent /\ pending = Absent
    /\ \A g \in EtcdGoroutines : at[g] \in {"delete", "revoke", "close"} => cancelled
    /\ at[Main] \in Registering => ~removed /\ at[KeepAlive] = "none"

(* Nothing has been removed and nobody unregisters at first.                *)
LEMMA InitRemoval == EtcdInit => RemovalInv
<1> SUFFICES ASSUME EtcdInit
             PROVE  RemovalInv
  OBVIOUS
<1>1. at[Main] = "grant" /\ at[KeepAlive] = "none"
  BY EtcdRegistryAssumption DEF EtcdInit, EtcdGoroutines
<1>2. EtcdTypeOK
  <2>1. at \in [EtcdGoroutines -> {"grant", "none"}]
    BY DEF EtcdInit
  <2>2. at \in [EtcdGoroutines ->
                  {"none", "grant", "add", "adding", "added", "registered",
                   "failed", "start", "loop", "regrant", "readd", "readding",
                   "readded", "cancel", "delete", "revoke", "close", "ended"}]
    BY <2>1
  <2> QED BY <2>2, Zenon DEF EtcdInit, EtcdTypeOK
<1> QED BY <1>1, <1>2 DEF EtcdInit, RemovalInv, EtcdGoroutines

(* One step per action of EtcdNext.                                          *)
LEMMA NextRemoval == RemovalInv /\ [EtcdNext]_etcdVars => RemovalInv'
<1> SUFFICES ASSUME RemovalInv, [EtcdNext]_etcdVars
             PROVE  RemovalInv'
  OBVIOUS
<1> USE EtcdRegistryAssumption
    DEF RemovalInv, EtcdTypeOK, EtcdGoroutines, IsAt, MoveTo, Registering
<1>1. CASE Grant
  <2>1. CASE \E l \in Leases : Grants(l) /\ MoveTo(Main, "add")
    BY <1>1, <2>1 DEF Grant, Grants
  <2>2. CASE MoveTo(Main, "failed") /\ UNCHANGED <<live, leaseID>>
    BY <1>1, <2>2 DEF Grant
  <2> QED BY <1>1, <2>1, <2>2 DEF Grant
<1>2. CASE AddEndpoint
  BY <1>2 DEF AddEndpoint
<1>3. CASE Added
  BY <1>3 DEF Added
<1>4. CASE AddFails
  BY <1>4 DEF AddFails
<1>5. CASE StartKeepAlive
  BY <1>5 DEF StartKeepAlive
<1>6. CASE KeepAliveDone
  BY <1>6 DEF KeepAliveDone
<1>7. CASE LeaseLost
  BY <1>7 DEF LeaseLost
<1>8. CASE Regrant
  BY <1>8 DEF Regrant, Grants
<1>9. CASE Readd
  <2>1. at[KeepAlive] = "readd" /\ UNCHANGED <<removed, late, cancelled, key>>
    BY <1>9 DEF Readd
  <2>2. CASE ~cancelled /\ pending' = NoLease /\ again' = TRUE
             /\ MoveTo(KeepAlive, "readding")
    <3>1. ~removed'
      BY <2>1, <2>2
    <3>2. EtcdTypeOK'
      BY <1>9, <2>2 DEF Readd
    <3> QED BY <2>1, <2>2, <3>1, <3>2
  <2>3. CASE MoveTo(KeepAlive, "cancel") /\ UNCHANGED <<pending, again>>
    <3>1. EtcdTypeOK'
      BY <1>9, <2>3 DEF Readd
    <3> QED BY <2>1, <2>3, <3>1
  <2> QED BY <1>9, <2>2, <2>3, Zenon DEF Readd
<1>10. CASE Readded
  BY <1>10 DEF Readded
<1>11. CASE ReaddFails
  BY <1>11 DEF ReaddFails
<1>12. CASE CallUnregister
  BY <1>12 DEF CallUnregister
<1>13. ASSUME NEW g \in EtcdGoroutines, UnregisterService(g)
       PROVE  RemovalInv'
  <2>1. CASE Cancel(g)
    BY <2>1 DEF Cancel
  <2>2. CASE DeleteKey(g)
    <3>1. at[g] = "delete" /\ cancelled /\ UNCHANGED <<cancelled, pending>>
      BY <2>2 DEF DeleteKey
    <3>2. /\ key' \in {key, Absent}
          /\ removed' /\ ~late' => key' = Absent /\ pending' = Absent
          /\ removed' \in BOOLEAN /\ late' \in BOOLEAN
      <4>1. CASE /\ key' = Absent /\ removed' = TRUE
                 /\ late' = (pending # Absent)
        BY <3>1, <4>1
      <4>2. CASE key' \in {key, Absent} /\ UNCHANGED <<removed, late>>
        BY <3>1, <4>2
      <4> QED BY <2>2, <4>1, <4>2 DEF DeleteKey
    <3>3. at' = [at EXCEPT ![g] = "revoke"]
      BY <2>2 DEF DeleteKey
    <3>4. EtcdTypeOK'
      BY <2>2, <3>2, <3>3 DEF DeleteKey
    <3>5. at[Main] \notin Registering
      BY <3>1
    <3> QED BY <3>1, <3>2, <3>3, <3>4, <3>5
  <2>3. CASE Revoke(g)
    BY <2>3 DEF Revoke, EndLease
  <2>4. CASE CloseClient(g)
    BY <2>4 DEF CloseClient
  <2> QED BY <1>13, <2>1, <2>2, <2>3, <2>4 DEF UnregisterService
<1>14. CASE PutArrives
  <2>1. /\ pending # Absent /\ pending' = Absent
        /\ UNCHANGED <<live, server, leaseID, cancelled, closed, again, removed, late>>
        /\ key' \in {key, pending}
    BY <1>14 DEF PutArrives
  <2>2. /\ DOMAIN at' = EtcdGoroutines
        /\ \A g \in EtcdGoroutines :
              \/ at'[g] = at[g]
              \/ at[g] = "adding" /\ at'[g] \in {"added", "failed"}
              \/ at[g] = "readding" /\ at'[g] = "readded"
    BY <1>14 DEF PutArrives
  <2>3. at' = [g \in EtcdGoroutines |-> at'[g]]
    BY <1>14 DEF PutArrives
  <2>4. EtcdTypeOK'
    BY <2>1, <2>2, <2>3
  <2>5. ~(removed /\ ~late)
    BY <2>1
  <2> QED BY <2>1, <2>2, <2>4, <2>5
<1>15. ASSUME NEW l \in Leases, ExpireLease(l)
       PROVE  RemovalInv'
  BY <1>15 DEF ExpireLease, EndLease
<1>16. CASE Die
  BY <1>16 DEF Die
<1>17. CASE UNCHANGED etcdVars
  BY <1>17 DEF etcdVars
<1> QED
  BY <1>1, <1>2, <1>3, <1>4, <1>5, <1>6, <1>7, <1>8, <1>9, <1>10, <1>11, <1>12,
     <1>13, <1>14, <1>15, <1>16, <1>17
  DEF EtcdNext, RegisterService, KeepAliveLoop

(* Once Delete of Unregister (registry.go:135) has removed the key, no       *)
(* re-registration brings it back but one whose Put the Delete overtook.     *)
THEOREM RemovedForGood == EtcdSpec => []RemovedStaysAway
<1>1. RemovalInv => RemovedStaysAway
  BY DEF RemovalInv, RemovedStaysAway
<1> QED BY InitRemoval, NextRemoval, <1>1, PTL DEF EtcdSpec

(* Every variable keeps its type.                                            *)
THEOREM EtcdTypeCorrect == EtcdSpec => []EtcdTypeOK
<1>1. RemovalInv => EtcdTypeOK
  BY DEF RemovalInv
<1> QED BY InitRemoval, NextRemoval, <1>1, PTL DEF EtcdSpec
=============================================================================

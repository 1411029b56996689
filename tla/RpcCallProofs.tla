--------------------------- MODULE RpcCallProofs ---------------------------
(* What a client's calls have on the wire, for any number of callers,       *)
(* connections and retries: a caller outside invoke holds no connection,    *)
(* every answer finds its entry in c.pending until Close, and calls without *)
(* a deadline get their own answers.                                        *)
EXTENDS RpcCall, TLAPS

(* The type invariant in the four groups of variables that steps change.    *)
Message == [seq : Seqs, kind : Kinds]
Streams == {"whole", "garbled", "cut"}

TypeLease == where \in [Conns -> Pool!Places] /\ holder \in [Callers -> Conns \cup {NoConn}]
TypeClient == closing \in BOOLEAN /\ pending \subseteq Seqs /\ sequence \in 0..MaxSeq
TypeCall ==
    /\ pc \in [Callers -> Pcs] /\ retry \in [Callers -> 0..MaxRetries]
    /\ seq \in [Callers -> 0..MaxSeq] /\ got \in [Callers -> 0..MaxSeq]
    /\ late \in [Callers -> BOOLEAN] /\ stats \in [Callers -> 0..MaxRetries + 1]
TypeWire ==
    /\ requests \in [Conns -> SUBSET Seqs] /\ responses \in [Conns -> Seq(Message)]
    /\ stream \in [Conns -> Streams]
    /\ rdl \in [Conns -> Deadlines] /\ wdl \in [Conns -> Deadlines]

Holding == {"check", "send", "write", "recv", "put", "giveup", "panic"}

(* The lease as invoke uses it: a caller holds a connection at exactly      *)
(* these stages, and no two callers hold the same one.                      *)
LeaseInv ==
    /\ \A k \in Callers :
          /\ pc[k] \in Holding <=> holder[k] # NoConn
          /\ holder[k] # NoConn => where[holder[k]] = "held"
    /\ \A k, l \in Callers : holder[k] = holder[l] /\ holder[k] # NoConn => k = l

(* Every attempt that has begun and not ended belongs to a round of the     *)
(* loop.                                                                    *)
StatsInv ==
    \A k \in Callers :
        /\ pc[k] \in {"attempt", "giveup"} => stats[k] <= retry[k]
        /\ pc[k] \in {"check", "send", "write", "recv", "put"} =>
              stats[k] \in 1..(retry[k] + 1)

Core == TypeLease /\ TypeClient /\ TypeCall /\ TypeWire /\ LeaseInv /\ StatsInv

-----------------------------------------------------------------------------
(* A number is on its way at most once, on one connection, as a request or  *)
(* as a response; the number of a call that is about to write is on no      *)
(* connection, and nobody else's.  So the entry that recvMsg or a failed    *)
(* write deletes is one that nothing else on the way needs.                 *)
Numbers(s) == {s[i].seq : i \in DOMAIN s}
OnTheWay(c) == requests[c] \cup Numbers(responses[c])
Distinct(s) == \A i, j \in DOMAIN s : s[i].seq = s[j].seq => i = j

NumberInv ==
    /\ \A c \in Conns : OnTheWay(c) \subseteq 1..sequence
    /\ \A c, d \in Conns : c # d => OnTheWay(c) \cap OnTheWay(d) = {}
    /\ \A c \in Conns : /\ requests[c] \cap Numbers(responses[c]) = {}
                         /\ Distinct(responses[c])
    /\ \A k \in Callers : pc[k] = "write" =>
          /\ seq[k] \in 1..sequence
          /\ \A c \in Conns : seq[k] \notin OnTheWay(c)
    /\ \A k, l \in Callers :
          pc[k] = "write" /\ pc[l] = "write" /\ seq[k] = seq[l] => k = l
    /\ ~closing => \A k \in Callers : pc[k] = "write" => seq[k] \in pending
    /\ AnswersExpected

CallInv == Core /\ NumberInv

-----------------------------------------------------------------------------
(* When no caller has a deadline, nothing is left behind on a connection:   *)
(* whoever leases one that can still be read finds it empty, and what comes *)
(* is the answer to the one request written since.                          *)
EmptyInv ==
    /\ \A c \in Conns : rdl[c] = "none" /\ wdl[c] = "none"
    /\ \A c \in Conns : stream[c] = "cut" => requests[c] = {}
    /\ \A c \in Conns :
          stream[c] # "garbled" /\ where[c] # "held" => OnTheWay(c) = {}
    /\ \A k \in Callers : pc[k] \in Holding /\ stream[holder[k]] # "garbled" =>
          IF pc[k] = "recv" THEN OnTheWay(holder[k]) \subseteq {seq[k]}
                            ELSE OnTheWay(holder[k]) = {}

(* A caller has an answer only at the end of its invocation, and it is its  *)
(* own.                                                                     *)
OwnInv ==
    /\ EmptyInv
    /\ OwnResponse
    /\ \A k \in Callers : pc[k] \notin {"put", "idle", "panic"} => got[k] = 0

-----------------------------------------------------------------------------
(* Types, leases and stats.                                                 *)
USE CallAssumption DEF leaseVars, clientVars, callVars, wireVars, Goto

(* The four groups are the type invariant.                                  *)
LEMMA TypeGroups == TypeOK <=> TypeLease /\ TypeClient /\ TypeCall /\ TypeWire
  BY DEF TypeOK, TypeLease, TypeClient, TypeCall, TypeWire, Message, Streams

(* A caller moves on and keeps what it holds.                               *)
LEMMA LeaseStays ==
    ASSUME TypeCall, LeaseInv, NEW k \in Callers, NEW s \in Pcs, Goto(k, s),
           pc[k] \in Holding <=> s \in Holding, UNCHANGED <<where, holder>>
    PROVE  LeaseInv'
<1>1. \A l \in Callers : pc'[l] \in Holding <=> pc[l] \in Holding
  BY DEF TypeCall
<1> QED BY <1>1 DEF LeaseInv

(* A caller gets a connection nobody holds.                                 *)
LEMMA LeaseTaken ==
    ASSUME TypeLease, TypeCall, LeaseInv, NEW k \in Callers, NEW c \in Conns,
           Pool!Lease(k, c), Goto(k, "check")
    PROVE  TypeLease' /\ LeaseInv' /\ where[c] # "held" /\ holder'[k] = c
<1>1. /\ holder[k] = NoConn /\ where[c] \in {"unborn", "pool"}
      /\ where' = [where EXCEPT ![c] = "held"] /\ holder' = [holder EXCEPT ![k] = c]
  BY DEF Pool!Lease
<1>2. TypeLease'
  BY <1>1 DEF TypeLease, Pool!Places
<1>3. c # NoConn /\ \A l \in Callers : holder[l] # c
  BY <1>1 DEF LeaseInv
<1>4. /\ holder'[k] = c /\ pc'[k] \in Holding /\ where'[c] = "held"
      /\ \A l \in Callers : l # k => holder'[l] = holder[l] /\ pc'[l] = pc[l]
      /\ \A d \in Conns : d # c => where'[d] = where[d]
  BY <1>1 DEF TypeLease, TypeCall, Holding
<1>5. ASSUME NEW l \in Callers
      PROVE  /\ pc'[l] \in Holding <=> holder'[l] # NoConn
             /\ holder'[l] # NoConn => where'[holder'[l]] = "held"
  <2>1. CASE l = k
    BY <1>3, <1>4, <2>1
  <2>2. CASE l # k
    BY <1>3, <1>4, <2>2 DEF TypeLease, LeaseInv
  <2> QED BY <2>1, <2>2
<1>6. \A l, m \in Callers : holder'[l] = holder'[m] /\ holder'[l] # NoConn => l = m
  BY <1>3, <1>4 DEF LeaseInv
<1> QED BY <1>1, <1>2, <1>4, <1>5, <1>6 DEF LeaseInv

(* A caller gives its connection up.                                        *)
LEMMA LeaseEnds ==
    ASSUME TypeLease, TypeCall, LeaseInv, NEW k \in Callers,
           NEW s \in {"idle", "attempt"},
           Pool!Return(k) \/ Pool!Discard(k), Goto(k, s)
    PROVE  TypeLease' /\ LeaseInv'
<1> DEFINE c == holder[k]
<1>1. PICK w \in {"pool", "gone"} :
         /\ c # NoConn /\ where' = [where EXCEPT ![c] = w]
         /\ holder' = [holder EXCEPT ![k] = NoConn]
  BY DEF Pool!Return, Pool!Discard
<1>2. c \in Conns /\ w \in Pool!Places
  BY <1>1 DEF TypeLease, Pool!Places
<1>3. TypeLease'
  BY <1>1, <1>2 DEF TypeLease
<1>4. \A l \in Callers : l # k => holder[l] # c
  BY <1>1 DEF LeaseInv
<1>5. /\ holder'[k] = NoConn /\ pc'[k] \notin Holding
      /\ \A l \in Callers : l # k => holder'[l] = holder[l] /\ pc'[l] = pc[l]
      /\ \A d \in Conns : d # c => where'[d] = where[d]
  BY <1>1, <1>2 DEF TypeLease, TypeCall, Holding
<1>6. ASSUME NEW l \in Callers
      PROVE  /\ pc'[l] \in Holding <=> holder'[l] # NoConn
             /\ holder'[l] # NoConn => where'[holder'[l]] = "held"
  <2>1. CASE l = k
    BY <1>5, <2>1
  <2>2. CASE l # k
    BY <1>4, <1>5, <2>2 DEF TypeLease, LeaseInv
  <2> QED BY <2>1, <2>2
<1>7. \A l, m \in Callers : holder'[l] = holder'[m] /\ holder'[l] # NoConn => l = m
  BY <1>5 DEF LeaseInv
<1> QED BY <1>3, <1>6, <1>7 DEF LeaseInv

(* The pool moves connections nobody holds.                                 *)
LEMMA LeaseIdle ==
    ASSUME TypeLease, LeaseInv, UNCHANGED <<holder, pc>>,
           \A c \in Conns : where[c] = "held" => where'[c] = "held"
    PROVE  LeaseInv'
  BY DEF TypeLease, LeaseInv

(* Deadlines that a call leaves behind or that pass are deadlines.          *)
LEMMA DeadlineTypes ==
    ASSUME TypeWire, NEW k \in Callers
    PROVE  /\ LeftBehind(k, rdl) \in [Conns -> Deadlines]
           /\ LeftBehind(k, wdl) \in [Conns -> Deadlines]
           /\ Passed(k, rdl) \in [Conns -> Deadlines]
           /\ Passed(k, wdl) \in [Conns -> Deadlines]
  BY DEF TypeWire, LeftBehind, Passed, Deadlines

(* invoke returns.                                                          *)
LEMMA ReturnFacts ==
    ASSUME TypeCall, TypeWire, NEW k \in Callers, ReturnFromInvoke(k)
    PROVE  /\ Goto(k, "idle") /\ late' \in [Callers -> BOOLEAN]
           /\ rdl' \in [Conns -> Deadlines] /\ wdl' \in [Conns -> Deadlines]
<1>1. rdl' \in [Conns -> Deadlines] /\ wdl' \in [Conns -> Deadlines]
  BY DeadlineTypes DEF ReturnFromInvoke, Leave
<1>2. late' \in [Callers -> BOOLEAN]
  BY DEF ReturnFromInvoke, TypeCall
<1> QED BY <1>1, <1>2 DEF ReturnFromInvoke

(* The next round of the loop, or the return of the last error.             *)
LEMMA RetryFacts ==
    ASSUME TypeCall, TypeWire, NEW k \in Callers, NextRetry(k)
    PROVE  /\ \/ /\ Goto(k, "attempt") /\ retry' = [retry EXCEPT ![k] = retry[k] + 1]
                 /\ UNCHANGED <<late, rdl, wdl>>
              \/ Goto(k, "idle") /\ retry' = retry
           /\ retry' \in [Callers -> 0..MaxRetries] /\ late' \in [Callers -> BOOLEAN]
           /\ rdl' \in [Conns -> Deadlines] /\ wdl' \in [Conns -> Deadlines]
<1>1. CASE /\ retry[k] < MaxRetries /\ retry' = [retry EXCEPT ![k] = retry[k] + 1]
           /\ Goto(k, "attempt") /\ UNCHANGED <<late, rdl, wdl>>
  <2>1. retry' \in [Callers -> 0..MaxRetries]
    BY <1>1 DEF TypeCall
  <2> QED BY <1>1, <2>1 DEF TypeCall, TypeWire
<1>2. CASE ReturnFromInvoke(k) /\ UNCHANGED retry
  BY <1>2, ReturnFacts DEF TypeCall
<1> QED BY <1>1, <1>2 DEF NextRetry

(* The head of the loop, up to the test of closing.                         *)
LEMMA CoreAttempt ==
    ASSUME Core, NEW k \in Callers,
           \/ Invoke(k) \/ CtxDone(k) \/ NoServer(k) \/ NoConnection(k)
           \/ GetConnection(k) \/ CheckClosing(k)
    PROVE  Core'
<1>0. TypeLease /\ TypeClient /\ TypeCall /\ TypeWire /\ LeaseInv /\ StatsInv
      /\ MaxRetries \in Nat
  BY DEF Core
<1>1. CASE Invoke(k)
  <2>1. TypeCall'
    BY <1>0, <1>1 DEF Invoke, TypeCall, Pcs
  <2>2. LeaseInv'
    BY <1>0, <1>1, LeaseStays, Zenon DEF Invoke, Pcs, Holding
  <2>3. StatsInv'
    BY <1>0, <1>1 DEF Invoke, TypeCall, StatsInv
  <2>4. TypeLease' /\ TypeClient' /\ TypeWire'
    BY <1>0, <1>1 DEF Invoke, TypeLease, TypeClient, TypeWire
  <2> QED BY <2>1, <2>2, <2>3, <2>4 DEF Core
<1>2. CASE CtxDone(k)
  <2>1. /\ Goto(k, "idle") /\ late' \in [Callers -> BOOLEAN]
        /\ rdl' \in [Conns -> Deadlines] /\ wdl' \in [Conns -> Deadlines]
    BY <1>0, <1>2, ReturnFacts DEF CtxDone
  <2>2. TypeCall' /\ TypeWire'
    BY <1>0, <1>2, <2>1 DEF CtxDone, TypeCall, TypeWire, Pcs
  <2>3. LeaseInv'
    BY <1>0, <1>2, <2>1, LeaseStays, Zenon DEF CtxDone, Pcs, Holding
  <2>4. StatsInv'
    BY <1>0, <1>2, <2>1 DEF CtxDone, TypeCall, StatsInv
  <2>5. TypeLease' /\ TypeClient'
    BY <1>0, <1>2 DEF CtxDone, TypeLease, TypeClient
  <2> QED BY <2>2, <2>3, <2>4, <2>5 DEF Core
<1>3. CASE NoServer(k) \/ NoConnection(k)
  <2>1. pc[k] = "attempt" /\ NextRetry(k)
        /\ stats' \in {stats, [stats EXCEPT ![k] = stats[k] + 1]}
        /\ UNCHANGED <<where, holder, closing, pending, sequence, seq, got, requests,
                       responses, stream>>
    BY <1>3 DEF NoServer, NoConnection
  <2>2. /\ \/ Goto(k, "attempt") /\ retry' = [retry EXCEPT ![k] = retry[k] + 1]
           \/ Goto(k, "idle") /\ retry' = retry
        /\ retry' \in [Callers -> 0..MaxRetries] /\ late' \in [Callers -> BOOLEAN]
        /\ rdl' \in [Conns -> Deadlines] /\ wdl' \in [Conns -> Deadlines]
    BY <1>0, <2>1, RetryFacts
  <2>3. stats[k] <= retry[k] /\ stats' \in [Callers -> 0..MaxRetries + 1]
    BY <1>0, <2>1 DEF StatsInv, TypeCall
  <2>4. TypeCall' /\ TypeWire'
    BY <1>0, <2>1, <2>2, <2>3, Zenon DEF TypeCall, TypeWire, Pcs
  <2>5. LeaseInv'
    BY <1>0, <2>1, <2>2, LeaseStays DEF Pcs, Holding
  <2>6. StatsInv'
    BY <1>0, <2>1, <2>2, <2>3 DEF TypeCall, StatsInv
  <2>7. TypeLease' /\ TypeClient'
    BY <1>0, <2>1 DEF TypeLease, TypeClient
  <2> QED BY <2>4, <2>5, <2>6, <2>7 DEF Core
<1>4. CASE GetConnection(k)
  <2>1. PICK c \in Conns :
           /\ Pool!Lease(k, c)
           /\ \/ UNCHANGED <<rdl, stream>>
              \/ where[c] = "pool" /\ PingCheck(c)
    BY <1>4 DEF GetConnection
  <2>2. /\ pc[k] = "attempt" /\ Goto(k, "check") /\ seq' = [seq EXCEPT ![k] = 0]
        /\ stats' = [stats EXCEPT ![k] = stats[k] + 1]
        /\ UNCHANGED <<closing, pending, sequence, retry, got, late, requests, responses, wdl>>
    BY <1>4 DEF GetConnection
  <2>3. TypeLease' /\ LeaseInv'
    BY <1>0, <2>1, <2>2, LeaseTaken, Zenon
  <2>4. rdl' \in [Conns -> Deadlines] /\ stream' \in [Conns -> Streams]
    BY <1>0, <2>1, Zenon DEF PingCheck, TypeWire, Deadlines, Streams
  <2>5. stats[k] <= retry[k]
    BY <1>0, <2>2 DEF StatsInv
  <2>6. TypeCall' /\ TypeWire'
    BY <1>0, <2>2, <2>4, <2>5 DEF TypeCall, TypeWire, Pcs
  <2>7. StatsInv'
    BY <1>0, <2>2, <2>5 DEF TypeCall, StatsInv
  <2>8. TypeClient'
    BY <1>0, <2>2 DEF TypeClient
  <2> QED BY <2>3, <2>6, <2>7, <2>8 DEF Core
<1>5. CASE CheckClosing(k)
  <2>1. /\ pc[k] = "check"
        /\ \/ stats' = [stats EXCEPT ![k] = stats[k] - 1] /\ Goto(k, "giveup")
           \/ Goto(k, "send") /\ UNCHANGED stats
        /\ UNCHANGED <<leaseVars, clientVars, retry, seq, got, late, wireVars>>
    BY <1>5 DEF CheckClosing, EndStats
  <2>2. stats[k] \in 1..(retry[k] + 1)
    BY <1>0, <2>1 DEF StatsInv
  <2>3. stats' \in [Callers -> 0..MaxRetries + 1]
    BY <1>0, <2>1, <2>2 DEF TypeCall
  <2>4. TypeCall'
    BY <1>0, <2>1, <2>3 DEF TypeCall, Pcs
  <2>5. LeaseInv'
    BY <1>0, <2>1, LeaseStays DEF Pcs, Holding
  <2>6. StatsInv'
    BY <1>0, <2>1, <2>2 DEF TypeCall, StatsInv
  <2>7. TypeLease' /\ TypeClient' /\ TypeWire'
    BY <1>0, <2>1 DEF TypeLease, TypeClient, TypeWire
  <2> QED BY <2>4, <2>5, <2>6, <2>7 DEF Core
<1> QED BY <1>1, <1>2, <1>3, <1>4, <1>5

(* A socket that is closed on this side carries nothing any more.           *)
LEMMA CutFacts ==
    ASSUME TypeWire, NEW c \in Conns, CutOff(c)
    PROVE  /\ requests' \in [Conns -> SUBSET Seqs] /\ responses' \in [Conns -> Seq(Message)]
           /\ stream' \in [Conns -> Streams]
<1>1. {} \in SUBSET Seqs /\ <<>> \in Seq(Message) /\ "cut" \in Streams
  BY DEF Streams
<1> QED BY <1>1 DEF TypeWire, CutOff

(* The failed send: the connection is closed and forgotten.                 *)
LEMMA CoreSendFailed ==
    ASSUME Core, NEW k \in Callers, pc[k] \in {"send", "write"}, SendFailed(k),
           UNCHANGED <<closing, sequence, seq, got>>, pending' \subseteq pending
    PROVE  Core'
<1>0. TypeLease /\ TypeClient /\ TypeCall /\ TypeWire /\ LeaseInv /\ StatsInv
      /\ MaxRetries \in Nat
  BY DEF Core
<1>1. /\ Pool!Discard(k) /\ CutOff(holder[k]) /\ NextRetry(k)
      /\ stats' = [stats EXCEPT ![k] = stats[k] - 1]
  BY DEF SendFailed, EndStats
<1>2. /\ \/ Goto(k, "attempt") /\ retry' = [retry EXCEPT ![k] = retry[k] + 1]
         \/ Goto(k, "idle") /\ retry' = retry
      /\ retry' \in [Callers -> 0..MaxRetries] /\ late' \in [Callers -> BOOLEAN]
      /\ rdl' \in [Conns -> Deadlines] /\ wdl' \in [Conns -> Deadlines]
  BY <1>0, <1>1, RetryFacts
<1>3. holder[k] \in Conns
  BY <1>0 DEF TypeLease, LeaseInv, Holding
<1>4. stats[k] \in 1..(retry[k] + 1) /\ stats' \in [Callers -> 0..MaxRetries + 1]
  <2>1. stats[k] \in 1..(retry[k] + 1)
    BY <1>0 DEF StatsInv
  <2> QED BY <1>0, <1>1, <2>1 DEF TypeCall
<1>5. TypeLease' /\ LeaseInv'
  BY <1>0, <1>1, <1>2, LeaseEnds
<1>6. TypeClient'
  BY <1>0 DEF TypeClient
<1>7. TypeWire'
  BY <1>0, <1>1, <1>2, <1>3, CutFacts DEF TypeWire
<1>8. TypeCall'
  BY <1>0, <1>1, <1>2, <1>4 DEF TypeCall, Pcs
<1>9. StatsInv'
  BY <1>0, <1>1, <1>2, <1>4 DEF TypeCall, StatsInv
<1> QED BY <1>5, <1>6, <1>7, <1>8, <1>9 DEF Core

(* sendMsg.                                                                 *)
LEMMA CoreSend ==
    ASSUME Core, NumberInv, NEW k \in Callers,
           Register(k) \/ WriteSucceeds(k) \/ WriteFails(k)
    PROVE  Core'
<1>0. TypeLease /\ TypeClient /\ TypeCall /\ TypeWire /\ LeaseInv /\ StatsInv
      /\ MaxRetries \in Nat /\ MaxSeq \in Nat
  BY DEF Core
<1>1. CASE Register(k) /\ SendFailed(k) /\ UNCHANGED <<clientVars, seq, got>>
  BY <1>1, CoreSendFailed DEF Register
<1>2. CASE WriteFails(k)
  BY <1>2, CoreSendFailed DEF WriteFails
<1>3. CASE /\ pc[k] = "send" /\ sequence < MaxSeq /\ sequence' = sequence + 1
           /\ seq' = [seq EXCEPT ![k] = sequence + 1]
           /\ pending' = pending \cup {sequence + 1} /\ Goto(k, "write")
           /\ UNCHANGED <<leaseVars, closing, retry, got, late, stats, wireVars>>
  <2>1. TypeClient' /\ sequence + 1 \in 0..MaxSeq
    <3>1. sequence + 1 \in Seqs /\ sequence + 1 \in 0..MaxSeq
      BY <1>0, <1>3 DEF TypeClient, Seqs
    <3> QED BY <1>0, <1>3, <3>1 DEF TypeClient
  <2>2. TypeCall'
    BY <1>0, <1>3, <2>1 DEF TypeCall, Pcs
  <2>3. LeaseInv'
    BY <1>0, <1>3, LeaseStays, Zenon DEF Pcs, Holding
  <2>4. StatsInv'
    BY <1>0, <1>3 DEF TypeCall, StatsInv
  <2>5. TypeLease' /\ TypeWire'
    BY <1>0, <1>3 DEF TypeLease, TypeWire
  <2> QED BY <2>1, <2>2, <2>3, <2>4, <2>5 DEF Core
<1>4. CASE WriteSucceeds(k)
  <2> DEFINE c == holder[k]
  <2>1. /\ pc[k] = "write" /\ Goto(k, "recv")
        /\ wdl' = [wdl EXCEPT ![c] = OwnDeadline(k, wdl[c])]
        /\ rdl' = [rdl EXCEPT ![c] = OwnDeadline(k, rdl[c])]
        /\ requests' = [requests EXCEPT ![c] = requests[c] \cup {seq[k]}]
        /\ UNCHANGED <<leaseVars, clientVars, retry, seq, got, late, stats,
                       responses, stream>>
    BY <1>4 DEF WriteSucceeds
  <2>2. c \in Conns /\ seq[k] \in Seqs
    BY <1>0, <2>1 DEF TypeLease, TypeClient, LeaseInv, Holding, NumberInv, Seqs
  <2> HIDE DEF c
  <2>3. TypeWire'
    <3>1. OwnDeadline(k, wdl[c]) \in Deadlines /\ OwnDeadline(k, rdl[c]) \in Deadlines
      BY <1>0, <2>2 DEF TypeWire, OwnDeadline, Deadlines
    <3>2. requests[c] \cup {seq[k]} \in SUBSET Seqs
      BY <1>0, <2>2 DEF TypeWire
    <3> QED BY <1>0, <2>1, <3>1, <3>2, Zenon DEF TypeWire
  <2>4. TypeCall'
    BY <1>0, <2>1 DEF TypeCall, Pcs
  <2>5. LeaseInv'
    BY <1>0, <2>1, LeaseStays, Zenon DEF Pcs, Holding
  <2>6. StatsInv'
    BY <1>0, <2>1 DEF TypeCall, StatsInv
  <2>7. TypeLease' /\ TypeClient'
    BY <1>0, <2>1 DEF TypeLease, TypeClient
  <2> QED BY <2>3, <2>4, <2>5, <2>6, <2>7 DEF Core
<1> QED BY <1>1, <1>2, <1>3, <1>4 DEF Register, NextSeq

(* recvMsg, and the put after it.                                           *)
LEMMA CoreReceive ==
    ASSUME Core, NEW k \in Callers,
           DecodeFails(k) \/ ReceiveResponse(k) \/ PutAndGoOn(k) \/ GiveUp(k) \/ PutPanics(k)
    PROVE  Core'
<1>0. TypeLease /\ TypeClient /\ TypeCall /\ TypeWire /\ LeaseInv /\ StatsInv
      /\ MaxRetries \in Nat /\ MaxSeq \in Nat
  BY DEF Core
<1>1. CASE DecodeFails(k)
  <2>1. /\ pc[k] = "recv" /\ Goto(k, "put")
        /\ UNCHANGED <<leaseVars, clientVars, retry, seq, got, late, stats,
                       requests, responses, rdl, wdl>>
    BY <1>1 DEF DecodeFails
  <2>2. stream' \in [Conns -> Streams]
    <3>1. stream' = stream \/ stream' = [stream EXCEPT ![holder[k]] = "garbled"]
      BY <1>1 DEF DecodeFails
    <3> QED BY <1>0, <3>1 DEF TypeWire, Streams
  <2>3. TypeCall' /\ TypeWire'
    BY <1>0, <2>1, <2>2 DEF TypeCall, TypeWire, Pcs
  <2>4. LeaseInv'
    BY <1>0, <2>1, LeaseStays, Zenon DEF Pcs, Holding
  <2>5. StatsInv'
    BY <1>0, <2>1 DEF TypeCall, StatsInv
  <2>6. TypeLease' /\ TypeClient'
    BY <1>0, <2>1 DEF TypeLease, TypeClient
  <2> QED BY <2>3, <2>4, <2>5, <2>6 DEF Core
<1>2. CASE ReceiveResponse(k)
  <2> DEFINE c == holder[k]
             m == Head(responses[c])
  <2>1. /\ pc[k] = "recv" /\ Goto(k, "put") /\ responses[c] # <<>>
        /\ responses' = [responses EXCEPT ![c] = Tail(responses[c])]
        /\ pending' = pending \ {m.seq}
        /\ got' = got \/ got' = [got EXCEPT ![k] = m.seq]
        /\ UNCHANGED <<leaseVars, closing, sequence, retry, seq, late, stats,
                       requests, stream, rdl, wdl>>
    BY <1>2 DEF ReceiveResponse
  <2>2. c \in Conns
    BY <1>0, <2>1 DEF TypeLease, LeaseInv, Holding
  <2>3. responses[c] \in Seq(Message)
    BY <1>0, <2>2 DEF TypeWire
  <2>4. Tail(responses[c]) \in Seq(Message) /\ m \in Message
    BY <2>1, <2>3
  <2> HIDE DEF c, m
  <2>5. m.seq \in 0..MaxSeq
    BY <1>0, <2>4 DEF Message, Seqs
  <2>6. TypeClient'
    BY <1>0, <2>1 DEF TypeClient
  <2>7. TypeCall'
    BY <1>0, <2>1, <2>5, Zenon DEF TypeCall, Pcs
  <2>8. TypeWire'
    BY <1>0, <2>1, <2>4, Zenon DEF TypeWire
  <2>9. LeaseInv'
    BY <1>0, <2>1, LeaseStays, Zenon DEF Pcs, Holding
  <2>10. StatsInv'
    BY <1>0, <2>1 DEF TypeCall, StatsInv
  <2>11. TypeLease'
    BY <1>0, <2>1 DEF TypeLease
  <2> QED BY <2>6, <2>7, <2>8, <2>9, <2>10, <2>11 DEF Core
<1>3. CASE PutAndGoOn(k)
  <2>1. /\ pc[k] = "put" /\ (Pool!Return(k) \/ Pool!Discard(k))
        /\ stats' = [stats EXCEPT ![k] = stats[k] - 1]
        /\ (ReturnFromInvoke(k) /\ UNCHANGED retry) \/ NextRetry(k)
        /\ UNCHANGED <<clientVars, seq, got, requests, responses, stream>>
    BY <1>3 DEF PutAndGoOn, PutConn, EndStats
  <2>2. /\ \/ Goto(k, "attempt") /\ retry' = [retry EXCEPT ![k] = retry[k] + 1]
           \/ Goto(k, "idle") /\ retry' = retry
        /\ retry' \in [Callers -> 0..MaxRetries] /\ late' \in [Callers -> BOOLEAN]
        /\ rdl' \in [Conns -> Deadlines] /\ wdl' \in [Conns -> Deadlines]
    <3>1. CASE NextRetry(k)
      BY <1>0, <3>1, RetryFacts
    <3>2. CASE ReturnFromInvoke(k) /\ UNCHANGED retry
      BY <1>0, <3>2, ReturnFacts DEF TypeCall
    <3> QED BY <2>1, <3>1, <3>2
  <2>3. stats[k] \in 1..(retry[k] + 1) /\ stats' \in [Callers -> 0..MaxRetries + 1]
    <3>1. stats[k] \in 1..(retry[k] + 1)
      BY <1>0, <2>1 DEF StatsInv
    <3> QED BY <1>0, <2>1, <3>1 DEF TypeCall
  <2>4. TypeLease' /\ LeaseInv'
    BY <1>0, <2>1, <2>2, LeaseEnds
  <2>5. TypeCall' /\ TypeWire'
    BY <1>0, <2>1, <2>2, <2>3, Zenon DEF TypeCall, TypeWire, Pcs
  <2>6. StatsInv'
    BY <1>0, <2>1, <2>2, <2>3 DEF TypeCall, StatsInv
  <2>7. TypeClient'
    BY <1>0, <2>1 DEF TypeClient
  <2> QED BY <2>4, <2>5, <2>6, <2>7 DEF Core
<1>4. CASE GiveUp(k)
  <2>1. /\ pc[k] = "giveup" /\ (Pool!Return(k) \/ Pool!Discard(k))
        /\ ReturnFromInvoke(k)
        /\ UNCHANGED <<clientVars, retry, seq, got, stats, requests, responses, stream>>
    BY <1>4 DEF GiveUp, PutConn
  <2>2. /\ Goto(k, "idle") /\ late' \in [Callers -> BOOLEAN]
        /\ rdl' \in [Conns -> Deadlines] /\ wdl' \in [Conns -> Deadlines]
    BY <1>0, <2>1, ReturnFacts
  <2>3. TypeLease' /\ LeaseInv'
    BY <1>0, <2>1, <2>2, LeaseEnds, Zenon
  <2>4. TypeCall' /\ TypeWire'
    BY <1>0, <2>1, <2>2 DEF TypeCall, TypeWire, Pcs
  <2>5. StatsInv'
    BY <1>0, <2>1, <2>2 DEF TypeCall, StatsInv
  <2>6. TypeClient'
    BY <1>0, <2>1 DEF TypeClient
  <2> QED BY <2>3, <2>4, <2>5, <2>6 DEF Core
<1>5. CASE PutPanics(k)
  <2>1. TypeCall'
    BY <1>0, <1>5 DEF PutPanics, TypeCall, Pcs
  <2>2. LeaseInv'
    BY <1>0, <1>5, LeaseStays, Zenon DEF PutPanics, Pcs, Holding
  <2>3. StatsInv'
    BY <1>0, <1>5 DEF PutPanics, TypeCall, StatsInv
  <2>4. TypeLease' /\ TypeClient' /\ TypeWire'
    BY <1>0, <1>5 DEF PutPanics, TypeLease, TypeClient, TypeWire
  <2> QED BY <2>1, <2>2, <2>3, <2>4 DEF Core
<1> QED BY <1>1, <1>2, <1>3, <1>4, <1>5

(* The rest: Close, the pool, time and the server.                          *)
LEMMA CoreRest ==
    ASSUME Core,
           \/ \E k \in Callers : Expire(k)
           \/ CloseClient \/ PoolDials \/ PoolDrops \/ OldDeadlinePasses \/ Answer \/ HangUp
    PROVE  Core'
<1>0. TypeLease /\ TypeClient /\ TypeCall /\ TypeWire /\ LeaseInv /\ StatsInv
  BY DEF Core
<1>a. ASSUME UNCHANGED callVars
      PROVE  TypeCall' /\ StatsInv'
  BY <1>0, <1>a DEF TypeCall, StatsInv
<1>b. ASSUME UNCHANGED <<leaseVars, callVars>>
      PROVE  TypeLease' /\ LeaseInv'
  BY <1>0, <1>b, LeaseIdle DEF TypeLease
<1>1. ASSUME NEW k \in Callers, Expire(k)
      PROVE  Core'
  <2>1. TypeWire'
    BY <1>0, <1>1, DeadlineTypes DEF Expire, TypeWire
  <2>2. TypeCall'
    BY <1>0, <1>1 DEF Expire, TypeCall
  <2>3. LeaseInv' /\ StatsInv' /\ TypeLease' /\ TypeClient'
    BY <1>0, <1>1 DEF Expire, LeaseInv, StatsInv, TypeLease, TypeClient
  <2> QED BY <2>1, <2>2, <2>3 DEF Core
<1>2. CASE CloseClient
  <2>1. PICK S \in SUBSET {c \in Conns : where[c] \in {"pool", "held"}} :
           /\ Pool!Drop({c \in S : where[c] = "pool"})
           /\ stream' = [c \in Conns |-> IF c \in S THEN "cut" ELSE stream[c]]
           /\ requests' = [c \in Conns |-> IF c \in S THEN {} ELSE requests[c]]
           /\ responses' = [c \in Conns |-> IF c \in S THEN <<>> ELSE responses[c]]
    BY <1>2, Zenon DEF CloseClient
  <2>2. TypeWire'
    <3>1. <<>> \in Seq(Message) /\ {} \in SUBSET Seqs /\ "cut" \in Streams
      BY DEF Streams
    <3>2. stream' \in [Conns -> Streams]
      BY <1>0, <2>1, <3>1 DEF TypeWire
    <3>3. requests' \in [Conns -> SUBSET Seqs]
      BY <1>0, <2>1, <3>1 DEF TypeWire
    <3>4. responses' \in [Conns -> Seq(Message)]
      BY <1>0, <2>1, <3>1 DEF TypeWire
    <3> QED BY <1>0, <1>2, <3>2, <3>3, <3>4 DEF CloseClient, TypeWire
  <2>3. TypeClient'
    BY <1>0, <1>2 DEF CloseClient, TypeClient
  <2>4. /\ where' = [c \in Conns |-> IF c \in {d \in S : where[d] = "pool"}
                                      THEN "gone" ELSE where[c]]
        /\ holder' = holder
    BY <2>1 DEF Pool!Drop
  <2>5. TypeLease' /\ \A c \in Conns : where[c] = "held" => where'[c] = "held"
    BY <1>0, <2>4 DEF TypeLease, Pool!Places
  <2>6. LeaseInv'
    BY <1>0, <1>2, <2>4, <2>5, LeaseIdle DEF CloseClient
  <2>7. TypeCall' /\ StatsInv'
    BY <1>a, <1>2 DEF CloseClient
  <2> QED BY <2>2, <2>3, <2>5, <2>6, <2>7 DEF Core
<1>3. CASE PoolDials
  <2>1. PICK c \in Conns : where[c] = "unborn" /\ where' = [where EXCEPT ![c] = "pool"]
                            /\ holder' = holder
    BY <1>3, Zenon DEF PoolDials, Pool!Dial
  <2>2. TypeLease' /\ \A d \in Conns : where[d] = "held" => where'[d] = "held"
    BY <1>0, <2>1 DEF TypeLease, Pool!Places
  <2>3. LeaseInv'
    BY <1>0, <1>3, <2>1, <2>2, LeaseIdle DEF PoolDials
  <2>4. TypeCall' /\ StatsInv' /\ TypeClient' /\ TypeWire'
    BY <1>0, <1>a, <1>3 DEF PoolDials, TypeClient, TypeWire
  <2> QED BY <2>2, <2>3, <2>4 DEF Core
<1>4. CASE PoolDrops
  <2>1. PICK c \in Conns : Pool!Drop({c}) /\ CutOff(c)
    BY <1>4 DEF PoolDrops
  <2>2. /\ where[c] = "pool" /\ holder' = holder
        /\ where' = [d \in Conns |-> IF d \in {c} THEN "gone" ELSE where[d]]
    BY <2>1 DEF Pool!Drop
  <2>3. TypeLease' /\ \A d \in Conns : where[d] = "held" => where'[d] = "held"
    BY <1>0, <2>2 DEF TypeLease, Pool!Places
  <2>4. LeaseInv'
    BY <1>0, <1>4, <2>2, <2>3, LeaseIdle DEF PoolDrops
  <2>5. TypeWire'
    BY <1>0, <1>4, <2>1, CutFacts DEF PoolDrops, TypeWire
  <2>6. TypeCall' /\ StatsInv' /\ TypeClient'
    BY <1>0, <1>a, <1>4 DEF PoolDrops, TypeClient
  <2> QED BY <2>3, <2>4, <2>5, <2>6 DEF Core
<1>5. CASE OldDeadlinePasses
  <2>1. PICK c \in Conns :
           /\ wdl' = [wdl EXCEPT ![c] = "past"]
           /\ rdl' = [rdl EXCEPT ![c] = IF rdl[c] = "future" THEN "past" ELSE rdl[c]]
    BY <1>5, Zenon DEF OldDeadlinePasses
  <2>2. TypeWire'
    BY <1>0, <1>5, <2>1 DEF OldDeadlinePasses, TypeWire, Deadlines
  <2>3. TypeCall' /\ StatsInv' /\ TypeLease' /\ LeaseInv' /\ TypeClient'
    BY <1>0, <1>a, <1>b, <1>5 DEF OldDeadlinePasses, TypeClient
  <2> QED BY <2>2, <2>3 DEF Core
<1>6. CASE Answer
  <2>0. PICK c \in Conns, kind \in Kinds : \E s \in requests[c] :
           /\ requests' = [requests EXCEPT ![c] = requests[c] \ {s}]
           /\ responses' = [responses EXCEPT ![c] =
                               Append(responses[c], [seq |-> s, kind |-> kind])]
    BY <1>6, Zenon DEF Answer
  <2>1. PICK s \in requests[c] :
           /\ requests' = [requests EXCEPT ![c] = requests[c] \ {s}]
           /\ responses' = [responses EXCEPT ![c] =
                               Append(responses[c], [seq |-> s, kind |-> kind])]
    BY <2>0, Zenon
  <2>2. TypeWire'
    <3>1. s \in Seqs /\ responses[c] \in Seq(Message)
      BY <1>0 DEF TypeWire
    <3>2. [seq |-> s, kind |-> kind] \in Message
      BY <3>1 DEF Message
    <3>3. Append(responses[c], [seq |-> s, kind |-> kind]) \in Seq(Message)
      BY <3>1, <3>2
    <3>4. requests[c] \ {s} \in SUBSET Seqs
      BY <1>0 DEF TypeWire
    <3> QED BY <1>0, <1>6, <2>1, <3>3, <3>4, Zenon DEF Answer, TypeWire
  <2>3. TypeCall' /\ StatsInv' /\ TypeLease' /\ LeaseInv' /\ TypeClient'
    BY <1>0, <1>a, <1>b, <1>6 DEF Answer, TypeClient
  <2> QED BY <2>2, <2>3 DEF Core
<1>7. CASE HangUp
  <2>1. PICK c \in Conns :
           /\ stream' = [stream EXCEPT ![c] = "cut"]
           /\ requests' = [requests EXCEPT ![c] = {}]
           /\ responses' = responses \/ responses' = [responses EXCEPT ![c] = <<>>]
    BY <1>7, Zenon DEF HangUp
  <2>2. TypeWire'
    <3>1. <<>> \in Seq(Message) /\ {} \in SUBSET Seqs /\ "cut" \in Streams
      BY DEF Streams
    <3>2. stream' \in [Conns -> Streams] /\ requests' \in [Conns -> SUBSET Seqs]
      BY <1>0, <2>1, <3>1 DEF TypeWire
    <3>3. responses' \in [Conns -> Seq(Message)]
      BY <1>0, <2>1, <3>1, Zenon DEF TypeWire
    <3> QED BY <1>0, <1>7, <3>2, <3>3, Zenon DEF HangUp, TypeWire
  <2>3. TypeCall' /\ StatsInv' /\ TypeLease' /\ LeaseInv' /\ TypeClient'
    BY <1>0, <1>a, <1>b, <1>7 DEF HangUp, TypeClient
  <2> QED BY <2>2, <2>3 DEF Core
<1> QED BY <1>1, <1>2, <1>3, <1>4, <1>5, <1>6, <1>7

(* Initially nobody calls and nothing is dialled.                           *)
LEMMA CoreInit == Init => Core
<1> SUFFICES ASSUME Init
             PROVE  Core
  OBVIOUS
<1>1. where = [c \in Conns |-> "unborn"] /\ holder = [k \in Callers |-> NoConn]
  BY DEF Init, Pool!Init
<1>2. TypeLease
  BY <1>1 DEF TypeLease, Pool!Places
<1>3. TypeClient
  <2>1. closing \in BOOLEAN
    BY Zenon DEF Init
  <2> QED BY <2>1 DEF Init, TypeClient
<1>4. TypeCall
  <2>1. 0 \in 0..MaxRetries /\ 0 \in 0..MaxSeq /\ 0 \in 0..MaxRetries + 1 /\ "idle" \in Pcs
    BY DEF Pcs
  <2>2. late \in [Callers -> BOOLEAN]
    BY DEF Init
  <2> QED BY <2>1, <2>2 DEF Init, TypeCall
<1>5. TypeWire
  <2>1. /\ <<>> \in Seq(Message) /\ {} \in SUBSET Seqs /\ "whole" \in Streams
        /\ "none" \in Deadlines
    BY DEF Streams, Deadlines
  <2> QED BY <2>1 DEF Init, TypeWire
<1>6. LeaseInv /\ StatsInv
  BY <1>1 DEF Init, LeaseInv, StatsInv, Holding
<1> QED BY <1>2, <1>3, <1>4, <1>5, <1>6 DEF Core

(* Every step keeps types, leases and stats.                                *)
LEMMA CoreNext ==
    ASSUME Core, NumberInv, [Next]_vars
    PROVE  Core'
<1>1. CASE Next
  BY <1>1, CoreAttempt, CoreSend, CoreReceive, CoreRest DEF Next, InvokeStep
<1>2. CASE UNCHANGED vars
  BY <1>2 DEF vars, Core, TypeLease, TypeClient, TypeCall, TypeWire, LeaseInv, StatsInv
<1> QED BY <1>1, <1>2

-----------------------------------------------------------------------------
(* The numbers on the way.                                                  *)

(* A connection that carries nothing.                                       *)
LEMMA NumbersEmpty == Numbers(<<>>) = {} /\ Distinct(<<>>)
  BY DEF Numbers, Distinct

(* Reading a response takes its number off the connection.                  *)
LEMMA NumbersTail ==
    ASSUME NEW s \in Seq(Message), s # <<>>, Distinct(s)
    PROVE  /\ Head(s).seq \in Numbers(s) /\ Distinct(Tail(s))
           /\ Numbers(Tail(s)) = Numbers(s) \ {Head(s).seq}
<1>1. /\ Head(s) = s[1] /\ 1 \in DOMAIN s /\ Len(s) \in Nat
      /\ DOMAIN s = 1..Len(s) /\ DOMAIN Tail(s) = 1..(Len(s) - 1)
      /\ \A i \in 1..(Len(s) - 1) : Tail(s)[i] = s[i+1]
  OBVIOUS
<1>2. \A i \in 1..(Len(s) - 1) : i+1 \in DOMAIN s /\ i+1 # 1
  BY <1>1
<1>3. \A i \in DOMAIN s : i # 1 => i-1 \in 1..(Len(s) - 1) /\ Tail(s)[i-1] = s[i]
  BY <1>1
<1>4. Head(s).seq \in Numbers(s)
  BY <1>1 DEF Numbers
<1>5. Distinct(Tail(s))
  <2> SUFFICES ASSUME NEW i \in 1..(Len(s) - 1), NEW j \in 1..(Len(s) - 1),
                      s[i+1].seq = s[j+1].seq
               PROVE  i = j
    BY <1>1 DEF Distinct
  <2>1. i+1 = j+1
    BY <1>2 DEF Distinct
  <2> QED BY <2>1
<1>6. ASSUME NEW n \in Numbers(Tail(s))
      PROVE  n \in Numbers(s) \ {Head(s).seq}
  <2>1. PICK i \in 1..(Len(s) - 1) : n = s[i+1].seq
    BY <1>1 DEF Numbers
  <2>2. n # s[1].seq
    BY <1>1, <1>2, <2>1 DEF Distinct
  <2> QED BY <1>1, <1>2, <2>1, <2>2 DEF Numbers
<1>7. ASSUME NEW n \in Numbers(s) \ {Head(s).seq}
      PROVE  n \in Numbers(Tail(s))
  <2>1. PICK i \in DOMAIN s : n = s[i].seq
    BY DEF Numbers
  <2>2. i # 1
    BY <1>1, <2>1
  <2> QED BY <1>1, <1>3, <2>1, <2>2, Zenon DEF Numbers
<1> QED BY <1>4, <1>5, <1>6, <1>7

(* An answer puts its number on the connection.                             *)
LEMMA NumbersAppend ==
    ASSUME NEW s \in Seq(Message), NEW m \in Message
    PROVE  /\ Numbers(Append(s, m)) = Numbers(s) \cup {m.seq}
           /\ Distinct(s) /\ m.seq \notin Numbers(s) => Distinct(Append(s, m))
<1> DEFINE t == Append(s, m)
<1>1. /\ Len(s) \in Nat /\ DOMAIN s = 1..Len(s) /\ DOMAIN t = 1..(Len(s) + 1)
      /\ \A i \in 1..Len(s) : t[i] = s[i]
      /\ t[Len(s) + 1] = m
  OBVIOUS
<1> HIDE DEF t
<1>2. \A i \in DOMAIN t : i = Len(s) + 1 \/ i \in DOMAIN s
  BY <1>1
<1>3. Len(s) + 1 \in DOMAIN t /\ \A i \in DOMAIN s : i \in DOMAIN t
  BY <1>1
<1>4. Numbers(t) \subseteq Numbers(s) \cup {m.seq}
  BY <1>1, <1>2 DEF Numbers
<1>5. Numbers(s) \cup {m.seq} \subseteq Numbers(t)
  BY <1>1, <1>3 DEF Numbers
<1>6. Distinct(s) /\ m.seq \notin Numbers(s) => Distinct(t)
  BY <1>1, <1>2 DEF Distinct, Numbers
<1> QED BY <1>4, <1>5, <1>6 DEF t

(* What AnswersExpected says, in terms of numbers.                          *)
LEMMA ExpectedNumbers ==
    AnswersExpected <=> (~closing => \A c \in Conns : OnTheWay(c) \subseteq pending)
  BY DEF AnswersExpected, OnTheWay, Numbers

Unneeded(n) ==
    /\ \A c \in Conns : n \notin OnTheWay(c)
    /\ \A k \in Callers : pc'[k] = "write" => seq'[k] # n

(* Steps that put nothing on the way and delete only entries that nothing   *)
(* on the way needs.                                                        *)
LEMMA NumberShrinks ==
    ASSUME NumberInv,
           \A c \in Conns : /\ requests'[c] \subseteq requests[c]
                             /\ responses'[c] \in {responses[c], <<>>},
           sequence' = sequence,
           \A k \in Callers : pc'[k] = "write" => pc[k] = "write" /\ seq'[k] = seq[k],
           ~closing' => ~closing /\ \A n \in pending : n \in pending' \/ Unneeded(n)
    PROVE  NumberInv'
<1>1. \A c \in Conns : OnTheWay(c)' \subseteq OnTheWay(c)
  BY NumbersEmpty DEF OnTheWay
<1>2. \A c \in Conns : OnTheWay(c)' \subseteq 1..sequence'
  BY <1>1 DEF NumberInv
<1>3. \A c, d \in Conns : c # d => OnTheWay(c)' \cap OnTheWay(d)' = {}
  BY <1>1 DEF NumberInv
<1>4. \A c \in Conns : /\ requests'[c] \cap Numbers(responses'[c]) = {}
                        /\ Distinct(responses'[c])
  BY NumbersEmpty DEF NumberInv
<1>5. \A k \in Callers : pc'[k] = "write" =>
         /\ seq'[k] \in 1..sequence'
         /\ \A c \in Conns : seq'[k] \notin OnTheWay(c)'
  BY <1>1 DEF NumberInv
<1>6. \A k, l \in Callers :
         pc'[k] = "write" /\ pc'[l] = "write" /\ seq'[k] = seq'[l] => k = l
  BY DEF NumberInv
<1>7. ~closing' => \A k \in Callers : pc'[k] = "write" => seq'[k] \in pending'
  BY DEF NumberInv, Unneeded
<1>8. ~closing' => \A c \in Conns : OnTheWay(c)' \subseteq pending'
  BY <1>1, ExpectedNumbers DEF NumberInv, Unneeded
<1>9. AnswersExpected'
  BY <1>8 DEF AnswersExpected, OnTheWay, Numbers
<1> QED BY <1>2, <1>3, <1>4, <1>5, <1>6, <1>7, <1>9 DEF NumberInv

(* sendMsg gives the call a number that is on no connection.                *)
LEMMA NumberRegister ==
    ASSUME Core, NumberInv, NEW k \in Callers, pc[k] = "send", Goto(k, "write"),
           sequence' = sequence + 1, seq' = [seq EXCEPT ![k] = sequence + 1],
           pending' = pending \cup {sequence + 1},
           UNCHANGED <<closing, requests, responses>>
    PROVE  NumberInv'
<1>0. sequence \in Nat /\ pc \in [Callers -> Pcs] /\ seq \in [Callers -> 0..MaxSeq]
  BY DEF Core, TypeClient, TypeCall
<1>1. \A c \in Conns : OnTheWay(c)' = OnTheWay(c)
  BY DEF OnTheWay
<1>2. sequence + 1 \notin 1..sequence /\ 1..sequence \subseteq 1..(sequence + 1)
      /\ sequence + 1 \in 1..(sequence + 1)
  BY <1>0
<1>3. /\ pc'[k] = "write" /\ seq'[k] = sequence + 1
      /\ \A l \in Callers : l # k => pc'[l] = pc[l] /\ seq'[l] = seq[l]
  BY <1>0
<1>4. \A c \in Conns : OnTheWay(c)' \subseteq 1..sequence'
  BY <1>1, <1>2 DEF NumberInv
<1>5. ASSUME NEW l \in Callers, pc'[l] = "write"
      PROVE  /\ seq'[l] \in 1..sequence'
             /\ \A c \in Conns : seq'[l] \notin OnTheWay(c)'
             /\ ~closing' => seq'[l] \in pending'
  <2>1. CASE l = k
    BY <1>1, <1>2, <1>3, <2>1 DEF NumberInv
  <2>2. CASE l # k
    BY <1>1, <1>2, <1>3, <1>5, <2>2 DEF NumberInv
  <2> QED BY <2>1, <2>2
<1>6. \A l, m \in Callers :
         pc'[l] = "write" /\ pc'[m] = "write" /\ seq'[l] = seq'[m] => l = m
  BY <1>2, <1>3 DEF NumberInv
<1>7. ~closing' => \A c \in Conns : OnTheWay(c)' \subseteq pending'
  BY <1>1, ExpectedNumbers DEF NumberInv
<1>8. AnswersExpected'
  BY <1>7 DEF AnswersExpected, OnTheWay, Numbers
<1>9. /\ \A c, d \in Conns : c # d => OnTheWay(c)' \cap OnTheWay(d)' = {}
      /\ \A c \in Conns : /\ requests'[c] \cap Numbers(responses'[c]) = {}
                           /\ Distinct(responses'[c])
  BY <1>1 DEF NumberInv
<1> QED BY <1>4, <1>5, <1>6, <1>8, <1>9 DEF NumberInv

(* A written request is on the way on the writer's connection only.         *)
LEMMA NumberWrite ==
    ASSUME Core, NumberInv, NEW k \in Callers, WriteSucceeds(k)
    PROVE  NumberInv'
<1>0. holder[k] \in Conns
  BY DEF WriteSucceeds, Core, TypeLease, LeaseInv, Holding
<1>a. PICK c \in Conns : c = holder[k]
  BY <1>0
<1>b. PICK n \in {seq[k]} : TRUE
  OBVIOUS
<1>1. /\ pc[k] = "write" /\ pc' = [pc EXCEPT ![k] = "recv"]
      /\ requests' = [requests EXCEPT ![c] = requests[c] \cup {n}]
      /\ UNCHANGED <<closing, pending, sequence, seq, responses>>
  BY <1>a, <1>b, Zenon DEF WriteSucceeds
<1>2. pc \in [Callers -> Pcs] /\ requests \in [Conns -> SUBSET Seqs]
  BY DEF Core, TypeCall, TypeWire
<1>3. /\ n \in 1..sequence /\ \A d \in Conns : n \notin OnTheWay(d)
      /\ ~closing => n \in pending
      /\ \A l \in Callers : l # k /\ pc[l] = "write" => seq[l] # n
  BY <1>b, <1>1 DEF NumberInv
<1>4. OnTheWay(c)' = OnTheWay(c) \cup {n} /\ \A d \in Conns : d # c => OnTheWay(d)' = OnTheWay(d)
  BY <1>1, <1>2 DEF OnTheWay
<1>5. \A l \in Callers : pc'[l] = "write" => l # k /\ pc[l] = "write"
  BY <1>1, <1>2
<1>6. \A d \in Conns : OnTheWay(d)' \subseteq 1..sequence'
  BY <1>1, <1>3, <1>4, SMTT(30) DEF NumberInv
<1>7. \A d, e \in Conns : d # e => OnTheWay(d)' \cap OnTheWay(e)' = {}
  <2> SUFFICES ASSUME NEW d \in Conns, NEW e \in Conns, d # e
               PROVE  OnTheWay(d)' \cap OnTheWay(e)' = {}
    OBVIOUS
  <2>1. OnTheWay(d) \cap OnTheWay(e) = {} /\ n \notin OnTheWay(d) /\ n \notin OnTheWay(e)
    BY <1>3, Zenon DEF NumberInv
  <2>2. CASE d = c
    <3>1. OnTheWay(d)' = OnTheWay(d) \cup {n} /\ OnTheWay(e)' = OnTheWay(e)
      BY <1>4, <2>2, Zenon
    <3> QED BY <2>1, <3>1, Zenon
  <2>3. CASE e = c
    <3>1. OnTheWay(e)' = OnTheWay(e) \cup {n} /\ OnTheWay(d)' = OnTheWay(d)
      BY <1>4, <2>3, Zenon
    <3> QED BY <2>1, <3>1, Zenon
  <2>4. CASE d # c /\ e # c
    BY <1>4, <2>1, <2>4, Zenon
  <2> QED BY <2>2, <2>3, <2>4, Zenon
<1>8. \A d \in Conns : /\ requests'[d] \cap Numbers(responses'[d]) = {}
                        /\ Distinct(responses'[d])
  BY <1>1, <1>2, <1>3 DEF NumberInv, OnTheWay
<1>9. \A l \in Callers : pc'[l] = "write" =>
         /\ seq'[l] \in 1..sequence'
         /\ \A d \in Conns : seq'[l] \notin OnTheWay(d)'
         /\ ~closing' => seq'[l] \in pending'
  BY <1>1, <1>3, <1>4, <1>5 DEF NumberInv
<1>10. \A l, m \in Callers :
          pc'[l] = "write" /\ pc'[m] = "write" /\ seq'[l] = seq'[m] => l = m
  BY <1>1, <1>5 DEF NumberInv
<1>11. ~closing' => \A d \in Conns : OnTheWay(d)' \subseteq pending'
  BY <1>1, <1>3, <1>4, ExpectedNumbers DEF NumberInv
<1>12. AnswersExpected'
  BY <1>11 DEF AnswersExpected, OnTheWay, Numbers
<1> QED BY <1>6, <1>7, <1>8, <1>9, <1>10, <1>12 DEF NumberInv

(* The number that recvMsg reads was on the way on the caller's connection, *)
(* once.                                                                    *)
LEMMA ReceiveFacts ==
    ASSUME Core, NumberInv, NEW k \in Callers, ReceiveResponse(k)
    PROVE  \E c \in Conns, n \in Seqs :
              /\ c = holder[k] /\ n = Head(responses[c]).seq
              /\ OnTheWay(c)' = OnTheWay(c) \ {n} /\ n \in OnTheWay(c)
              /\ \A d \in Conns : d # c => OnTheWay(d)' = OnTheWay(d)
              /\ \A d \in Conns : /\ requests'[d] \cap Numbers(responses'[d]) = {}
                                   /\ Distinct(responses'[d])
<1>0. holder[k] \in Conns
  BY DEF ReceiveResponse, Core, TypeLease, LeaseInv, Holding
<1>a. PICK c \in Conns : c = holder[k]
  BY <1>0
<1>b. PICK n \in {Head(responses[c]).seq} : TRUE
  OBVIOUS
<1>1. /\ responses[c] # <<>> /\ requests' = requests
      /\ responses' = [responses EXCEPT ![c] = Tail(responses[c])]
  BY <1>a, Zenon DEF ReceiveResponse
<1>2. responses \in [Conns -> Seq(Message)]
  BY DEF Core, TypeWire
<1>3. Distinct(responses[c]) /\ requests[c] \cap Numbers(responses[c]) = {}
  BY DEF NumberInv
<1>4. responses[c] \in Seq(Message) /\ n \in Seqs
  <2>1. responses[c] \in Seq(Message)
    BY <1>2
  <2>2. Head(responses[c]) \in Message
    BY <1>1, <2>1
  <2> QED BY <1>b, <2>1, <2>2 DEF Message
<1>5. /\ n \in Numbers(responses[c]) /\ Distinct(Tail(responses[c]))
      /\ Numbers(Tail(responses[c])) = Numbers(responses[c]) \ {n}
  BY <1>b, <1>1, <1>3, <1>4, NumbersTail
<1>6. responses'[c] = Tail(responses[c]) /\ \A d \in Conns : d # c => responses'[d] = responses[d]
  BY <1>1, <1>2
<1>7. /\ OnTheWay(c)' = OnTheWay(c) \ {n} /\ n \in OnTheWay(c)
      /\ \A d \in Conns : d # c => OnTheWay(d)' = OnTheWay(d)
  BY <1>1, <1>2, <1>3, <1>5, <1>6 DEF OnTheWay
<1>8. \A d \in Conns : /\ requests'[d] \cap Numbers(responses'[d]) = {}
                        /\ Distinct(responses'[d])
  BY <1>1, <1>5, <1>6 DEF NumberInv
<1> QED BY <1>a, <1>b, <1>4, <1>7, <1>8, SMTT(30)

(* recvMsg deletes the entry of the response it has read, and that number   *)
(* is on the way nowhere else.                                              *)
LEMMA NumberReceive ==
    ASSUME Core, NumberInv, NEW k \in Callers, ReceiveResponse(k)
    PROVE  NumberInv'
<1>0. PICK c \in Conns, n \in Seqs :
         /\ c = holder[k] /\ n = Head(responses[c]).seq
         /\ OnTheWay(c)' = OnTheWay(c) \ {n} /\ n \in OnTheWay(c)
         /\ \A d \in Conns : d # c => OnTheWay(d)' = OnTheWay(d)
         /\ \A d \in Conns : /\ requests'[d] \cap Numbers(responses'[d]) = {}
                              /\ Distinct(responses'[d])
  BY ReceiveFacts
<1>1. /\ pc' = [pc EXCEPT ![k] = "put"] /\ pending' = pending \ {n}
      /\ UNCHANGED <<closing, sequence, seq, requests>>
  BY <1>0 DEF ReceiveResponse
<1>2. pc \in [Callers -> Pcs]
  BY DEF Core, TypeCall
<1>8. \A l \in Callers : pc'[l] = "write" => pc[l] = "write"
  BY <1>1, <1>2
<1>9. \A d \in Conns : OnTheWay(d)' \subseteq 1..sequence'
  BY <1>1, <1>0 DEF NumberInv
<1>10. \A d, e \in Conns : d # e => OnTheWay(d)' \cap OnTheWay(e)' = {}
  BY <1>0 DEF NumberInv
<1>11. \A d \in Conns : /\ requests'[d] \cap Numbers(responses'[d]) = {}
                         /\ Distinct(responses'[d])
  BY <1>0
<1>12. ASSUME NEW l \in Callers, pc'[l] = "write"
       PROVE  /\ seq'[l] \in 1..sequence'
              /\ \A d \in Conns : seq'[l] \notin OnTheWay(d)'
              /\ ~closing' => seq'[l] \in pending'
  <2>1. /\ seq[l] \in 1..sequence /\ \A d \in Conns : seq[l] \notin OnTheWay(d)
        /\ ~closing => seq[l] \in pending
    BY <1>8, <1>12 DEF NumberInv
  <2>2. seq[l] # n
    BY <1>0, <2>1
  <2>3. \A d \in Conns : OnTheWay(d)' \subseteq OnTheWay(d)
    BY <1>0
  <2> QED BY <1>1, <2>1, <2>2, <2>3
<1>13. \A l, m \in Callers :
          pc'[l] = "write" /\ pc'[m] = "write" /\ seq'[l] = seq'[m] => l = m
  BY <1>1, <1>8 DEF NumberInv
<1>a. ~closing => \A d \in Conns : OnTheWay(d) \subseteq pending
  BY ExpectedNumbers DEF NumberInv
<1>b. \A d \in Conns : n \notin OnTheWay(d)'
  <2>1. \A d \in Conns : d # c => n \notin OnTheWay(d)
    BY <1>0 DEF NumberInv
  <2> QED BY <1>0, <2>1
<1>c. \A d \in Conns : OnTheWay(d)' \subseteq OnTheWay(d)
  BY <1>0
<1>14. ~closing' => \A d \in Conns : OnTheWay(d)' \subseteq pending'
  BY <1>1, <1>a, <1>b, <1>c
<1>15. AnswersExpected'
  BY <1>14 DEF AnswersExpected, OnTheWay, Numbers
<1> QED BY <1>9, <1>10, <1>11, <1>12, <1>13, <1>15 DEF NumberInv

(* An answered request becomes a response: its number stays on the way.     *)
LEMMA NumberAnswer ==
    ASSUME Core, NumberInv, Answer
    PROVE  NumberInv' /\ \A d \in Conns : OnTheWay(d)' = OnTheWay(d)
<1>1. PICK c \in Conns, kind \in Kinds : \E s \in requests[c] :
         /\ requests' = [requests EXCEPT ![c] = requests[c] \ {s}]
         /\ responses' = [responses EXCEPT ![c] =
                             Append(responses[c], [seq |-> s, kind |-> kind])]
  BY Zenon DEF Answer
<1>2. PICK n \in requests[c] :
         /\ requests' = [requests EXCEPT ![c] = requests[c] \ {n}]
         /\ responses' = [responses EXCEPT ![c] =
                             Append(responses[c], [seq |-> n, kind |-> kind])]
  BY <1>1, Zenon
<1> DEFINE m == [seq |-> n, kind |-> kind]
<1>3. /\ requests \in [Conns -> SUBSET Seqs] /\ responses \in [Conns -> Seq(Message)]
      /\ UNCHANGED <<closing, pending, sequence, pc, seq>>
  BY DEF Core, TypeWire, Answer
<1>4. n \in Seqs /\ responses[c] \in Seq(Message) /\ requests[c] \in SUBSET Seqs
  BY <1>3
<1>5. m \in Message /\ m.seq = n
  BY <1>4 DEF Message
<1>6. n \notin Numbers(responses[c]) /\ Distinct(responses[c])
      /\ requests[c] \cap Numbers(responses[c]) = {}
  BY DEF NumberInv
<1>7. /\ Numbers(Append(responses[c], m)) = Numbers(responses[c]) \cup {n}
      /\ Distinct(Append(responses[c], m))
  BY <1>4, <1>5, <1>6, NumbersAppend
<1>8. responses'[c] = Append(responses[c], m) /\ requests'[c] = requests[c] \ {n}
      /\ \A d \in Conns : d # c => responses'[d] = responses[d] /\ requests'[d] = requests[d]
  BY <1>2, <1>3
<1> HIDE DEF m
<1>9. \A d \in Conns : OnTheWay(d)' = OnTheWay(d)
  BY <1>7, <1>8, Zenon DEF OnTheWay
<1>10. \A d \in Conns : /\ requests'[d] \cap Numbers(responses'[d]) = {}
                         /\ Distinct(responses'[d])
  BY <1>6, <1>7, <1>8, Zenon DEF NumberInv
<1>11. ~closing' => \A d \in Conns : OnTheWay(d)' \subseteq pending'
  BY <1>3, <1>9, ExpectedNumbers DEF NumberInv
<1>12. AnswersExpected'
  BY <1>11 DEF AnswersExpected, OnTheWay, Numbers
<1> QED BY <1>3, <1>9, <1>10, <1>12 DEF NumberInv

(* At first nothing is on the way.                                          *)
LEMMA NumberInit == Init => NumberInv
<1> SUFFICES ASSUME Init
             PROVE  NumberInv
  OBVIOUS
<1>1. \A c \in Conns : /\ OnTheWay(c) = {} /\ requests[c] = {} /\ Distinct(responses[c])
  BY NumbersEmpty DEF Init, OnTheWay
<1>2. \A k \in Callers : pc[k] # "write"
  BY DEF Init
<1>3. AnswersExpected
  BY <1>1, ExpectedNumbers
<1> QED BY <1>1, <1>2, <1>3 DEF NumberInv

(* Every step keeps the numbers apart.                                      *)
LEMMA NumberNext ==
    ASSUME Core, NumberInv, [Next]_vars
    PROVE  NumberInv'
<1>0. /\ pc \in [Callers -> Pcs] /\ seq \in [Callers -> 0..MaxSeq]
      /\ requests \in [Conns -> SUBSET Seqs] /\ responses \in [Conns -> Seq(Message)]
  BY DEF Core, TypeCall, TypeWire
<1>a. ASSUME NEW k \in Callers, NEW s \in Pcs \ {"write"}, pc' = [pc EXCEPT ![k] = s],
             \A l \in Callers \ {k} : seq'[l] = seq[l],
             UNCHANGED <<clientVars, requests, responses>>
      PROVE  NumberInv'
  <2>1. \A l \in Callers : pc'[l] = "write" => pc[l] = "write" /\ seq'[l] = seq[l]
    BY <1>0, <1>a
  <2> QED BY <1>a, <2>1, NumberShrinks
<1>b. ASSUME NEW c \in Conns, CutOff(c)
      PROVE  \A d \in Conns : /\ requests'[d] \subseteq requests[d]
                               /\ responses'[d] \in {responses[d], <<>>}
  BY <1>0, <1>b DEF CutOff
<1>c. ASSUME NEW k \in Callers, SendFailed(k), pc[k] \in {"send", "write"}
      PROVE  /\ \A d \in Conns : /\ requests'[d] \subseteq requests[d]
                                  /\ responses'[d] \in {responses[d], <<>>}
             /\ \E s \in {"idle", "attempt"} : pc' = [pc EXCEPT ![k] = s]
  <2>1. holder[k] \in Conns
    BY <1>c DEF Core, TypeLease, LeaseInv, Holding
  <2>2. \E s \in {"idle", "attempt"} : pc' = [pc EXCEPT ![k] = s]
    BY <1>c DEF SendFailed, NextRetry, ReturnFromInvoke
  <2> QED BY <1>b, <1>c, <2>1, <2>2, Zenon DEF SendFailed
<1>1. ASSUME NEW k \in Callers,
             Invoke(k) \/ CtxDone(k) \/ NoServer(k) \/ NoConnection(k)
             \/ GetConnection(k) \/ CheckClosing(k)
      PROVE  NumberInv'
  <2>1. \E s \in {"idle", "attempt", "check", "giveup", "send"} : pc' = [pc EXCEPT ![k] = s]
    BY <1>1 DEF Invoke, CtxDone, NoServer, NoConnection, GetConnection, CheckClosing,
       NextRetry, ReturnFromInvoke
  <2>2. \A l \in Callers \ {k} : seq'[l] = seq[l]
    BY <1>0, <1>1 DEF Invoke, CtxDone, NoServer, NoConnection, GetConnection, CheckClosing
  <2>3. UNCHANGED <<clientVars, requests, responses>>
    BY <1>1 DEF Invoke, CtxDone, NoServer, NoConnection, GetConnection, CheckClosing
  <2> QED BY <1>a, <2>1, <2>2, <2>3, Zenon DEF Pcs
<1>2. ASSUME NEW k \in Callers,
             DecodeFails(k) \/ PutAndGoOn(k) \/ GiveUp(k) \/ PutPanics(k)
      PROVE  NumberInv'
  <2>1. \E s \in {"idle", "attempt", "put", "panic"} : pc' = [pc EXCEPT ![k] = s]
    BY <1>2, Zenon DEF DecodeFails, PutAndGoOn, GiveUp, PutPanics, NextRetry, ReturnFromInvoke
  <2>2. UNCHANGED <<clientVars, requests, responses, seq>>
    BY <1>2, Zenon DEF DecodeFails, PutAndGoOn, GiveUp, PutPanics
  <2> QED BY <1>a, <2>1, <2>2, Zenon DEF Pcs
<1>3. ASSUME NEW k \in Callers, Register(k)
      PROVE  NumberInv'
  <2>1. CASE SendFailed(k) /\ UNCHANGED <<clientVars, seq, got>>
    <3>1. pc[k] = "send"
      BY <1>3, SMTT(30) DEF Register
    <3>2. \A l \in Callers : pc'[l] = "write" => pc[l] = "write" /\ seq'[l] = seq[l]
      BY <1>0, <1>c, <2>1, <3>1
    <3> QED BY <1>c, <2>1, <3>1, <3>2, NumberShrinks, Zenon
  <2>2. CASE ~(SendFailed(k) /\ UNCHANGED <<clientVars, seq, got>>)
    BY <1>3, <2>2, NumberRegister DEF Register, NextSeq
  <2> QED BY <2>1, <2>2
<1>4. ASSUME NEW k \in Callers, WriteFails(k)
      PROVE  NumberInv'
  <2>1. pc[k] = "write" /\ SendFailed(k) /\ pending' = pending \ {seq[k]}
        /\ UNCHANGED <<closing, sequence, seq>>
    BY <1>4 DEF WriteFails
  <2>2. \A l \in Callers : pc'[l] = "write" => pc[l] = "write" /\ seq'[l] = seq[l] /\ l # k
    BY <1>0, <1>c, <2>1
  <2>3. Unneeded(seq[k])
    BY <2>1, <2>2 DEF NumberInv, Unneeded
  <2> QED BY <1>c, <2>1, <2>2, <2>3, NumberShrinks
<1>5. ASSUME NEW k \in Callers, WriteSucceeds(k) \/ ReceiveResponse(k)
      PROVE  NumberInv'
  BY <1>5, NumberWrite, NumberReceive
<1>6. CASE Answer
  BY <1>6, NumberAnswer
<1>7. CASE CloseClient
  <2>1. \A d \in Conns : /\ requests'[d] \subseteq requests[d]
                          /\ responses'[d] \in {responses[d], <<>>}
    BY <1>7 DEF CloseClient
  <2> QED BY <1>7, <2>1, NumberShrinks DEF CloseClient
<1>8. CASE PoolDrops
  <2>1. \A d \in Conns : /\ requests'[d] \subseteq requests[d]
                          /\ responses'[d] \in {responses[d], <<>>}
    BY <1>b, <1>8 DEF PoolDrops
  <2> QED BY <1>8, <2>1, NumberShrinks DEF PoolDrops
<1>9. CASE HangUp
  <2>1. \A d \in Conns : /\ requests'[d] \subseteq requests[d]
                          /\ responses'[d] \in {responses[d], <<>>}
    BY <1>0, <1>9 DEF HangUp
  <2> QED BY <1>9, <2>1, NumberShrinks DEF HangUp
<1>10. CASE PoolDials \/ OldDeadlinePasses \/ UNCHANGED vars
            \/ \E k \in Callers : Expire(k)
  <2>1. UNCHANGED <<clientVars, pc, seq, requests, responses>>
    BY <1>10 DEF PoolDials, OldDeadlinePasses, Expire, vars
  <2> QED BY <2>1, NumberShrinks
<1> QED BY <1>1, <1>2, <1>3, <1>4, <1>5, <1>6, <1>7, <1>8, <1>9, <1>10
       DEF Next, InvokeStep

(* The invariant holds initially.                                           *)
LEMMA CallInvInit == Init => CallInv
  BY CoreInit, NumberInit DEF CallInv

(* It is inductive.                                                         *)
LEMMA CallInvNext == CallInv /\ [Next]_vars => CallInv'
  BY CoreNext, NumberNext DEF CallInv

(* Every reachable state satisfies the inductive invariant.                 *)
THEOREM CallInvariance == Spec => []CallInv
  BY CallInvInit, CallInvNext, PTL DEF Spec

(* Every variable of the calls keeps its type, the attempts of an           *)
(* invocation that are reported begun and not ended included.               *)
THEOREM CallTypeCorrect == Spec => []TypeOK
<1>1. CallInv => TypeOK
  BY TypeGroups DEF CallInv, Core
<1> QED BY <1>1, CallInvariance, PTL

(* No caller outside invoke holds a connection, whichever path its last     *)
(* invocation took.                                                         *)
THEOREM ReturnedHolds == Spec => []ReturnedHoldsNothing
<1>1. CallInv => ReturnedHoldsNothing
  BY SMTT(30) DEF CallInv, Core, LeaseInv, ReturnedHoldsNothing, Holding
<1> QED BY <1>1, CallInvariance, PTL

(* Until Close, every answer that is on its way finds its entry in          *)
(* c.pending, whatever deadlines, lost connections and failed writes there  *)
(* have been.                                                               *)
THEOREM ExpectedAnswers == Spec => []AnswersExpected
<1>1. CallInv => AnswersExpected
  BY DEF CallInv, NumberInv
<1> QED BY <1>1, CallInvariance, PTL

(* No step adds to c.pending once Close has dropped it.                     *)
THEOREM PendingStaysNil == Spec => NilPendingNotWritten
<1>1. CallInv /\ [Next]_vars => [closing => pending' \subseteq pending]_vars
  <2> SUFFICES ASSUME [Next]_vars, closing
               PROVE  pending' \subseteq pending
    OBVIOUS
  <2>1. ASSUME NEW k \in Callers, Invoke(k) \/ InvokeStep(k) \/ Expire(k)
        PROVE  pending' \subseteq pending
    <3>1. CASE Invoke(k) \/ Expire(k) \/ CtxDone(k) \/ NoServer(k) \/ NoConnection(k)
               \/ GetConnection(k) \/ CheckClosing(k) \/ GiveUp(k)
      BY <3>1, Zenon DEF Invoke, Expire, CtxDone, NoServer, NoConnection, GetConnection,
         CheckClosing, GiveUp
    <3>2. CASE Register(k)
      BY <3>2 DEF Register, CanRegister
    <3>3. CASE WriteSucceeds(k) \/ WriteFails(k) \/ DecodeFails(k) \/ ReceiveResponse(k)
               \/ PutAndGoOn(k) \/ PutPanics(k)
      BY <3>3, Zenon DEF WriteSucceeds, WriteFails, DecodeFails, ReceiveResponse, PutAndGoOn, PutPanics
    <3> QED BY <2>1, <3>1, <3>2, <3>3, Zenon DEF InvokeStep
  <2>2. CASE CloseClient \/ PoolDials \/ PoolDrops \/ OldDeadlinePasses \/ Answer \/ HangUp
             \/ UNCHANGED vars
    BY <2>2, Zenon DEF CloseClient, PoolDials, PoolDrops, OldDeadlinePasses, Answer, HangUp, vars
  <2> QED BY <2>1, <2>2 DEF Next
<1> QED BY <1>1, CallInvariance, PTL DEF Spec, NilPendingNotWritten

-----------------------------------------------------------------------------
(* Calls without deadlines.                                                 *)

NoDeadlines == \A c \in Conns : rdl[c] = "none" /\ wdl[c] = "none"

(* What the invariant says of a connection nobody holds, and of the one a   *)
(* caller holds.                                                            *)
FreeIsEmpty(c) == stream[c] # "garbled" /\ where[c] # "held" => OnTheWay(c) = {}
HeldIsOwn(k) ==
    pc[k] \in Holding /\ stream[holder[k]] # "garbled" =>
        IF pc[k] = "recv" THEN OnTheWay(holder[k]) \subseteq {seq[k]}
                          ELSE OnTheWay(holder[k]) = {}

(* EmptyInv in these terms.                                                 *)
LEMMA EmptyParts ==
    EmptyInv <=> /\ NoDeadlines
                 /\ \A c \in Conns : stream[c] = "cut" => requests[c] = {}
                 /\ \A c \in Conns : FreeIsEmpty(c)
                 /\ \A k \in Callers : HeldIsOwn(k)
  BY Zenon DEF EmptyInv, NoDeadlines, FreeIsEmpty, HeldIsOwn

(* No step sets a deadline on a connection.                                 *)
LEMMA NoDeadlineSet ==
    ASSUME Timed = {}, Core, NoDeadlines, [Next]_vars
    PROVE  NoDeadlines'
<1>0. rdl \in [Conns -> Deadlines] /\ wdl \in [Conns -> Deadlines]
      /\ \A k \in Callers : k # "none"
  BY DEF Core, TypeWire
<1>1. ASSUME NEW k \in Callers
      PROVE  \A c \in Conns : LeftBehind(k, rdl)[c] = "none" /\ LeftBehind(k, wdl)[c] = "none"
  BY <1>0 DEF LeftBehind, NoDeadlines
<1>2. ASSUME NEW k \in Callers, ReturnFromInvoke(k) \/ UNCHANGED <<rdl, wdl>>
      PROVE  NoDeadlines'
  BY <1>1, <1>2 DEF ReturnFromInvoke, Leave, NoDeadlines
<1>3. ASSUME NEW k \in Callers, GetConnection(k)
      PROVE  NoDeadlines'
  <2>1. wdl' = wdl /\ (rdl' = rdl \/ \E c \in Conns : rdl' = [rdl EXCEPT ![c] = "none"])
    BY <1>3 DEF GetConnection, PingCheck
  <2> QED BY <1>0, <2>1 DEF NoDeadlines
<1>4. ASSUME NEW k \in Callers, WriteSucceeds(k)
      PROVE  NoDeadlines'
  <2>1. /\ wdl' = [wdl EXCEPT ![holder[k]] = wdl[holder[k]]]
        /\ rdl' = [rdl EXCEPT ![holder[k]] = rdl[holder[k]]]
    BY <1>4 DEF WriteSucceeds, OwnDeadline
  <2>2. wdl' = wdl /\ rdl' = rdl
    BY <1>0, <2>1
  <2> QED BY <2>2 DEF NoDeadlines
<1>5. ASSUME NEW k \in Callers,
             Invoke(k) \/ CtxDone(k) \/ NoServer(k) \/ NoConnection(k)
             \/ CheckClosing(k) \/ Register(k) \/ WriteFails(k) \/ DecodeFails(k)
             \/ ReceiveResponse(k) \/ PutAndGoOn(k) \/ GiveUp(k) \/ PutPanics(k)
      PROVE  NoDeadlines'
  BY <1>2, <1>5, Zenon DEF Invoke, CtxDone, NoServer, NoConnection, CheckClosing, Register,
     WriteFails, SendFailed, DecodeFails, ReceiveResponse, PutAndGoOn, GiveUp, PutPanics,
     NextRetry
<1>6. ~(\E k \in Callers : Expire(k)) /\ ~OldDeadlinePasses
  BY DEF Expire, OldDeadlinePasses, NoDeadlines
<1>7. CASE CloseClient \/ PoolDials \/ PoolDrops \/ Answer \/ HangUp \/ UNCHANGED vars
  BY <1>7, Zenon DEF CloseClient, PoolDials, PoolDrops, Answer, HangUp, vars, NoDeadlines
<1> QED BY <1>3, <1>4, <1>5, <1>6, <1>7 DEF Next, InvokeStep

(* What a caller that holds a connection knows of the others.               *)
LEMMA HolderFacts ==
    ASSUME Core, NEW k \in Callers, pc[k] \in Holding
    PROVE  /\ holder[k] \in Conns /\ where[holder[k]] = "held"
           /\ \A l \in Callers : l # k => holder[l] # holder[k]
  BY SMTT(30) DEF Core, TypeLease, LeaseInv

(* A step of one caller that touches one connection, its own: the others    *)
(* keep what is known of theirs.                                            *)
LEMMA EmptyCaller ==
    ASSUME Core, Core', EmptyInv, NoDeadlines', NEW k \in Callers, NEW c \in Conns,
           holder[k] \in {c, NoConn}, holder'[k] \in {c, NoConn},
           \A l \in Callers : l # k =>
              pc'[l] = pc[l] /\ seq'[l] = seq[l] /\ holder'[l] = holder[l],
           \A d \in Conns : d # c =>
              /\ where'[d] = where[d] /\ stream'[d] = stream[d]
              /\ requests'[d] = requests[d] /\ OnTheWay(d)' = OnTheWay(d),
           \A l \in Callers : l # k => holder[l] # c,
           stream'[c] = "cut" => requests'[c] = {},
           FreeIsEmpty(c)', HeldIsOwn(k)'
    PROVE  EmptyInv'
<1>1. \A d \in Conns : stream'[d] = "cut" => requests'[d] = {}
  BY SMTT(30) DEF EmptyInv
<1>2. \A d \in Conns : FreeIsEmpty(d)'
  BY EmptyParts DEF FreeIsEmpty
<1>3. ASSUME NEW l \in Callers
      PROVE  HeldIsOwn(l)'
  <2>1. CASE l = k
    BY <2>1, SMTT(30)
  <2>2. CASE l # k
    <3>1. HeldIsOwn(l)
      BY EmptyParts, Zenon
    <3>2. pc[l] \in Holding => holder[l] \in Conns
      BY HolderFacts, Zenon
    <3>3. PICK d \in {holder[l]} : TRUE
      BY ZenonT(60)
    <3>4. holder'[l] = d /\ holder[l] = d /\ d # c /\ pc'[l] = pc[l] /\ seq'[l] = seq[l]
      BY <2>2, <3>3, ZenonT(60)
    <3>5. pc[l] \in Holding => stream'[d] = stream[d] /\ OnTheWay(d)' = OnTheWay(d)
      BY <3>2, <3>4, SMTT(30)
    <3> QED BY <3>1, <3>4, <3>5 DEF HeldIsOwn, OnTheWay
  <2> QED BY <2>1, <2>2
<1> QED BY <1>1, <1>2, <1>3 DEF EmptyInv, NoDeadlines, FreeIsEmpty, HeldIsOwn

(* A step of the server, the pool or Close: streams are only cut and        *)
(* emptied, and a held connection stays held.                               *)
LEMMA EmptyWire ==
    ASSUME Core, EmptyInv, NoDeadlines', UNCHANGED <<holder, pc, seq>>,
           \A c \in Conns : where'[c] # "held" => where[c] # "held",
           \A c \in Conns : stream'[c] # "garbled" =>
              \/ OnTheWay(c)' = {}
              \/ stream[c] # "garbled" /\ OnTheWay(c)' \subseteq OnTheWay(c),
           \A c \in Conns : stream'[c] = "cut" => requests'[c] = {}
    PROVE  EmptyInv'
<1>1. \A c \in Conns : FreeIsEmpty(c)'
  BY EmptyParts, Zenon DEF FreeIsEmpty
<1>2. ASSUME NEW l \in Callers
      PROVE  HeldIsOwn(l)'
  <2>1. HeldIsOwn(l)
    BY EmptyParts
  <2>2. pc[l] \in Holding => holder[l] \in Conns
    BY DEF Core, TypeLease, LeaseInv
  <2>3. PICK d \in {holder[l]} : TRUE
    OBVIOUS
  <2>4. pc[l] \in Holding /\ stream'[d] # "garbled" =>
           \/ OnTheWay(d)' = {}
           \/ stream[d] # "garbled" /\ OnTheWay(d)' \subseteq OnTheWay(d)
    BY <2>2, <2>3
  <2> QED BY <2>1, <2>3, <2>4, Zenon DEF HeldIsOwn, OnTheWay
<1> QED BY <1>1, <1>2 DEF EmptyInv, NoDeadlines, FreeIsEmpty, HeldIsOwn

(* A caller moves on without touching a connection.                         *)
LEMMA EmptyStill ==
    ASSUME Core, EmptyInv, NoDeadlines', NEW k \in Callers,
           \A l \in Callers : l # k => pc'[l] = pc[l] /\ seq'[l] = seq[l],
           pc'[k] \in Holding => pc[k] \in Holding /\ pc[k] # "recv" /\ pc'[k] # "recv",
           UNCHANGED <<where, holder, stream, requests, responses>>
    PROVE  EmptyInv'
<1>1. \A c \in Conns : FreeIsEmpty(c)'
  BY EmptyParts DEF FreeIsEmpty, OnTheWay
<1>2. ASSUME NEW l \in Callers
      PROVE  HeldIsOwn(l)'
  <2>1. HeldIsOwn(l)
    BY EmptyParts
  <2>2. CASE l = k
    BY <2>1, <2>2, ZenonT(60) DEF HeldIsOwn, OnTheWay
  <2>3. CASE l # k
    BY <2>1, <2>3 DEF HeldIsOwn, OnTheWay
  <2> QED BY <2>2, <2>3
<1> QED BY <1>1, <1>2 DEF EmptyInv, NoDeadlines, FreeIsEmpty, HeldIsOwn

(* A caller that takes a connection from the pool finds it empty; pingCheck *)
(* garbles it only if it is not.                                            *)
LEMMA EmptyGet ==
    ASSUME Core, Core', EmptyInv, NoDeadlines', NEW k \in Callers, GetConnection(k)
    PROVE  EmptyInv'
<1>1. PICK c \in Conns :
         /\ Pool!Lease(k, c)
         /\ stream' = stream \/ stream' = [stream EXCEPT ![c] = "garbled"]
  BY Zenon DEF GetConnection, PingCheck
<1>2. /\ pc' = [pc EXCEPT ![k] = "check"] /\ seq' = [seq EXCEPT ![k] = 0]
      /\ UNCHANGED <<requests, responses>>
  BY DEF GetConnection
<1>3. /\ holder[k] = NoConn /\ where[c] # "held"
      /\ where' = [where EXCEPT ![c] = "held"] /\ holder' = [holder EXCEPT ![k] = c]
  BY <1>1 DEF Pool!Lease
<1>4. /\ where \in [Conns -> Pool!Places] /\ holder \in [Callers -> Conns \cup {NoConn}]
      /\ pc \in [Callers -> Pcs] /\ seq \in [Callers -> 0..MaxSeq]
      /\ stream \in [Conns -> Streams]
  BY DEF Core, TypeLease, TypeCall, TypeWire
<1>5. /\ pc'[k] = "check" /\ holder'[k] = c /\ where'[c] = "held"
      /\ \A l \in Callers : l # k =>
            pc'[l] = pc[l] /\ seq'[l] = seq[l] /\ holder'[l] = holder[l]
  BY <1>2, <1>3, <1>4
<1>6. \A d \in Conns : d # c => where'[d] = where[d] /\ stream'[d] = stream[d]
  BY <1>1, <1>3, <1>4
<1>6a. /\ \A d \in Conns : requests'[d] = requests[d]
       /\ \A d \in Conns : OnTheWay(d)' = OnTheWay(d)
  BY <1>2 DEF OnTheWay
<1>7. stream'[c] # "garbled" => stream'[c] = stream[c]
  BY <1>1, <1>4
<1>8. \A l \in Callers : l # k => holder[l] # c
  BY <1>3 DEF Core, LeaseInv
<1>9. FreeIsEmpty(c)'
  BY <1>5 DEF FreeIsEmpty
<1>10. FreeIsEmpty(c)
  BY EmptyParts
<1>11. HeldIsOwn(k)'
  BY <1>3, <1>5, <1>6a, <1>7, <1>10 DEF HeldIsOwn, FreeIsEmpty
<1>12. stream'[c] = "cut" => requests'[c] = {}
  BY <1>6a, <1>7 DEF EmptyInv
<1> QED BY <1>3, <1>5, <1>6, <1>6a, <1>8, <1>9, <1>11, <1>12, EmptyCaller, Zenon

(* A failed send leaves nothing on the connection.                          *)
LEMMA EmptySendFailed ==
    ASSUME Core, Core', EmptyInv, NoDeadlines', NEW k \in Callers,
           pc[k] \in {"send", "write"}, SendFailed(k), seq' = seq
    PROVE  EmptyInv'
<1>0. pc[k] \in Holding
  BY DEF Holding
<1>1. PICK c \in Conns : c = holder[k] /\ \A l \in Callers : l # k => holder[l] # c
  BY <1>0, HolderFacts
<1>2. /\ stream' = [stream EXCEPT ![c] = "cut"] /\ requests' = [requests EXCEPT ![c] = {}]
      /\ responses' = [responses EXCEPT ![c] = <<>>]
      /\ where' = [where EXCEPT ![c] = "gone"] /\ holder' = [holder EXCEPT ![k] = NoConn]
  BY <1>1 DEF SendFailed, CutOff, Pool!Discard
<1>3. PICK s \in {"idle", "attempt"} : pc' = [pc EXCEPT ![k] = s]
  BY DEF SendFailed, NextRetry, ReturnFromInvoke
<1>4. /\ where \in [Conns -> Pool!Places] /\ holder \in [Callers -> Conns \cup {NoConn}]
      /\ pc \in [Callers -> Pcs] /\ stream \in [Conns -> Streams]
      /\ requests \in [Conns -> SUBSET Seqs] /\ responses \in [Conns -> Seq(Message)]
  BY DEF Core, TypeLease, TypeCall, TypeWire
<1>5. /\ requests'[c] = {} /\ responses'[c] = <<>> /\ holder'[k] = NoConn
      /\ pc'[k] \notin Holding
      /\ \A l \in Callers : l # k => pc'[l] = pc[l] /\ holder'[l] = holder[l]
      /\ \A d \in Conns : d # c =>
            /\ where'[d] = where[d] /\ stream'[d] = stream[d]
            /\ requests'[d] = requests[d] /\ responses'[d] = responses[d]
  BY <1>2, <1>3, <1>4 DEF Holding
<1>6. OnTheWay(c)' = {} /\ \A d \in Conns : d # c => OnTheWay(d)' = OnTheWay(d)
  BY <1>5, NumbersEmpty DEF OnTheWay
<1>7. FreeIsEmpty(c)' /\ HeldIsOwn(k)'
  BY <1>5, <1>6 DEF FreeIsEmpty, HeldIsOwn
<1> QED BY <1>1, <1>5, <1>6, <1>7, EmptyCaller, Zenon

(* A caller that puts its connection back, or closes it in put, has read    *)
(* all there was, or the connection is garbled.                             *)
LEMMA EmptyPut ==
    ASSUME Core, Core', EmptyInv, NoDeadlines', NEW k \in Callers,
           pc[k] \in {"put", "giveup"}, Pool!Return(k) \/ Pool!Discard(k),
           NEW s \in {"idle", "attempt"}, pc' = [pc EXCEPT ![k] = s],
           UNCHANGED <<seq, requests, responses, stream>>
    PROVE  EmptyInv'
<1>0. pc[k] \in Holding /\ pc[k] # "recv"
  BY DEF Holding
<1>1. PICK c \in Conns : c = holder[k] /\ \A l \in Callers : l # k => holder[l] # c
  BY <1>0, HolderFacts
<1>2. /\ \A d \in Conns : d # c => where'[d] = where[d]
      /\ holder' = [holder EXCEPT ![k] = NoConn]
  BY <1>1 DEF Pool!Return, Pool!Discard, Core, TypeLease
<1>3. /\ holder'[k] = NoConn /\ pc'[k] \notin Holding
      /\ \A l \in Callers : l # k => pc'[l] = pc[l] /\ holder'[l] = holder[l]
  BY <1>2 DEF Core, TypeLease, TypeCall, Holding
<1>4. \A d \in Conns : OnTheWay(d)' = OnTheWay(d)
  BY DEF OnTheWay
<1>5. stream[c] # "garbled" => OnTheWay(c) = {}
  BY <1>0, <1>1, EmptyParts DEF HeldIsOwn
<1>6. FreeIsEmpty(c)' /\ HeldIsOwn(k)'
  BY <1>3, <1>4, <1>5 DEF FreeIsEmpty, HeldIsOwn
<1>7. stream'[c] = "cut" => requests'[c] = {}
  BY SMTT(30) DEF EmptyInv
<1> QED BY <1>1, <1>2, <1>3, <1>4, <1>6, <1>7, EmptyCaller

(* Once its request is written, a caller can read only its own answer.      *)
LEMMA EmptyWrite ==
    ASSUME Core, Core', EmptyInv, NoDeadlines', NEW k \in Callers, WriteSucceeds(k)
    PROVE  EmptyInv'
<1>0. pc[k] = "write" /\ pc[k] \in Holding
  BY DEF Holding, WriteSucceeds
<1>1. PICK c \in Conns : c = holder[k] /\ \A l \in Callers : l # k => holder[l] # c
  BY <1>0, HolderFacts
<1>2. /\ stream[c] # "cut" /\ requests' = [requests EXCEPT ![c] = @ \cup {seq[k]}]
      /\ pc' = [pc EXCEPT ![k] = "recv"] /\ UNCHANGED <<where, holder, seq, responses, stream>>
  BY <1>1, SMTT(30) DEF WriteSucceeds
<1>3. /\ pc'[k] = "recv" /\ requests'[c] = requests[c] \cup {seq[k]}
      /\ \A l \in Callers : l # k => pc'[l] = pc[l]
      /\ \A d \in Conns : d # c => requests'[d] = requests[d]
  BY <1>2, ZenonT(60) DEF Core, TypeCall, TypeWire
<1>4. \A d \in Conns : d # c => OnTheWay(d)' = OnTheWay(d)
  BY <1>2, <1>3 DEF OnTheWay
<1>5. OnTheWay(c)' = OnTheWay(c) \cup {seq[k]}
  BY <1>2, <1>3 DEF OnTheWay
<1>6. where'[c] = "held" /\ holder'[k] = c
  BY <1>0, <1>1, <1>2, HolderFacts
<1>7. stream[c] # "garbled" => OnTheWay(c) = {}
  BY <1>0, <1>1, EmptyParts DEF HeldIsOwn
<1>8. FreeIsEmpty(c)'
  BY <1>6 DEF FreeIsEmpty
<1>9. HeldIsOwn(k)'
  BY <1>1, <1>2, <1>3, <1>5, <1>6, <1>7 DEF HeldIsOwn
<1> QED BY <1>1, <1>2, <1>3, <1>4, <1>6, <1>8, <1>9, EmptyCaller, SMTT(30)

(* A decode that fails finds a connection cut and drained, or leaves it     *)
(* garbled.                                                                 *)
LEMMA EmptyDecodeFails ==
    ASSUME Core, Core', EmptyInv, NoDeadlines', NEW k \in Callers, DecodeFails(k)
    PROVE  EmptyInv'
<1>0. pc[k] = "recv" /\ pc[k] \in Holding
  BY DEF Holding, DecodeFails
<1>1. PICK c \in Conns : c = holder[k] /\ \A l \in Callers : l # k => holder[l] # c
  BY <1>0, HolderFacts
<1>2. rdl[c] = "none"
  BY DEF EmptyInv
<1>3. \/ stream' = stream /\ (stream[c] = "garbled" \/ (stream[c] = "cut" /\ responses[c] = <<>>))
      \/ stream' = [stream EXCEPT ![c] = "garbled"]
  BY <1>1, <1>2 DEF DecodeFails, ReadTimedOut
<1>4. /\ pc' = [pc EXCEPT ![k] = "put"] /\ UNCHANGED <<where, holder, seq, requests, responses>>
  BY DEF DecodeFails
<1>5. /\ pc'[k] = "put"
      /\ \A l \in Callers : l # k => pc'[l] = pc[l]
      /\ \A d \in Conns : d # c => stream'[d] = stream[d]
  BY <1>3, <1>4 DEF Core, TypeCall, TypeWire
<1>6. \A d \in Conns : OnTheWay(d)' = OnTheWay(d)
  BY <1>4, SMTT(30) DEF OnTheWay
<1>7. stream'[c] = "garbled" \/ (stream'[c] = "cut" /\ responses[c] = <<>> /\ requests[c] = {})
  BY <1>3, ZenonT(60) DEF EmptyInv, Core, TypeWire
<1>8. stream'[c] = "garbled" \/ OnTheWay(c) = {}
  BY <1>7, NumbersEmpty DEF OnTheWay
<1>9. where'[c] = "held" /\ holder'[k] = c
  BY <1>0, <1>1, <1>4, HolderFacts, ZenonT(60)
<1>10. FreeIsEmpty(c)'
  BY <1>9 DEF FreeIsEmpty
<1>11. HeldIsOwn(k)'
  BY <1>5, <1>6, <1>8, <1>9, ZenonT(60) DEF HeldIsOwn
<1>12. stream'[c] = "cut" => requests'[c] = {}
  BY <1>4, <1>7, Zenon
<1> QED BY <1>1, <1>4, <1>5, <1>6, <1>9, <1>10, <1>11, <1>12, EmptyCaller, SMTT(30)

(* The response that is read is the caller's own, and the last on its       *)
(* connection.                                                              *)
LEMMA EmptyReceive ==
    ASSUME Core, Core', NumberInv, EmptyInv, NoDeadlines', NEW k \in Callers,
           ReceiveResponse(k)
    PROVE  EmptyInv' /\ Head(responses[holder[k]]).seq = seq[k]
<1>0. pc[k] = "recv" /\ pc[k] \in Holding
  BY DEF Holding, ReceiveResponse
<1>1. PICK c \in Conns, n \in Seqs :
         /\ c = holder[k] /\ n = Head(responses[c]).seq
         /\ OnTheWay(c)' = OnTheWay(c) \ {n} /\ n \in OnTheWay(c)
         /\ \A d \in Conns : d # c => OnTheWay(d)' = OnTheWay(d)
  BY ReceiveFacts
<1>2. \A l \in Callers : l # k => holder[l] # c
  BY <1>0, <1>1, HolderFacts
<1>3. /\ stream[c] # "garbled"
      /\ pc' = [pc EXCEPT ![k] = "put"] /\ UNCHANGED <<where, holder, seq, requests, stream>>
  BY <1>1, ZenonT(60) DEF ReceiveResponse
<1>4. /\ pc'[k] = "put" /\ \A l \in Callers : l # k => pc'[l] = pc[l]
  BY <1>3 DEF Core, TypeCall
<1>5. OnTheWay(c) \subseteq {seq[k]}
  BY <1>0, <1>1, <1>3, EmptyParts DEF HeldIsOwn
<1>6. n = seq[k] /\ OnTheWay(c)' = {}
  BY <1>1, <1>5
<1>7. where'[c] = "held" /\ holder'[k] = c
  BY <1>0, <1>1, <1>3, HolderFacts
<1>8. FreeIsEmpty(c)'
  BY <1>6 DEF FreeIsEmpty
<1>9. HeldIsOwn(k)'
  BY <1>4, <1>6, <1>7 DEF HeldIsOwn
<1>10. stream'[c] = "cut" => requests'[c] = {}
  BY <1>3, SMTT(30) DEF EmptyInv
<1>11. EmptyInv'
  BY <1>1, <1>2, <1>3, <1>4, <1>7, <1>8, <1>9, <1>10, EmptyCaller
<1> QED BY <1>1, <1>6, <1>11

(* The client's Close, the pool and the server.                             *)
LEMMA EmptyOthers ==
    ASSUME Core, NumberInv, EmptyInv, NoDeadlines',
           CloseClient \/ PoolDials \/ PoolDrops \/ Answer \/ HangUp
    PROVE  EmptyInv'
<1>0. /\ where \in [Conns -> Pool!Places] /\ stream \in [Conns -> Streams]
      /\ requests \in [Conns -> SUBSET Seqs] /\ responses \in [Conns -> Seq(Message)]
  BY DEF Core, TypeLease, TypeWire
<1>c. \A c \in Conns : stream[c] = "cut" => requests[c] = {}
  BY DEF EmptyInv
<1>1. CASE CloseClient
  <2>1. PICK S \in SUBSET {c \in Conns : where[c] \in {"pool", "held"}} :
          /\ Pool!Drop({c \in S : where[c] = "pool"})
          /\ stream' = [c \in Conns |-> IF c \in S THEN "cut" ELSE stream[c]]
          /\ requests' = [c \in Conns |-> IF c \in S THEN {} ELSE requests[c]]
          /\ responses' = [c \in Conns |-> IF c \in S THEN <<>> ELSE responses[c]]
    BY <1>1, Zenon DEF CloseClient
  <2>2. UNCHANGED <<holder, pc, seq>>
    BY <1>1, <2>1, Zenon DEF CloseClient, Pool!Drop
  <2>3. \A c \in Conns : where'[c] # "held" => where[c] # "held"
    BY <1>0, <2>1 DEF Pool!Drop
  <2>4. \A c \in Conns :
          \/ requests'[c] = {} /\ responses'[c] = <<>>
          \/ /\ stream'[c] = stream[c]
             /\ requests'[c] = requests[c] /\ responses'[c] = responses[c]
    BY <2>1
  <2>5. \A c \in Conns : OnTheWay(c)' = {} \/ (stream'[c] = stream[c] /\ OnTheWay(c)' = OnTheWay(c))
    BY <2>4, NumbersEmpty DEF OnTheWay
  <2>6. \A c \in Conns : stream'[c] = "cut" => requests'[c] = {}
    BY <2>4, <1>c, SMTT(30)
  <2> QED BY <2>2, <2>3, <2>5, <2>6, EmptyWire
<1>2. CASE PoolDials
  <2>1. UNCHANGED <<holder, pc, seq, stream, requests, responses>>
    BY <1>2 DEF PoolDials, Pool!Dial
  <2>2. \A c \in Conns : where'[c] # "held" => where[c] # "held"
    BY <1>0, <1>2 DEF PoolDials, Pool!Dial
  <2>3. \A c \in Conns : OnTheWay(c)' = OnTheWay(c) /\ stream'[c] = stream[c]
    BY <2>1 DEF OnTheWay
  <2> QED BY <2>1, <2>2, <2>3, <1>c, EmptyWire
<1>3. CASE PoolDrops
  <2>1. PICK c \in Conns : Pool!Drop({c}) /\ CutOff(c)
    BY <1>3, Zenon DEF PoolDrops
  <2>2. UNCHANGED <<holder, pc, seq>>
    BY <1>3, <2>1 DEF PoolDrops, Pool!Drop
  <2>3. \A d \in Conns : where'[d] # "held" => where[d] # "held"
    BY <1>0, <2>1 DEF Pool!Drop
  <2>4. \A d \in Conns :
          \/ requests'[d] = {} /\ responses'[d] = <<>>
          \/ /\ stream'[d] = stream[d]
             /\ requests'[d] = requests[d] /\ responses'[d] = responses[d]
    BY <1>0, <2>1 DEF CutOff
  <2>5. \A d \in Conns : OnTheWay(d)' = {} \/ (stream'[d] = stream[d] /\ OnTheWay(d)' = OnTheWay(d))
    BY <2>4, NumbersEmpty DEF OnTheWay
  <2>6. \A d \in Conns : stream'[d] = "cut" => requests'[d] = {}
    BY <2>4, <1>c
  <2> QED BY <2>2, <2>3, <2>5, <2>6, EmptyWire
<1>4. CASE Answer
  <2>1. UNCHANGED <<where, holder, pc, seq, stream>>
    BY <1>4 DEF Answer
  <2>2. \A c \in Conns : OnTheWay(c)' = OnTheWay(c)
    BY <1>4, NumberAnswer
  <2>3. \A c \in Conns : stream'[c] = "cut" => requests'[c] = {}
    BY <1>0, <1>4, <1>c, SMTT(30) DEF Answer
  <2> QED BY <2>1, <2>2, <2>3, EmptyWire
<1>5. CASE HangUp
  <2>1. PICK c \in Conns :
          /\ stream' = [stream EXCEPT ![c] = "cut"]
          /\ requests' = [requests EXCEPT ![c] = {}]
          /\ \/ stream[c] = "whole" /\ UNCHANGED responses
             \/ responses' = [responses EXCEPT ![c] = <<>>]
    BY <1>5, Zenon DEF HangUp
  <2>2. UNCHANGED <<where, holder, pc, seq>>
    BY <1>5, Zenon DEF HangUp
  <2>3. \A d \in Conns :
           \/ requests'[d] = {} /\ responses'[d] = <<>>
           \/ stream[d] = "whole" /\ requests'[d] = {} /\ responses'[d] = responses[d]
           \/ /\ stream'[d] = stream[d]
              /\ requests'[d] = requests[d] /\ responses'[d] = responses[d]
    BY <1>0, <2>1
  <2>4. \A d \in Conns :
           \/ OnTheWay(d)' = {}
           \/ stream[d] = "whole" /\ OnTheWay(d)' \subseteq OnTheWay(d)
           \/ stream'[d] = stream[d] /\ OnTheWay(d)' = OnTheWay(d)
    BY <2>3, NumbersEmpty DEF OnTheWay
  <2>5. \A d \in Conns : stream'[d] = "cut" => requests'[d] = {}
    BY <2>3, <1>c
  <2> QED BY <2>2, <2>4, <2>5, EmptyWire
<1> QED BY <1>1, <1>2, <1>3, <1>4, <1>5

(* Nothing is on any connection at first.                                   *)
LEMMA EmptyInit == Init => EmptyInv
<1> SUFFICES ASSUME Init PROVE EmptyInv
  OBVIOUS
<1>1. \A c \in Conns : /\ rdl[c] = "none" /\ wdl[c] = "none"
                        /\ requests[c] = {} /\ responses[c] = <<>>
  BY DEF Init
<1>2. \A c \in Conns : OnTheWay(c) = {}
  BY <1>1, NumbersEmpty DEF OnTheWay
<1>3. \A k \in Callers : pc[k] \notin Holding
  BY DEF Init, Holding
<1> QED BY <1>1, <1>2, <1>3 DEF EmptyInv

(* Without deadlines every step leaves the connections as they should be.   *)
LEMMA EmptyNext ==
    ASSUME Timed = {}, CallInv, CallInv', EmptyInv, [Next]_vars
    PROVE  EmptyInv'
<1>0. Core /\ Core' /\ NumberInv /\ pc \in [Callers -> Pcs] /\ seq \in [Callers -> 0..MaxSeq]
  BY DEF CallInv, Core, TypeCall
<1>1. NoDeadlines'
  BY <1>0, NoDeadlineSet DEF NoDeadlines, EmptyInv
<1>2. ASSUME NEW k \in Callers,
             Invoke(k) \/ CtxDone(k) \/ NoServer(k) \/ NoConnection(k)
      PROVE  EmptyInv'
  <2>1. UNCHANGED <<where, holder, stream, requests, responses>>
    BY <1>2 DEF Invoke, CtxDone, NoServer, NoConnection
  <2>2. PICK s \in {"idle", "attempt"} : pc' = [pc EXCEPT ![k] = s]
    BY <1>2 DEF Invoke, CtxDone, NoServer, NoConnection, NextRetry, ReturnFromInvoke
  <2>3. \A l \in Callers : l # k => seq'[l] = seq[l]
    BY <1>0, <1>2 DEF Invoke, CtxDone, NoServer, NoConnection
  <2>4. pc'[k] \notin Holding /\ \A l \in Callers : l # k => pc'[l] = pc[l]
    BY <1>0, <2>2 DEF Holding
  <2> QED BY <1>0, <1>1, <2>1, <2>3, <2>4, EmptyStill
<1>3. ASSUME NEW k \in Callers, CheckClosing(k) \/ PutPanics(k)
      PROVE  EmptyInv'
  <2>1. UNCHANGED <<where, holder, stream, requests, responses, seq>>
    BY <1>3 DEF CheckClosing, PutPanics
  <2>2. PICK s \in {"giveup", "send", "panic"} : pc' = [pc EXCEPT ![k] = s]
    BY <1>3 DEF CheckClosing, PutPanics
  <2>3. pc[k] \in Holding /\ pc[k] # "recv"
    BY <1>3 DEF Holding, CheckClosing, PutPanics
  <2>4. pc'[k] # "recv" /\ \A l \in Callers : l # k => pc'[l] = pc[l]
    BY <1>0, <2>2
  <2> QED BY <1>0, <1>1, <2>1, <2>3, <2>4, EmptyStill
<1>4. ASSUME NEW k \in Callers, Register(k)
      PROVE  EmptyInv'
  <2>1. pc[k] = "send" /\ pc[k] \in Holding
    BY <1>4 DEF Register, Holding
  <2>2. CASE SendFailed(k) /\ seq' = seq
    BY <1>0, <1>1, <2>1, <2>2, EmptySendFailed
  <2>3. CASE /\ seq' = [seq EXCEPT ![k] = NextSeq] /\ pc' = [pc EXCEPT ![k] = "write"]
             /\ UNCHANGED <<where, holder, stream, requests, responses>>
    <3>1. /\ pc'[k] # "recv"
          /\ \A l \in Callers : l # k => pc'[l] = pc[l] /\ seq'[l] = seq[l]
      BY <1>0, <2>3
    <3> QED BY <1>0, <1>1, <2>1, <2>3, <3>1, EmptyStill
  <2> QED BY <1>4, <2>2, <2>3 DEF Register
<1>5. ASSUME NEW k \in Callers, WriteFails(k)
      PROVE  EmptyInv'
  <2>1. pc[k] = "write" /\ SendFailed(k) /\ seq' = seq
    BY <1>5 DEF WriteFails
  <2> QED BY <1>0, <1>1, <2>1, EmptySendFailed
<1>6. ASSUME NEW k \in Callers, PutAndGoOn(k) \/ GiveUp(k)
      PROVE  EmptyInv'
  <2>1. pc[k] \in {"put", "giveup"} /\ (Pool!Return(k) \/ Pool!Discard(k))
    BY <1>6 DEF PutAndGoOn, GiveUp, PutConn
  <2>2. UNCHANGED <<seq, requests, responses, stream>>
    BY <1>6 DEF PutAndGoOn, GiveUp
  <2>3. PICK s \in {"idle", "attempt"} : pc' = [pc EXCEPT ![k] = s]
    BY <1>6 DEF PutAndGoOn, GiveUp, NextRetry, ReturnFromInvoke
  <2> QED BY <1>0, <1>1, <2>1, <2>2, <2>3, EmptyPut, Zenon
<1>7. ASSUME NEW k \in Callers, Expire(k)
      PROVE  EmptyInv'
  BY <1>7 DEF Expire
<1>8. CASE OldDeadlinePasses
  BY <1>8 DEF OldDeadlinePasses, EmptyInv
<1>9. CASE UNCHANGED vars
  <2>1. UNCHANGED <<where, holder, pc, seq, stream, requests, responses>>
    BY <1>9 DEF vars
  <2>2. \A c \in Conns : OnTheWay(c)' = OnTheWay(c)
    BY <2>1 DEF OnTheWay
  <2>3. \A c \in Conns : stream'[c] = "cut" => requests'[c] = {}
    BY <2>1 DEF EmptyInv
  <2> QED BY <1>0, <1>1, <2>1, <2>2, <2>3, EmptyWire
<1>10. CASE CloseClient \/ PoolDials \/ PoolDrops \/ Answer \/ HangUp
  BY <1>0, <1>1, <1>10, EmptyOthers
<1>11. ASSUME NEW k \in Callers, GetConnection(k)
       PROVE  EmptyInv'
  BY <1>0, <1>1, <1>11, EmptyGet
<1>12. ASSUME NEW k \in Callers,
              WriteSucceeds(k) \/ DecodeFails(k) \/ ReceiveResponse(k)
       PROVE  EmptyInv'
  BY <1>0, <1>1, <1>12, EmptyWrite, EmptyDecodeFails, EmptyReceive
<1> QED
  BY <1>2, <1>3, <1>4, <1>5, <1>6, <1>7, <1>8, <1>9, <1>10, <1>11, <1>12 DEF Next, InvokeStep

(* The answer a caller holds is its own, and it holds one only from the     *)
(* read to the end of the call.                                             *)
LEMMA OwnNext ==
    ASSUME Timed = {}, CallInv, CallInv', OwnInv, [Next]_vars
    PROVE  OwnInv'
<1> DEFINE Own(k) == /\ got[k] # 0 => got[k] = seq[k]
                     /\ pc[k] \notin {"put", "idle", "panic"} => got[k] = 0
<1>0. EmptyInv /\ \A k \in Callers : Own(k)
  BY DEF OwnInv, OwnResponse
<1>1. EmptyInv'
  BY <1>0, EmptyNext
<1>2. /\ Core /\ Core' /\ NumberInv /\ pc \in [Callers -> Pcs] /\ seq \in [Callers -> 0..MaxSeq]
      /\ got \in [Callers -> 0..MaxSeq] /\ NoDeadlines'
  BY <1>1 DEF CallInv, Core, TypeCall, NoDeadlines, EmptyInv
<1> SUFFICES \A k \in Callers : Own(k)'
  BY <1>1 DEF OwnInv, OwnResponse
<1>3. CASE UNCHANGED <<pc, got, seq>>
  BY <1>0, <1>3
<1>4. ASSUME NEW k \in Callers, NEW l \in Callers, InvokeStep(k) \/ Invoke(k)
      PROVE  Own(l)'
  <2>1. CASE l # k
    <3>1. pc'[l] = pc[l] /\ seq'[l] = seq[l] /\ got'[l] = got[l]
      <4>1. CASE Invoke(k)
        BY <1>2, <2>1, <4>1, SMTT(30) DEF Invoke
      <4>2. CASE CtxDone(k) \/ NoServer(k) \/ NoConnection(k) \/ GetConnection(k)
        BY <1>2, <2>1, <4>2, SMTT(30)
           DEF CtxDone, NoServer, NoConnection, GetConnection, NextRetry, ReturnFromInvoke
      <4>3. CASE CheckClosing(k) \/ Register(k) \/ WriteSucceeds(k) \/ WriteFails(k)
        BY <1>2, <2>1, <4>3, ZenonT(60)
           DEF CheckClosing, Register, WriteSucceeds, WriteFails, SendFailed, NextRetry,
               ReturnFromInvoke
      <4>4. CASE DecodeFails(k) \/ ReceiveResponse(k)
        BY <1>2, <2>1, <4>4, ZenonT(60) DEF DecodeFails, ReceiveResponse
      <4>5. CASE PutAndGoOn(k) \/ GiveUp(k) \/ PutPanics(k)
        BY <1>2, <2>1, <4>5 DEF PutAndGoOn, GiveUp, PutPanics, NextRetry, ReturnFromInvoke
      <4> QED BY <1>4, <4>1, <4>2, <4>3, <4>4, <4>5, Zenon DEF InvokeStep
    <3> QED BY <1>0, <3>1
  <2>2. CASE l = k
    <3>1. CASE Invoke(k)
      BY <1>2, <2>2, <3>1 DEF Invoke
    <3>2. CASE /\ pc[k] \notin {"put", "idle", "panic"} /\ got' = got
      BY <1>0, <2>2, <3>2
    <3>3. CASE ReceiveResponse(k)
      <4>1. Head(responses[holder[k]]).seq = seq[k]
        BY <1>0, <1>2, <3>3, EmptyReceive
      <4>2. /\ got' = got \/ got' = [got EXCEPT ![k] = seq[k]]
            /\ pc' = [pc EXCEPT ![k] = "put"] /\ seq' = seq
        BY <3>3, <4>1, Zenon DEF ReceiveResponse
      <4> QED BY <1>0, <1>2, <2>2, <4>2
    <3>4. CASE PutAndGoOn(k)
      <4>1. got' = got /\ seq' = seq
        BY <3>4 DEF PutAndGoOn
      <4>2. got[k] # 0 => pc' = [pc EXCEPT ![k] = "idle"]
        BY <3>4 DEF PutAndGoOn, ReturnFromInvoke
      <4> QED BY <1>0, <1>2, <2>2, <4>1, <4>2
    <3>5. CASE PutPanics(k)
      BY <1>0, <1>2, <2>2, <3>5 DEF PutPanics
    <3>6. CASE CtxDone(k) \/ NoServer(k) \/ NoConnection(k) \/ GetConnection(k)
      BY <3>2, <3>6 DEF CtxDone, NoServer, NoConnection, GetConnection
    <3>7. CASE CheckClosing(k) \/ Register(k) \/ WriteSucceeds(k) \/ WriteFails(k)
      BY <3>2, <3>7, Zenon DEF CheckClosing, Register, WriteSucceeds, WriteFails
    <3>8. CASE DecodeFails(k) \/ GiveUp(k)
      BY <3>2, <3>8, Zenon DEF DecodeFails, GiveUp
    <3> QED BY <1>4, <3>1, <3>3, <3>4, <3>5, <3>6, <3>7, <3>8 DEF InvokeStep
  <2> QED BY <2>1, <2>2
<1>5. CASE \E k \in Callers : Expire(k)
  BY <1>3, <1>5, SMTT(30) DEF Expire
<1>6. CASE CloseClient \/ PoolDials \/ PoolDrops \/ OldDeadlinePasses \/ Answer \/ HangUp
  BY <1>3, <1>6 DEF CloseClient, PoolDials, PoolDrops, OldDeadlinePasses, Answer, HangUp
<1>7. CASE UNCHANGED vars
  BY <1>3, <1>7 DEF vars
<1> QED BY <1>4, <1>5, <1>6, <1>7 DEF Next

(* While no call has a deadline, a caller is given the answer to the        *)
(* request it sent and no other: recvMsg need not compare the two numbers.  *)
THEOREM OwnAnswers == ASSUME Timed = {} PROVE Spec => []OwnResponse
<1>1. Init => OwnInv
  <2>1. Init => /\ OwnResponse
                /\ \A k \in Callers : pc[k] \notin {"put", "idle", "panic"} => got[k] = 0
    BY DEF Init, OwnResponse
  <2> QED BY <2>1, EmptyInit DEF OwnInv
<1>2. CallInv /\ CallInv' /\ OwnInv /\ [Next]_vars => OwnInv'
  BY OwnNext
<1>3. OwnInv => OwnResponse
  BY DEF OwnInv
<1> QED BY <1>1, <1>2, <1>3, CallInvariance, PTL DEF Spec
=============================================================================

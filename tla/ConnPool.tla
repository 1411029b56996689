------------------------------ MODULE ConnPool ------------------------------
(***************************************************************************)
(* The client's connection pool for one target (clientconn.go): goroutines *)
(* that get() and put() connections, the warm-up goroutine, and Close().   *)
(*                                                                         *)
(* Grain.  A step is one channel operation, one critical section of p.mu,  *)
(* or one atomic load or store that another goroutine can observe.  A      *)
(* critical section is a single step, so p.mu itself is not a variable:    *)
(* created is also changed outside it, but only by steps that commute with *)
(* the test-and-increment of createNewConn.  p.closed is read without the  *)
(* lock by get and by the warm-up; the value read may be stale when it is  *)
(* used, which the model has because the use is a later step.              *)
(***************************************************************************)
EXTENDS Integers, Sequences, FiniteSets, Functions

CONSTANTS
    Callers,   \* goroutines inside Invoke or sendHeartbeat
    Conns,     \* connections that can be dialled: bounds the number of dials
    NoConn,    \* the nil *clientConn
    Size,      \* p.size, the maxPoolSize option
    Waits      \* maxRetries of get's wait loop (5 in the code)

(* newConnPool makes a slice of capacity size - hotQueueSize: it panics     *)
(* unless size >= 1.                                                        *)
ASSUME PoolAssumption ==
    /\ Size \in Nat \ {0}
    /\ Waits \in Nat
    /\ NoConn \notin Conns

HotCap == IF Size \div 2 < 1 THEN 1 ELSE Size \div 2
PrewarmCount == IF Size \div 4 < 1 THEN 1 ELSE Size \div 4

VARIABLES
    closed,    \* p.closed
    created,   \* p.created
    hot,       \* the buffer of p.hotQueue, oldest first
    hotClosed, \* p.hotQueue has been closed
    cold,      \* p.coldQueue, last element on top
    conns,     \* p.conns, as a set
    status,    \* cc.status, and "unborn" before the dial
    open,      \* connections whose socket is open
    pc,        \* where each caller is
    cc,        \* the connection each caller holds
    waits,     \* i of get's wait loop
    wpc, wcc, wleft,   \* warm-up: where, connection dialled, iterations left
    kpc, kset          \* Close: where, connections still to be closed

poolVars == <<closed, created, hot, hotClosed, cold, conns>>
connVars == <<status, open>>
callerVars == <<pc, cc, waits>>
warmVars == <<wpc, wcc, wleft>>
closeVars == <<kpc, kset>>
vars == <<poolVars, connVars, callerVars, warmVars, closeVars>>

Statuses == {"unborn", "idle", "inuse", "closed"}
(* The stages of get are hot1 new1 cold hot2 new2 wait mark, the stages of  *)
(* put are put idling send store; use is the RPC itself.                    *)
Stages == {"idle", "hot1", "new1", "cold", "hot2", "new2", "wait", "mark",
           "use", "put", "idling", "send", "store", "panic"}
HoldStages == {"mark", "use", "put", "idling", "send", "store", "panic"}
(* The stage get falls through to.                                          *)
After == [hot1 |-> "new1", new1 |-> "cold", cold |-> "hot2", hot2 |-> "new2",
          new2 |-> "wait", wait |-> "wait"]

Init ==
    /\ closed = FALSE /\ created = 0 /\ hotClosed = FALSE
    /\ hot = <<>> /\ cold = <<>> /\ conns = {}
    /\ status = [c \in Conns |-> "unborn"] /\ open = {}
    /\ pc = [k \in Callers |-> "idle"]
    /\ cc = [k \in Callers |-> NoConn]
    /\ waits = [k \in Callers |-> 0]
    /\ wpc = "dial" /\ wcc = NoConn /\ wleft = PrewarmCount
    /\ kpc = "idle" /\ kset = {}

-----------------------------------------------------------------------------
(* clientConn                                                               *)

isClosed(c) == status[c] = "closed"

(* A dial that succeeds yields a fresh connection with an open socket.      *)
newClientConn(c) ==
    /\ status[c] = "unborn"
    /\ status' = [status EXCEPT ![c] = "idle"]
    /\ open' = open \cup {c}

(* The Close method of clientConn, idempotent by its status.                *)
CloseConn(c) ==
    /\ status' = [status EXCEPT ![c] = "closed"]
    /\ open' = IF isClosed(c) THEN open ELSE open \ {c}

-----------------------------------------------------------------------------
(* get                                                                      *)

Goto(k, stage) == pc' = [pc EXCEPT ![k] = stage]
Take(k, c) == cc' = [cc EXCEPT ![k] = c]
LetGo(k) == cc' = [cc EXCEPT ![k] = NoConn]

Enter(k) ==
    /\ pc[k] = "idle" /\ ~closed
    /\ Goto(k, "hot1")
    /\ waits' = [waits EXCEPT ![k] = 0]
    /\ UNCHANGED <<poolVars, connVars, cc, warmVars, closeVars>>

(* The two non-blocking receives from p.hotQueue.  A closed and drained     *)
(* channel yields nil, which falls through like an empty one.               *)
TryHot(k) ==
    /\ pc[k] \in {"hot1", "hot2"} /\ cc[k] = NoConn
    /\ \/ /\ hot # <<>>
          /\ Take(k, Head(hot)) /\ hot' = Tail(hot)
          /\ UNCHANGED pc
       \/ /\ hot = <<>>
          /\ Goto(k, After[pc[k]])
          /\ UNCHANGED <<cc, hot>>
    /\ UNCHANGED <<closed, created, hotClosed, cold, conns, connVars, waits,
                   warmVars, closeVars>>

\* Mutant: the element is read but stays in the queue.
ColdPeeked == cold
ColdPopped == SubSeq(cold, 1, Len(cold) - 1)

(* Pops the last element of p.coldQueue under p.mu.                         *)
TryCold(k) ==
    /\ pc[k] = "cold" /\ cc[k] = NoConn
    /\ \/ /\ cold # <<>>
          /\ Take(k, cold[Len(cold)]) /\ cold' = ColdPopped
          /\ UNCHANGED pc
       \/ /\ cold = <<>>
          /\ Goto(k, After[pc[k]])
          /\ UNCHANGED <<cc, cold>>
    /\ UNCHANGED <<closed, created, hot, hotClosed, conns, connVars, waits,
                   warmVars, closeVars>>

\* Mutant: the test is off by one.
CanCreateOneMore == created <= Size
CanCreate == created < Size

(* createNewConn up to its Unlock.  get tests created before the call and   *)
(* createNewConn tests it again under p.mu; either test failing falls       *)
(* through, and so does a failed dial.                                      *)
CreateNewConn(k) ==
    /\ pc[k] \in {"new1", "new2"}
    /\ \/ /\ CanCreate
          /\ \E c \in Conns :
                /\ newClientConn(c)
                /\ conns' = conns \cup {c}
                /\ created' = created + 1
                /\ Take(k, c)
          /\ Goto(k, "mark")
       \/ /\ Goto(k, After[pc[k]])    \* no slot left, or the dial failed
          /\ UNCHANGED <<created, conns, connVars, cc>>
    /\ UNCHANGED <<closed, hot, hotClosed, cold, waits, warmVars, closeVars>>

\* Mutant: a timeout does not count as a round.
WaitAgain(k) == waits[k]
NextWait(k) == waits[k] + 1

(* One round of the wait loop: a connection, a nil from the closed channel  *)
(* or a timeout; after the last round get returns ErrNoAvailableConn.       *)
WaitHot(k) ==
    /\ pc[k] = "wait" /\ cc[k] = NoConn
    /\ \/ /\ waits[k] < Waits /\ hot # <<>>
          /\ Take(k, Head(hot)) /\ hot' = Tail(hot)
          /\ UNCHANGED <<pc, waits>>
       \/ /\ waits[k] < Waits
          /\ waits' = [waits EXCEPT ![k] = NextWait(k)]
          /\ UNCHANGED <<pc, cc, hot>>
       \/ /\ waits[k] = Waits
          /\ Goto(k, "idle")
          /\ UNCHANGED <<cc, hot, waits>>
    /\ UNCHANGED <<closed, created, hotClosed, cold, conns, connVars, warmVars,
                   closeVars>>

\* Mutant: the slot is freed but the socket stays open.
releaseSlot(c) ==
    /\ created' = created - 1
    /\ UNCHANGED connVars
\* Mutant: the connection is closed and two slots are freed.
releaseTwice(c) ==
    /\ CloseConn(c)
    /\ created' = created - 2
releaseConn(c) ==
    /\ CloseConn(c)
    /\ created' = created - 1

(* isClosed and isHealthy of a connection just received.  isHealthy also    *)
(* depends on the connection's age and on a ping: any outcome is possible.  *)
Verify(k) ==
    /\ pc[k] \in {"hot1", "cold", "hot2", "wait"} /\ cc[k] # NoConn
    /\ \/ /\ ~isClosed(cc[k])
          /\ Goto(k, "mark")
          /\ UNCHANGED <<created, connVars, cc, waits>>
       \/ /\ releaseConn(cc[k])
          /\ LetGo(k)
          /\ Goto(k, After[pc[k]])
          /\ waits' = IF pc[k] = "wait" THEN [waits EXCEPT ![k] = @ + 1] ELSE waits
    /\ UNCHANGED <<closed, hot, hotClosed, cold, conns, warmVars, closeVars>>

(* markInUse is an unconditional store: it may overwrite "closed".          *)
MarkInUse(k) ==
    /\ pc[k] = "mark"
    /\ status' = [status EXCEPT ![cc[k]] = "inuse"]
    /\ Goto(k, "use")
    /\ UNCHANGED <<poolVars, open, cc, waits, warmVars, closeVars>>

-----------------------------------------------------------------------------
(* What a caller does with the connection it got: put it back (invoke after *)
(* recvMsg and on its early returns), close it after a failed send (invoke),*)
(* or close it and then put it (sendHeartbeat, whose put is deferred).      *)

EndUse(k) ==
    /\ pc[k] = "use"
    /\ Goto(k, "put")
    /\ UNCHANGED <<poolVars, connVars, cc, waits, warmVars, closeVars>>

SendFailed(k) ==
    /\ pc[k] = "use"
    /\ CloseConn(cc[k])
    /\ LetGo(k) /\ Goto(k, "idle")
    /\ UNCHANGED <<poolVars, waits, warmVars, closeVars>>

HeartbeatFailed(k) ==
    /\ pc[k] = "use"
    /\ CloseConn(cc[k])
    /\ Goto(k, "put")
    /\ UNCHANGED <<poolVars, cc, waits, warmVars, closeVars>>

-----------------------------------------------------------------------------
(* put                                                                      *)

\* Mutant: put does not look at the connection's status.
PutUnchecked(k) ==
    /\ pc[k] = "put"
    /\ Goto(k, "idling")
    /\ UNCHANGED <<poolVars, connVars, cc, waits, warmVars, closeVars>>
PutCheck(k) ==
    /\ pc[k] = "put"
    /\ IF isClosed(cc[k])
          THEN LetGo(k) /\ Goto(k, "idle")
          ELSE UNCHANGED cc /\ Goto(k, "idling")
    /\ UNCHANGED <<poolVars, connVars, waits, warmVars, closeVars>>

MarkIdle(k) ==
    /\ pc[k] = "idling"
    /\ status' = [status EXCEPT ![cc[k]] = "idle"]
    /\ Goto(k, "send")
    /\ UNCHANGED <<poolVars, open, cc, waits, warmVars, closeVars>>

HotHasRoom == Len(hot) < HotCap

(* The non-blocking send.  A send on a closed channel panics, full or not.  *)
SendHot(k) ==
    /\ pc[k] = "send"
    /\ \/ /\ hotClosed
          /\ Goto(k, "panic")
          /\ UNCHANGED <<hot, cc>>
       \/ /\ ~hotClosed /\ HotHasRoom
          /\ hot' = Append(hot, cc[k])
          /\ LetGo(k) /\ Goto(k, "idle")
       \/ /\ ~hotClosed /\ ~HotHasRoom
          /\ Goto(k, "store")
          /\ UNCHANGED <<hot, cc>>
    /\ UNCHANGED <<closed, created, hotClosed, cold, conns, connVars, waits,
                   warmVars, closeVars>>

StoreCold(k) ==
    /\ pc[k] = "store"
    /\ LetGo(k) /\ Goto(k, "idle")
    /\ IF closed
          THEN releaseConn(cc[k]) /\ UNCHANGED cold
          ELSE cold' = Append(cold, cc[k]) /\ UNCHANGED <<created, connVars>>
    /\ UNCHANGED <<closed, hot, hotClosed, conns, waits, warmVars, closeVars>>

-----------------------------------------------------------------------------
(* prewarmConnections                                                       *)

WarmDial ==
    /\ wpc = "dial"
    /\ \/ /\ closed \/ wleft = 0
          /\ wpc' = "done"
          /\ UNCHANGED <<connVars, wcc, wleft>>
       \/ /\ ~closed /\ wleft > 0
          /\ \E c \in Conns : newClientConn(c) /\ wcc' = c
          /\ wpc' = "add"
          /\ UNCHANGED wleft
       \/ /\ ~closed /\ wleft > 0     \* the dial failed
          /\ wleft' = wleft - 1
          /\ UNCHANGED <<connVars, wpc, wcc>>
    /\ UNCHANGED <<poolVars, callerVars, closeVars>>

WarmAdd ==
    /\ wpc = "add"
    /\ conns' = conns \cup {wcc}
    /\ created' = created + 1
    /\ cold' = Append(cold, wcc)
    /\ wpc' = "dial" /\ wcc' = NoConn /\ wleft' = wleft - 1
    /\ UNCHANGED <<closed, hot, hotClosed, connVars, callerVars, closeVars>>

-----------------------------------------------------------------------------
(* Close.  A second Close finds p.closed and returns, which is a stutter.   *)

CloseBegin ==
    /\ kpc = "idle" /\ ~closed
    /\ closed' = TRUE
    /\ kset' = conns \cup Range(cold)
    /\ conns' = {} /\ cold' = <<>>
    /\ kpc' = "conns"
    /\ UNCHANGED <<created, hot, hotClosed, connVars, callerVars, warmVars>>

CloseOne ==
    /\ kpc = "conns"
    /\ \E c \in kset : CloseConn(c) /\ kset' = kset \ {c}
    /\ UNCHANGED <<poolVars, callerVars, warmVars, kpc>>

\* Mutant: the channel is drained without being closed.
LeaveHotOpen ==
    /\ kpc = "conns" /\ kset = {}
    /\ kpc' = "drain"
    /\ UNCHANGED <<poolVars, connVars, callerVars, warmVars, kset>>
CloseHot ==
    /\ kpc = "conns" /\ kset = {}
    /\ hotClosed' = TRUE
    /\ kpc' = "drain"
    /\ UNCHANGED <<closed, created, hot, cold, conns, connVars, callerVars,
                   warmVars, kset>>

DrainHot ==
    /\ kpc = "drain"
    /\ \/ /\ hot # <<>>
          /\ CloseConn(Head(hot)) /\ hot' = Tail(hot)
          /\ UNCHANGED <<created, kpc>>
       \/ /\ hot = <<>> /\ hotClosed
          /\ created' = 0
          /\ kpc' = "done"
          /\ UNCHANGED <<hot, connVars>>
    /\ UNCHANGED <<closed, hotClosed, cold, conns, callerVars, warmVars, kset>>

-----------------------------------------------------------------------------
GetStep(k) == \/ TryHot(k) \/ TryCold(k) \/ CreateNewConn(k) \/ WaitHot(k)
              \/ Verify(k) \/ MarkInUse(k)
PutStep(k) == PutCheck(k) \/ MarkIdle(k) \/ SendHot(k) \/ StoreCold(k)
UseStep(k) == EndUse(k) \/ SendFailed(k) \/ HeartbeatFailed(k)
Warm == WarmDial \/ WarmAdd
CloseStep == CloseOne \/ CloseHot \/ DrainHot

Next ==
    \/ \E k \in Callers : Enter(k) \/ GetStep(k) \/ UseStep(k) \/ PutStep(k)
    \/ Warm
    \/ CloseBegin \/ CloseStep

Spec == Init /\ [][Next]_vars

(* A goroutine that can run does: the wait loop has timeouts and a dial is  *)
(* bounded by connectTimeout.  Nobody has to call get, Close, or end a use. *)
FairSpec ==
    /\ Spec
    /\ \A k \in Callers : WF_vars(GetStep(k)) /\ WF_vars(PutStep(k))
    /\ WF_vars(Warm) /\ WF_vars(CloseStep)

-----------------------------------------------------------------------------
(* Properties                                                               *)

TypeOK ==
    /\ closed \in BOOLEAN /\ hotClosed \in BOOLEAN
    /\ created \in Int
    /\ hot \in Seq(Conns) /\ Len(hot) <= HotCap
    /\ cold \in Seq(Conns)
    /\ conns \subseteq Conns /\ open \subseteq Conns /\ kset \subseteq Conns
    /\ status \in [Conns -> Statuses]
    /\ pc \in [Callers -> Stages]
    /\ cc \in [Callers -> Conns \cup {NoConn}]
    /\ waits \in [Callers -> 0..Waits]
    /\ wpc \in {"dial", "add", "done"}
    /\ wcc \in Conns \cup {NoConn}
    /\ wleft \in 0..PrewarmCount
    /\ kpc \in {"idle", "conns", "drain", "done"}

Held == {cc[k] : k \in Callers} \ {NoConn}
Warming == {wcc} \ {NoConn}
Pooled == Range(hot) \cup Range(cold)

(* No connection is in two places: twice in a queue, in both queues, in a   *)
(* queue and with a caller, or with two callers.  Callers share no lock on  *)
(* the socket, so two holders would mix their frames on the wire.           *)
ExclusiveOwnership ==
    /\ IsInjective(hot) /\ IsInjective(cold)
    /\ Range(hot) \cap Range(cold) = {}
    /\ Held \cap Pooled = {} /\ Warming \cap (Held \cup Pooled) = {}
    /\ \A k, l \in Callers : cc[k] = cc[l] /\ cc[k] # NoConn => k = l

(* What the test-and-increment under p.mu really guarantees: created may    *)
(* exceed size, but only by the connections the warm-up adds untested.      *)
BoundedCreation == created <= Size + PrewarmCount

(* Until Close, created never undercounts: every open socket but the one    *)
(* the warm-up is about to add occupies a slot of the pool.                 *)
SocketsCounted == ~closed => Cardinality(open \ Warming) <= created

(* Until Close, no socket is lost: an open one is in a queue or with a      *)
(* goroutine that will queue or close it.                                   *)
NoLeakWhileOpen == ~closed => open \subseteq Pooled \cup Held \cup Warming

(* Until Close, the connection a caller works with is open and marked in    *)
(* use: nobody else closes, queues or reuses it meanwhile.                  *)
HandedOutIsLive ==
    \A k \in Callers :
        pc[k] = "use" /\ ~closed => cc[k] \in open /\ status[cc[k]] = "inuse"

(* The inductive invariant behind the proofs, one conjunct per idea.        *)
(* Who has a connection, by stage.                                          *)
StageInv ==
    /\ \A k \in Callers :
        /\ pc[k] \in HoldStages => cc[k] \in Conns
        /\ pc[k] \in {"idle", "new1", "new2"} => cc[k] = NoConn
        /\ pc[k] = "wait" /\ cc[k] # NoConn => waits[k] < Waits
    /\ wpc = "add" <=> wcc # NoConn
    /\ wpc = "add" => wleft > 0
    /\ kpc # "idle" <=> closed
    /\ kpc \in {"idle", "conns"} => ~hotClosed
(* A connection not dialled yet is nowhere, a closed one has no socket.     *)
StatusInv ==
    \A c \in Conns :
        /\ status[c] = "unborn" =>
              c \notin Pooled \cup Held \cup Warming \cup open \cup conns \cup kset
        /\ status[c] = "closed" => c \notin open
(* The connections the warm-up has added account for any excess.            *)
CreatedInv == created <= Size + PrewarmCount - wleft
(* Until Close, whatever is queued or held is open, except a connection its *)
(* holder has closed and is about to hand to put.                           *)
LiveInv ==
    ~closed =>
        /\ Pooled \cup Warming \subseteq open
        /\ \A k \in Callers : cc[k] # NoConn =>
              \/ cc[k] \in open
              \/ pc[k] = "put" /\ isClosed(cc[k])
        /\ \A k \in Callers : pc[k] = "use" => status[cc[k]] = "inuse"
PoolInv == TypeOK /\ StageInv /\ StatusInv /\ ExclusiveOwnership /\ CreatedInv
           /\ NoLeakWhileOpen /\ LiveInv

(* get always comes back, with a connection or with an error.               *)
GetReturns == \A k \in Callers : pc[k] = "hot1" ~> pc[k] \in {"use", "idle"}

(* Close always comes back, although callers take connections from the      *)
(* queue it drains and put others in.                                       *)
CloseReturns == kpc = "conns" ~> kpc = "done"

(* The pool as a lease.  A caller that is still checking a connection it    *)
(* popped does not hold it yet.                                             *)
LeaseHolder == [k \in Callers |-> IF pc[k] \in HoldStages THEN cc[k] ELSE NoConn]
LeaseWhere ==
    [c \in Conns |->
        IF status[c] = "unborn" THEN "unborn"
        ELSE IF \E k \in Callers : LeaseHolder[k] = c THEN "held"
        ELSE IF c \in Pooled \cup Held \cup Warming THEN "pool" ELSE "gone"]

Lease == INSTANCE ConnLease WITH where <- LeaseWhere, holder <- LeaseHolder

(* Every step of the pool is a step of the lease or leaves it unchanged.    *)
ImplementsLease == Lease!Spec

-----------------------------------------------------------------------------
(* What comments and the README say of the pool, and the code does not do.  *)

(* README.md: "Maximum connection limit".                                   *)
WithinMaximum == created <= Size

Quiet == /\ \A k \in Callers : pc[k] \in {"idle", "panic"}
         /\ wpc = "done" /\ kpc \in {"idle", "done"}

(* client_option.go: after a failed heartbeat "the connection will be       *)
(* closed and re-established".  A pool without connections that is not      *)
(* closed must have a slot left to establish one.                           *)
CanReestablish == Quiet /\ ~closed /\ open = {} => created < Size

(* call.go: "Ensure that connections are put back into the pool or shut     *)
(* down".  No goroutine is done with an open connection it never put back.  *)
PutBackOrShutDown ==
    \A k \in Callers : pc[k] = "panic" => cc[k] \notin open

(* client.go: "Close all connection pools".  Once Close has returned and    *)
(* everyone is through, no socket is open.                                  *)
CloseClosesAll == Quiet /\ kpc = "done" => open = {}

=============================================================================

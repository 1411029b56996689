------------------------------ MODULE RpcCall ------------------------------
(***************************************************************************)
(* Invoke (call.go): concurrent invocations of one client, each sending a  *)
(* request on a connection it leases from the pool and reading a response  *)
(* from it, with retries, context deadlines, and Close of the client.      *)
(*                                                                         *)
(* The pool is the abstract one (ConnLease), which ConnPool implements.    *)
(* The server is external: it answers a request it has read at most once,  *)
(* in any order, or never, and may close a connection (server.go does all  *)
(* of these).  A context deadline is a flag that is set when it passes.    *)
(***************************************************************************)
EXTENDS Integers, Sequences, FiniteSets

CONSTANTS
    Callers,     \* goroutines that call Invoke, one invocation at a time
    Timed,       \* the callers whose context has a deadline
    Conns,       \* connections that can be dialled
    NoConn,
    MaxRetries,  \* opt.maxRetries
    MaxSeq       \* bound on the number of requests sent

ASSUME CallAssumption ==
    /\ Timed \subseteq Callers /\ Callers \cap {"none", "future", "past"} = {}
    /\ NoConn \notin Conns
    /\ MaxRetries \in Nat /\ MaxSeq \in Nat

VARIABLES
    where, holder,   \* the lease: where connections are, who holds which
    closing,         \* c.closing and c.shutdown, which Close sets together
    pending,         \* the keys of c.pending; c.pending is nil once closing
    sequence,        \* c.sequence
    pc,              \* where each caller is in invoke
    retry,           \* the loop variable of invoke
    seq,             \* call.Seq of the current attempt, 0 before it is set
    got,             \* the sequence number of the response the reply came from
    late,            \* the deadline of the caller's context has passed
    stats,           \* attempts of the invocation begun and not ended
    requests,        \* per connection, requests the server has not answered
    responses,       \* per connection, responses not read yet
    stream,          \* per connection, "whole", "garbled" or "cut"
    rdl, wdl         \* per connection, read and write deadline

leaseVars == <<where, holder>>
clientVars == <<closing, pending, sequence>>
callVars == <<pc, retry, seq, got, late, stats>>
wireVars == <<requests, responses, stream, rdl, wdl>>
vars == <<leaseVars, clientVars, callVars, wireVars>>

Pool == INSTANCE ConnLease

Seqs == 1..MaxSeq
(* A response the client rejects: an error status, a message that is not a  *)
(* response (what an unknown method gets), or one over the size limit.      *)
Kinds == {"reply", "error", "request", "toolong"}
(* The deadline of a connection: none, that of the call a caller is in, or  *)
(* one left behind by a call that is over.                                  *)
Deadlines == {"none", "future", "past"} \cup Callers
Pcs == {"idle", "attempt", "check", "send", "write", "recv", "put",
        "giveup", "panic"}

Init ==
    /\ Pool!Init
    /\ closing = FALSE /\ pending = {} /\ sequence = 0
    /\ pc = [k \in Callers |-> "idle"]
    /\ retry = [k \in Callers |-> 0]
    /\ seq = [k \in Callers |-> 0]
    /\ got = [k \in Callers |-> 0]
    /\ late = [k \in Callers |-> FALSE]
    /\ stats = [k \in Callers |-> 0]
    /\ requests = [c \in Conns |-> {}]
    /\ responses = [c \in Conns |-> <<>>]
    /\ stream = [c \in Conns |-> "whole"]
    /\ rdl = [c \in Conns |-> "none"]
    /\ wdl = [c \in Conns |-> "none"]

-----------------------------------------------------------------------------
(* invoke                                                                   *)

Goto(k, place) == pc' = [pc EXCEPT ![k] = place]

(* A deadline set for k's call, when the call is over, stays on the         *)
(* connections as one that nobody waits for.                                *)
LeftBehind(k, dl) == [c \in Conns |-> IF dl[c] = k THEN "future" ELSE dl[c]]
Leave(k) == rdl' = LeftBehind(k, rdl) /\ wdl' = LeftBehind(k, wdl)

(* invoke returns: got keeps what the caller was given.                     *)
ReturnFromInvoke(k) ==
    /\ Goto(k, "idle")
    /\ Leave(k)
    /\ late' = [late EXCEPT ![k] = FALSE]

(* An attempt failed: the next round of the loop, or the last error.        *)
NextRetry(k) ==
    \/ /\ retry[k] < MaxRetries
       /\ retry' = [retry EXCEPT ![k] = @ + 1]
       /\ Goto(k, "attempt")
       /\ UNCHANGED <<late, rdl, wdl>>
    \/ /\ retry[k] = MaxRetries
       /\ ReturnFromInvoke(k)
       /\ UNCHANGED retry

EndStats(k) == stats' = [stats EXCEPT ![k] = @ - 1]

Invoke(k) ==
    /\ pc[k] = "idle"
    /\ Goto(k, "attempt")
    /\ retry' = [retry EXCEPT ![k] = 0]
    /\ got' = [got EXCEPT ![k] = 0]
    /\ seq' = [seq EXCEPT ![k] = 0]
    /\ stats' = [stats EXCEPT ![k] = 0]
    /\ UNCHANGED <<leaseVars, clientVars, late, wireVars>>

(* The head of the loop: a retry returns ctx.Err() when the context is      *)
(* done, before or during the back-off.                                     *)
CtxDone(k) ==
    /\ pc[k] = "attempt" /\ retry[k] > 0 /\ late[k]
    /\ ReturnFromInvoke(k)
    /\ UNCHANGED <<leaseVars, clientVars, retry, seq, got, stats, requests,
                   responses, stream>>

(* Begin, then discovery.Get fails: End.                                    *)
NoServer(k) ==
    /\ pc[k] = "attempt" /\ ~(retry[k] > 0 /\ late[k])
    /\ NextRetry(k)
    /\ UNCHANGED <<leaseVars, clientVars, seq, got, stats, requests, responses,
                   stream>>

(* Begin, then pool.get fails: no End.                                      *)
NoConnection(k) ==
    /\ pc[k] = "attempt" /\ ~(retry[k] > 0 /\ late[k])
    /\ stats' = [stats EXCEPT ![k] = @ + 1]
    /\ NextRetry(k)
    /\ UNCHANGED <<leaseVars, clientVars, seq, got, requests, responses, stream>>

(* pingCheck, of a connection that was idle for long: it clears the read    *)
(* deadline, and swallows a byte of a response that is there.               *)
PingCheck(c) ==
    /\ stream[c] # "cut"
    /\ rdl' = [rdl EXCEPT ![c] = "none"]
    /\ stream' = IF responses[c] # <<>> THEN [stream EXCEPT ![c] = "garbled"]
                                        ELSE stream

(* Begin, then pool.get succeeds.                                           *)
GetConnection(k) ==
    /\ pc[k] = "attempt" /\ ~(retry[k] > 0 /\ late[k])
    /\ \E c \in Conns :
          /\ Pool!Lease(k, c)
          /\ \/ UNCHANGED <<rdl, stream>>
             \/ where[c] = "pool" /\ PingCheck(c)
    /\ stats' = [stats EXCEPT ![k] = @ + 1]
    /\ seq' = [seq EXCEPT ![k] = 0]
    /\ Goto(k, "check")
    /\ UNCHANGED <<clientVars, retry, got, late, requests, responses, wdl>>

(* newCall rejects the method name, or the client is closing: End, return,  *)
(* and the deferred put.                                                    *)
CheckClosing(k) ==
    /\ pc[k] = "check"
    /\ \/ /\ EndStats(k) /\ Goto(k, "giveup")
       \/ /\ ~closing
          /\ Goto(k, "send") /\ UNCHANGED stats
    /\ UNCHANGED <<leaseVars, clientVars, retry, seq, got, late, wireVars>>

(* conn.Close(): the socket is closed on this side.                         *)
CutOff(c) ==
    /\ stream' = [stream EXCEPT ![c] = "cut"]
    /\ requests' = [requests EXCEPT ![c] = {}]
    /\ responses' = [responses EXCEPT ![c] = <<>>]

(* invoke after a failed sendMsg: close the connection and go on.           *)
SendFailed(k) ==
    /\ Pool!Discard(k)
    /\ CutOff(holder[k])
    /\ EndStats(k)
    /\ NextRetry(k)

\* Mutant: sendMsg does not look at closing again.
AlwaysRegister == TRUE
CanRegister == ~closing

\* Mutant: the number is read but not incremented.
RepeatedSeq == IF sequence = 0 THEN 1 ELSE sequence
NextSeq == sequence + 1

(* sendMsg up to its Unlock: prepareMessage fails, or the client is         *)
(* closing, or the call gets its number and its entry in c.pending.         *)
Register(k) ==
    /\ pc[k] = "send"
    /\ \/ /\ SendFailed(k)
          /\ UNCHANGED <<clientVars, seq, got>>
       \/ /\ CanRegister
          /\ sequence < MaxSeq
          /\ sequence' = NextSeq
          /\ seq' = [seq EXCEPT ![k] = NextSeq]
          /\ pending' = pending \cup {NextSeq}
          /\ Goto(k, "write")
          /\ UNCHANGED <<leaseVars, closing, retry, got, late, stats, wireVars>>

\* Mutant: the deadline of the context is not set on the connection.
KeepDeadline(k, old) == old
(* The deadline k's call has on its connection.                             *)
OwnDeadline(k, old) == IF k \notin Timed THEN old ELSE IF late[k] THEN "past" ELSE k

(* The write succeeds: the server can read the request.                     *)
WriteSucceeds(k) ==
    /\ pc[k] = "write" /\ stream[holder[k]] # "cut"
    /\ OwnDeadline(k, wdl[holder[k]]) # "past"
    /\ wdl' = [wdl EXCEPT ![holder[k]] = OwnDeadline(k, @)]
    /\ rdl' = [rdl EXCEPT ![holder[k]] = OwnDeadline(k, @)]
    /\ requests' = [requests EXCEPT ![holder[k]] = @ \cup {seq[k]}]
    /\ Goto(k, "recv")
    /\ UNCHANGED <<leaseVars, clientVars, retry, seq, got, late, stats,
                   responses, stream>>

(* The write fails: its entry is deleted and the connection closed.         *)
WriteFails(k) ==
    /\ pc[k] = "write"
    /\ pending' = pending \ {seq[k]}
    /\ SendFailed(k)
    /\ UNCHANGED <<closing, sequence, seq, got>>

\* Mutant: the read gives up although no deadline has passed.
TimesOutEarly(c) == TRUE
ReadTimedOut(c) == rdl[c] = "past"

(* recvMsg: Decode fails.  A deadline may pass in the middle of a frame, a  *)
(* frame over the size limit is left unread: both garble what follows.  The *)
(* entry in c.pending stays.                                                *)
DecodeFails(k) ==
    /\ pc[k] = "recv"
    /\ LET c == holder[k]  IN
          \/ /\ ReadTimedOut(c)
             /\ \/ UNCHANGED stream
                \/ responses[c] # <<>> /\ stream' = [stream EXCEPT ![c] = "garbled"]
          \/ /\ \/ stream[c] = "garbled"
                \/ stream[c] = "cut" /\ responses[c] = <<>>
             /\ UNCHANGED stream
          \/ /\ responses[c] # <<>> /\ Head(responses[c]).kind = "toolong"
             /\ stream' = [stream EXCEPT ![c] = "garbled"]
    /\ Goto(k, "put")
    /\ UNCHANGED <<leaseVars, clientVars, retry, seq, got, late, stats,
                   requests, responses, rdl, wdl>>

(* recvMsg: a response is read, looked up by its own number and, if it is   *)
(* expected, taken.  Unmarshal may fail.  Decode touches only a connection  *)
(* the caller has to itself, so it is one step with the lookup.             *)
ReceiveResponse(k) ==
    /\ pc[k] = "recv"
    /\ LET c == holder[k]
           m == Head(responses[c])
       IN /\ responses[c] # <<>> /\ stream[c] # "garbled" /\ rdl[c] # "past"
          /\ m.kind # "toolong"
          /\ responses' = [responses EXCEPT ![c] = Tail(@)]
          /\ pending' = pending \ {m.seq}
          /\ \/ UNCHANGED got
             \/ /\ m.seq \in pending /\ m.kind = "reply"
                /\ got' = [got EXCEPT ![k] = m.seq]
    /\ Goto(k, "put")
    /\ UNCHANGED <<leaseVars, closing, sequence, retry, seq, late, stats,
                   requests, stream, rdl, wdl>>

(* pool.put.  Once the pool is closed, by Close or by UpdateServers of the  *)
(* client, put may find the connection closed or close it, or panic on the  *)
(* closed channel.  Which pools UpdateServers has closed is left out: what  *)
(* it does to connections is what PoolDrops and HangUp do.                  *)
PutConn(k) == Pool!Return(k) \/ Pool!Discard(k)

PutPanics(k) ==
    /\ pc[k] \in {"put", "giveup"}
    /\ Goto(k, "panic")
    /\ UNCHANGED <<leaseVars, clientVars, retry, seq, got, late, stats, wireVars>>

(* After recvMsg: put, End, and return or go on.                            *)
PutAndGoOn(k) ==
    /\ pc[k] = "put"
    /\ PutConn(k)
    /\ EndStats(k)
    /\ IF got[k] # 0 THEN ReturnFromInvoke(k) /\ UNCHANGED retry ELSE NextRetry(k)
    /\ UNCHANGED <<clientVars, seq, got, requests, responses, stream>>

\* Mutant: the early return forgets the connection.
GiveUpWithoutPut(k) ==
    /\ pc[k] = "giveup"
    /\ ReturnFromInvoke(k)
    /\ UNCHANGED <<leaseVars, clientVars, retry, seq, got, stats, requests,
                   responses, stream>>
(* The deferred put of the early returns.                                   *)
GiveUp(k) ==
    /\ pc[k] = "giveup"
    /\ PutConn(k)
    /\ ReturnFromInvoke(k)
    /\ UNCHANGED <<clientVars, retry, seq, got, stats, requests, responses, stream>>

-----------------------------------------------------------------------------
(* Close of the client closes the pools, which closes the connections they  *)
(* know of, held or not, and drops c.pending; all of it holding c.mu.       *)
CloseClient ==
    /\ ~closing
    /\ closing' = TRUE /\ pending' = {}
    /\ \E S \in SUBSET {c \in Conns : where[c] \in {"pool", "held"}} :
          /\ Pool!Drop({c \in S : where[c] = "pool"})
          /\ stream' = [c \in Conns |-> IF c \in S THEN "cut" ELSE stream[c]]
          /\ requests' = [c \in Conns |-> IF c \in S THEN {} ELSE requests[c]]
          /\ responses' = [c \in Conns |-> IF c \in S THEN <<>> ELSE responses[c]]
    /\ UNCHANGED <<sequence, callVars, rdl, wdl>>

(* The pool dials ahead, and gives up a connection nobody holds (too old,   *)
(* or the heartbeat closed it).                                             *)
PoolDials ==
    /\ \E c \in Conns : Pool!Dial(c)
    /\ UNCHANGED <<clientVars, callVars, wireVars>>
PoolDrops ==
    /\ \E c \in Conns : Pool!Drop({c}) /\ CutOff(c)
    /\ UNCHANGED <<clientVars, callVars, rdl, wdl>>

(* Time passes: the deadline of a call, or one a past call left behind.     *)
Passed(k, dl) == [c \in Conns |-> IF dl[c] = k THEN "past" ELSE dl[c]]
Expire(k) ==
    /\ k \in Timed /\ pc[k] \notin {"idle", "panic"} /\ ~late[k]
    /\ late' = [late EXCEPT ![k] = TRUE]
    /\ rdl' = Passed(k, rdl) /\ wdl' = Passed(k, wdl)
    /\ UNCHANGED <<leaseVars, clientVars, pc, retry, seq, got, stats, requests,
                   responses, stream>>
OldDeadlinePasses ==
    /\ \E c \in Conns :
          /\ wdl[c] = "future"
          /\ wdl' = [wdl EXCEPT ![c] = "past"]
          /\ rdl' = [rdl EXCEPT ![c] = IF @ = "future" THEN "past" ELSE @]
    /\ UNCHANGED <<leaseVars, clientVars, callVars, requests, responses, stream>>

-----------------------------------------------------------------------------
(* The server (external).                                                   *)

Answer ==
    /\ \E c \in Conns, kind \in Kinds :
          /\ stream[c] # "cut"
          /\ \E s \in requests[c] :
                /\ requests' = [requests EXCEPT ![c] = @ \ {s}]
                /\ responses' = [responses EXCEPT ![c] =
                                    Append(@, [seq |-> s, kind |-> kind])]
    /\ UNCHANGED <<leaseVars, clientVars, callVars, stream, rdl, wdl>>

(* The server hangs up; what it has sent arrives or is lost.                *)
HangUp ==
    /\ \E c \in Conns :
          /\ where[c] \in {"pool", "held"} /\ stream[c] # "cut"
          /\ stream' = [stream EXCEPT ![c] = "cut"]
          /\ requests' = [requests EXCEPT ![c] = {}]
          /\ \/ stream[c] = "whole" /\ UNCHANGED responses
             \/ responses' = [responses EXCEPT ![c] = <<>>]
    /\ UNCHANGED <<leaseVars, clientVars, callVars, rdl, wdl>>

-----------------------------------------------------------------------------
InvokeStep(k) ==
    \/ CtxDone(k) \/ NoServer(k) \/ NoConnection(k) \/ GetConnection(k)
    \/ CheckClosing(k) \/ Register(k) \/ WriteSucceeds(k) \/ WriteFails(k)
    \/ DecodeFails(k) \/ ReceiveResponse(k)
    \/ PutAndGoOn(k) \/ GiveUp(k) \/ PutPanics(k)

Next ==
    \/ \E k \in Callers : Invoke(k) \/ InvokeStep(k) \/ Expire(k)
    \/ CloseClient \/ PoolDials \/ PoolDrops \/ OldDeadlinePasses
    \/ Answer \/ HangUp

Spec == Init /\ [][Next]_vars

(* A goroutine that can run does, and deadlines pass.  The server and the   *)
(* network owe nothing.                                                     *)
FairSpec ==
    /\ Spec
    /\ \A k \in Callers : WF_vars(InvokeStep(k)) /\ WF_vars(Expire(k))

-----------------------------------------------------------------------------
(* Properties                                                               *)

TypeOK ==
    /\ where \in [Conns -> Pool!Places]
    /\ holder \in [Callers -> Conns \cup {NoConn}]
    /\ closing \in BOOLEAN /\ pending \subseteq Seqs /\ sequence \in 0..MaxSeq
    /\ pc \in [Callers -> Pcs]
    /\ retry \in [Callers -> 0..MaxRetries]
    /\ seq \in [Callers -> 0..MaxSeq] /\ got \in [Callers -> 0..MaxSeq]
    /\ late \in [Callers -> BOOLEAN]
    /\ stats \in [Callers -> 0..MaxRetries + 1]
    /\ requests \in [Conns -> SUBSET Seqs]
    /\ responses \in [Conns -> Seq([seq : Seqs, kind : Kinds])]
    /\ stream \in [Conns -> {"whole", "garbled", "cut"}]
    /\ rdl \in [Conns -> Deadlines] /\ wdl \in [Conns -> Deadlines]

(* The reply a caller is given is the answer to the request it sent.        *)
(* recvMsg never compares the two: this rests on the exclusive lease and on *)
(* reading every answer before the connection is put back.                  *)
OwnResponse == \A k \in Callers : got[k] # 0 => got[k] = seq[k]

(* Until Close, whatever is unanswered or unread has its entry in pending:  *)
(* recvMsg finds every response it reads, and "missing sequence" is never   *)
(* reported.                                                                *)
AnswersExpected ==
    ~closing => \A c \in Conns :
        /\ requests[c] \subseteq pending
        /\ \A i \in DOMAIN responses[c] : responses[c][i].seq \in pending

(* invoke gives back, closes or (on a panic) dies with its connection on    *)
(* every path: no caller outside invoke holds one.                          *)
ReturnedHoldsNothing == \A k \in Callers : pc[k] = "idle" => holder[k] = NoConn

(* Nothing is added to c.pending after Close, when it is nil: sendMsg tests *)
(* closing in the critical section that adds the entry.                     *)
NilPendingNotWritten == [][closing => pending' \subseteq pending]_vars

(* A call with a deadline returns, even if the server never answers.        *)
TimedReturns ==
    \A k \in Timed : pc[k] = "attempt" ~> pc[k] \in {"idle", "panic"}

-----------------------------------------------------------------------------
(* What comments say of these calls, and the code does not do.              *)

(* client.go: "pending represents a request that is being processed".       *)
PendingIsProcessed ==
    \A s \in pending : \E k \in Callers : seq[k] = s /\ pc[k] # "idle"

(* stats/handler.go: "End contains stats when an RPC ends".  An invocation  *)
(* that has returned has ended every attempt it began.                      *)
AttemptsEnded == \A k \in Callers : pc[k] = "idle" => stats[k] = 0

=============================================================================

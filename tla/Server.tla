------------------------------- MODULE Server -------------------------------
(***************************************************************************)
(* The server (server.go): the accept loop, one goroutine per connection,  *)
(* requests of a connection processed concurrently, directly or through    *)
(* the queue of the worker pool, and Stop or GracefulStop at any time.     *)
(*                                                                         *)
(* A critical section of s.mu is one step, with one exception: removeConn  *)
(* stops waiting for s.mu after 5 seconds, and the goroutine it leaves     *)
(* behind locks s.mu later and never unlocks it.  mu says whether that has *)
(* happened; every step that locks s.mu needs it free.  Of the scaling of  *)
(* the worker pool only the lock is modelled here: Workers goroutines take *)
(* requests.                                                               *)
(***************************************************************************)
EXTENDS Integers, Sequences, FiniteSets, Functions

CONSTANTS
    Conns,         \* connections that clients open
    Reqs,          \* requests that clients send, each on one connection
    TimedReqs,     \* those that carry a timeout
    None,
    Auth,          \* opt.AuthFunc is set
    UseWorkerPool, \* opt.enableWorkerPool
    QueueCap,      \* opt.taskQueueSize
    Workers,       \* worker goroutines
    MaxTimeouts    \* bound on how often removeConn's timers fire

ASSUME ServerAssumption ==
    /\ TimedReqs \subseteq Reqs
    /\ None \notin Conns \cup Reqs
    /\ Auth \in BOOLEAN /\ UseWorkerPool \in BOOLEAN
    /\ QueueCap \in Nat \ {0} /\ Workers \in Nat /\ MaxTimeouts \in Nat

VARIABLES
    crashed,       \* a panic nobody recovers has ended the process
    mu,            \* s.mu: "free", or "stray" when locked for ever
    timeouts,      \* how often removeConn's timers have fired
    strays,        \* connections whose abandoned goroutine still waits for s.mu
    shutdown,      \* s.inShutdown, and s.done closed
    listening,     \* the listener is open
    lpc, lconn,    \* serveListener: where, and the connection accepted
    conns,         \* s.conns
    connsNil,      \* s.conns is nil
    serveWG,       \* s.serveWG
    cpc,           \* serveConn of each connection: where
    rm,            \* removeConn of each connection: where
    open,          \* connections whose socket is open
    connMutexes,   \* s.connMutexes; a mutex is named by the request that made it
    rpc,           \* where each request is
    rconn,         \* the connection it came on
    rmu,           \* the mutex it found for its reply
    refused,       \* requests that failed auth
    live,          \* requests being served with a timeout, their context alive
    handleMsgCount,
    queue,         \* the buffer of s.workerFuncChannel
    queueClosed,
    onWorker,      \* requests taken by a worker that has not finished them
    connEnded,     \* connections whose ConnEnd was reported to the stats handlers
    spc,           \* stop: where
    waited,        \* stop saw serveWG reach zero
    draining       \* the goroutine of stop that drains the queue

lockVars == <<mu, timeouts, strays>>
acceptVars == <<listening, lpc, lconn>>
connVars == <<conns, connsNil, serveWG, cpc, rm, open, connMutexes,
              connEnded>>
reqVars == <<rpc, rconn, rmu, refused, live, handleMsgCount>>
queueVars == <<queue, queueClosed, draining, onWorker>>
stopVars == <<shutdown, spc, waited>>
vars == <<crashed, lockVars, acceptVars, connVars, reqVars, queueVars, stopVars>>

ConnStages == {"none", "got", "start", "loop", "read", "exit", "removing",
               "done", "refused"}
RemoveStages == {"no", "lock", "entry", "close", "done"}
ReqStages == {"unsent", "dispatch", "scale", "queued", "taken", "run", "handle",
              "reply", "locking", "writing", "answered", "unanswered", "dropped"}
Over == {"answered", "unanswered", "dropped"}

Init ==
    /\ crashed = FALSE /\ mu = "free" /\ timeouts = 0 /\ strays = {}
    /\ shutdown = FALSE
    /\ listening = TRUE /\ lpc = "accept" /\ lconn = None
    /\ conns = {} /\ connsNil = FALSE /\ serveWG = 0
    /\ cpc = [c \in Conns |-> "none"] /\ rm = [c \in Conns |-> "no"]
    /\ open = {} /\ connMutexes = [c \in Conns |-> None]
    /\ rpc = [r \in Reqs |-> "unsent"] /\ rconn = [r \in Reqs |-> None]
    /\ rmu = [r \in Reqs |-> None] /\ refused = {} /\ live = {}
    /\ handleMsgCount = 0
    /\ queue = <<>> /\ queueClosed = FALSE /\ draining = FALSE /\ onWorker = {}
    /\ connEnded = {} /\ spc = "idle" /\ waited = FALSE

-----------------------------------------------------------------------------
(* serveListener                                                            *)

Accept ==
    /\ lpc = "accept" /\ listening
    /\ \E c \in Conns :
          /\ cpc[c] = "none"
          /\ cpc' = [cpc EXCEPT ![c] = "got"] /\ lconn' = c
          /\ open' = open \cup {c}
    /\ lpc' = "add"
    /\ UNCHANGED <<lockVars, listening, conns, connsNil, serveWG, rm,
                   connMutexes, connEnded, reqVars, queueVars, stopVars>>

(* Accept fails on the closed listener: serveListener returns.              *)
AcceptFails ==
    /\ lpc = "accept" /\ ~listening
    /\ lpc' = "returned"
    /\ UNCHANGED <<lockVars, listening, lconn, connVars, reqVars, queueVars,
                   stopVars>>

AddConn ==
    /\ lpc = "add" /\ mu = "free"
    /\ IF connsNil
          THEN /\ open' = open \ {lconn}
               /\ cpc' = [cpc EXCEPT ![lconn] = "refused"]
               /\ lpc' = "accept" /\ lconn' = None
               /\ UNCHANGED conns
          ELSE /\ conns' = conns \cup {lconn}
               /\ lpc' = "spawn"
               /\ UNCHANGED <<open, cpc, lconn>>
    /\ UNCHANGED <<lockVars, listening, connsNil, serveWG, rm, connMutexes,
                   connEnded, reqVars, queueVars, stopVars>>

SpawnServeConn ==
    /\ lpc = "spawn"
    /\ serveWG' = serveWG + 1
    /\ cpc' = [cpc EXCEPT ![lconn] = "start"]
    /\ lpc' = "accept" /\ lconn' = None
    /\ UNCHANGED <<lockVars, listening, conns, connsNil, rm, open, connMutexes,
                   connEnded, reqVars, queueVars, stopVars>>

-----------------------------------------------------------------------------
(* serveConn                                                                *)

Move(c, stage) == cpc' = [cpc EXCEPT ![c] = stage]
Remove(c) == Move(c, "removing") /\ rm' = [rm EXCEPT ![c] = "lock"]

\* Mutant: a connection is served although the server is shutting down.
StartUnchecked(c) ==
    /\ cpc[c] = "start"
    /\ Move(c, "loop") /\ UNCHANGED rm
    /\ UNCHANGED <<lockVars, acceptVars, conns, connsNil, serveWG, open,
                   connMutexes, connEnded, reqVars, queueVars, stopVars>>
StartConn(c) ==
    /\ cpc[c] = "start"
    /\ IF shutdown THEN Remove(c) ELSE Move(c, "loop") /\ UNCHANGED rm
    /\ UNCHANGED <<lockVars, acceptVars, conns, connsNil, serveWG, open,
                   connMutexes, connEnded, reqVars, queueVars, stopVars>>

LoopConn(c) ==
    /\ cpc[c] = "loop"
    /\ Move(c, IF shutdown THEN "exit" ELSE "read")
    /\ UNCHANGED <<lockVars, acceptVars, conns, connsNil, serveWG, rm, open,
                   connMutexes, connEnded, reqVars, queueVars, stopVars>>

(* A request arrives, and its goroutine starts.                             *)
ReadRequest(c) ==
    /\ cpc[c] = "read"
    /\ \E r \in Reqs :
          /\ rpc[r] = "unsent"
          /\ rpc' = [rpc EXCEPT ![r] = "dispatch"]
          /\ rconn' = [rconn EXCEPT ![r] = c]
          /\ live' = live \cup ({r} \cap TimedReqs)
    /\ Move(c, "loop")
    /\ UNCHANGED <<lockVars, acceptVars, conns, connsNil, serveWG, rm, open,
                   connMutexes, connEnded, rmu, refused, handleMsgCount, queueVars, stopVars>>

(* The client hangs up, the read times out or the data is wrong.            *)
ReadFails(c) ==
    /\ cpc[c] = "read"
    /\ Move(c, "exit")
    /\ UNCHANGED <<lockVars, acceptVars, conns, connsNil, serveWG, rm, open,
                   connMutexes, connEnded, reqVars, queueVars, stopVars>>

(* The deferred function.  Waiting for s.done never blocks: it is closed    *)
(* in the step that sets inShutdown.                                        *)
ExitConn(c) ==
    /\ cpc[c] = "exit"
    /\ Remove(c)
    /\ connEnded' = connEnded \cup {c}
    /\ UNCHANGED <<lockVars, acceptVars, conns, connsNil, serveWG, open,
                   connMutexes, reqVars, queueVars, stopVars>>

(* removeConn with the lock: delete, Broadcast, unlock.                     *)
RemoveLocked(c) ==
    /\ rm[c] = "lock" /\ mu = "free"
    /\ conns' = conns \ {c}
    /\ rm' = [rm EXCEPT ![c] = "entry"]
    /\ UNCHANGED <<lockVars, acceptVars, connsNil, serveWG, cpc, open,
                   connMutexes, connEnded, reqVars, queueVars, stopVars>>

(* A timer of removeConn fires: s.mu is never unlocked, or something was    *)
(* slow.                                                                    *)
TimerFires ==
    \/ mu = "stray" /\ UNCHANGED timeouts
    \/ timeouts < MaxTimeouts /\ timeouts' = timeouts + 1

(* removeConn gives up waiting; the goroutine that locks stays behind.      *)
RemoveTimesOut(c) ==
    /\ rm[c] = "lock" /\ TimerFires
    /\ rm' = [rm EXCEPT ![c] = "entry"]
    /\ strays' = strays \cup {c}
    /\ UNCHANGED <<mu, acceptVars, conns, connsNil, serveWG, cpc, open,
                   connMutexes, connEnded, reqVars, queueVars, stopVars>>

StrayLocks ==
    /\ mu = "free"
    /\ \E c \in strays : strays' = strays \ {c}
    /\ mu' = "stray"
    /\ UNCHANGED <<timeouts, acceptVars, connVars, reqVars, queueVars, stopVars>>

\* Mutant: the connection is not closed.
RemoveEntryOnly(c) ==
    /\ rm[c] = "entry"
    /\ connMutexes' = [connMutexes EXCEPT ![c] = None]
    /\ rm' = [rm EXCEPT ![c] = "done"]
    /\ UNCHANGED <<lockVars, acceptVars, conns, connsNil, serveWG, cpc, open,
                   connEnded, reqVars, queueVars, stopVars>>
RemoveEntry(c) ==
    /\ rm[c] = "entry"
    /\ connMutexes' = [connMutexes EXCEPT ![c] = None]
    /\ rm' = [rm EXCEPT ![c] = "close"]
    /\ UNCHANGED <<lockVars, acceptVars, conns, connsNil, serveWG, cpc, open,
                   connEnded, reqVars, queueVars, stopVars>>

CloseConn(c) ==
    /\ rm[c] = "close"
    /\ open' = open \ {c}
    /\ rm' = [rm EXCEPT ![c] = "done"]
    /\ UNCHANGED <<lockVars, acceptVars, conns, connsNil, serveWG, cpc,
                   connMutexes, connEnded, reqVars, queueVars, stopVars>>

\* Mutant: the early return of serveConn skips Done.
DoneOnlyAtEnd(c) ==
    /\ cpc[c] = "removing"
    /\ IF rm[c] = "done" THEN UNCHANGED timeouts ELSE TimerFires
    /\ Move(c, "done")
    /\ serveWG' = IF c \in connEnded THEN serveWG - 1 ELSE serveWG
    /\ UNCHANGED <<mu, strays, acceptVars, conns, connsNil, rm, open, connMutexes,
                   connEnded, reqVars, queueVars, stopVars>>
(* removeConn returns when its goroutine is done, or after 10 seconds.      *)
ConnDone(c) ==
    /\ cpc[c] = "removing"
    /\ IF rm[c] = "done" THEN UNCHANGED timeouts ELSE TimerFires
    /\ Move(c, "done")
    /\ serveWG' = serveWG - 1
    /\ UNCHANGED <<mu, strays, acceptVars, conns, connsNil, rm, open, connMutexes,
                   connEnded, reqVars, queueVars, stopVars>>

-----------------------------------------------------------------------------
(* serveRequest                                                             *)

Step(r, stage) == rpc' = [rpc EXCEPT ![r] = stage]

(* AuthFunc returns an error: the reply says so, and nothing is processed.  *)
AuthFails(r) ==
    /\ rpc[r] = "dispatch" /\ Auth
    /\ Step(r, "reply")
    /\ refused' = refused \cup {r}
    /\ UNCHANGED <<lockVars, acceptVars, connVars, rconn, rmu, live,
                   handleMsgCount, queueVars, stopVars>>

CanQueue == Len(queue) < QueueCap

(* The send on the queue, or a goroutine of its own when there is no worker *)
(* pool or the queue is full; then quickScaleUp may come first, depending   *)
(* on the queue usage that was measured last and the number of workers.     *)
Dispatch(r) ==
    /\ rpc[r] = "dispatch"
    /\ UseWorkerPool => ~queueClosed
    /\ IF UseWorkerPool /\ CanQueue
          THEN Step(r, "queued") /\ queue' = Append(queue, r)
          ELSE /\ Step(r, "run") \/ (UseWorkerPool /\ Step(r, "scale"))
               /\ UNCHANGED queue
    /\ UNCHANGED <<lockVars, acceptVars, connVars, rconn, rmu, refused, live,
                   handleMsgCount, queueClosed, draining, onWorker, stopVars>>

(* quickScaleUp locks s.mu to start workers.                                *)
ScaleUp(r) ==
    /\ rpc[r] = "scale" /\ mu = "free"
    /\ Step(r, "run")
    /\ UNCHANGED <<lockVars, acceptVars, connVars, rconn, rmu, refused, live,
                   handleMsgCount, queueVars, stopVars>>

(* A send on a closed channel panics, with a default case too, and so does  *)
(* auth when the request has no token; nothing in this goroutine recovers.  *)
DispatchPanics(r) ==
    /\ rpc[r] = "dispatch"
    /\ Auth \/ (UseWorkerPool /\ queueClosed)
    /\ crashed' = TRUE
    /\ UNCHANGED <<lockVars, acceptVars, connVars, reqVars, queueVars, stopVars>>

(* serveRequest returns: its deferred cancel ends the request's context.    *)
(* A request that failed auth is over when it does.                         *)
ServeRequestReturns(r) ==
    /\ r \in live \ refused /\ rpc[r] \notin {"dispatch", "scale"}
    /\ live' = live \ {r}
    /\ UNCHANGED <<lockVars, acceptVars, connVars, rpc, rconn, rmu, refused,
                   handleMsgCount, queueVars, stopVars>>

-----------------------------------------------------------------------------
(* serverWorker: take a request, then read-lock s.mu, then run it.          *)

WorkerTakes ==
    /\ queue # <<>>
    /\ Cardinality(onWorker) < Workers
    /\ Step(Head(queue), "taken")
    /\ onWorker' = onWorker \cup {Head(queue)}
    /\ queue' = Tail(queue)
    /\ UNCHANGED <<lockVars, acceptVars, connVars, rconn, rmu, refused, live,
                   handleMsgCount, queueClosed, draining, stopVars>>

WorkerRuns(r) ==
    /\ rpc[r] = "taken" /\ mu = "free"
    /\ Step(r, "run")
    /\ UNCHANGED <<lockVars, acceptVars, connVars, rconn, rmu, refused, live,
                   handleMsgCount, queueVars, stopVars>>

-----------------------------------------------------------------------------
(* processOneRequest and sendResponse                                       *)

BeginProcessing(r) ==
    /\ rpc[r] = "run"
    /\ Step(r, "handle")
    /\ handleMsgCount' = handleMsgCount + 1
    /\ UNCHANGED <<lockVars, acceptVars, connVars, rconn, rmu, refused, live,
                   queueVars, stopVars>>

(* A heartbeat, a reply or an error of the handler, an unknown method.      *)
Handled(r) ==
    /\ rpc[r] = "handle"
    /\ Step(r, "reply")
    /\ UNCHANGED <<lockVars, acceptVars, connVars, rconn, rmu, refused, live,
                   handleMsgCount, queueVars, stopVars>>

\* Mutant: the decrement is not deferred, so a panic skips it.
CountUnlessPanic(r, panics) == r \notin refused /\ ~panics
(* The deferred decrement; a request that failed auth was not counted.      *)
Uncount(r, panics) == r \notin refused

\* Mutant: a panic ends the worker and nothing replaces it.
EndLosingWorker(r, stage, panics) ==
    /\ Step(r, stage)
    /\ handleMsgCount' = IF Uncount(r, panics) THEN handleMsgCount - 1
                                               ELSE handleMsgCount
    /\ onWorker' = (IF panics THEN onWorker ELSE onWorker \ {r})
    /\ live' = live \ {r}
EndProcessing(r, stage, panics) ==
    /\ Step(r, stage)
    /\ handleMsgCount' = IF Uncount(r, panics) THEN handleMsgCount - 1
                                               ELSE handleMsgCount
    /\ onWorker' = onWorker \ {r} /\ live' = live \ {r}

(* The handler panics, or the service is unknown and srv is nil: the panic  *)
(* is recovered and the client gets no reply.                               *)
HandlerPanics(r) ==
    /\ rpc[r] = "handle"
    /\ EndProcessing(r, "unanswered", TRUE)
    /\ UNCHANGED <<lockVars, acceptVars, connVars, rconn, rmu, refused, queue,
                   queueClosed, draining, stopVars>>

\* Mutant: every caller makes a mutex of its own.
FreshMutex(r) == r
(* The mutex getConnMutex returns to r.                                     *)
ConnMutex(r) ==
    IF connMutexes[rconn[r]] = None THEN r ELSE connMutexes[rconn[r]]

GetConnMutex(r) ==
    /\ rpc[r] = "reply"
    /\ rmu' = [rmu EXCEPT ![r] = ConnMutex(r)]
    /\ connMutexes' = [connMutexes EXCEPT ![rconn[r]] = ConnMutex(r)]
    /\ Step(r, "locking")
    /\ UNCHANGED <<lockVars, acceptVars, conns, connsNil, serveWG, cpc, rm, open,
                   connEnded, rconn, refused, live, handleMsgCount, queueVars,
                   stopVars>>

LockConnMutex(r) ==
    /\ rpc[r] = "locking"
    /\ \A q \in Reqs : rpc[q] = "writing" => rmu[q] # rmu[r]
    /\ Step(r, "writing")
    /\ UNCHANGED <<lockVars, acceptVars, connVars, rconn, rmu, refused, live,
                   handleMsgCount, queueVars, stopVars>>

(* The write, which fails on a closed socket and may fail on an open one.   *)
WriteResponse(r) ==
    /\ rpc[r] = "writing"
    /\ \E stage \in {"answered", "unanswered"} :
          /\ stage = "answered" => rconn[r] \in open
          /\ EndProcessing(r, stage, FALSE)
    /\ UNCHANGED <<lockVars, acceptVars, connVars, rconn, rmu, refused, queue,
                   queueClosed, draining, stopVars>>

-----------------------------------------------------------------------------
(* stop                                                                     *)

StopBegins ==
    /\ spc = "idle"
    /\ shutdown' = TRUE
    /\ spc' = "listener"
    /\ UNCHANGED <<lockVars, acceptVars, connVars, reqVars, queueVars, waited>>

CloseListener ==
    /\ spc = "listener" /\ mu = "free"
    /\ listening' = FALSE
    /\ draining' = UseWorkerPool
    /\ spc' = "wait"
    /\ UNCHANGED <<lockVars, lpc, lconn, connVars, reqVars, queue, queueClosed,
                   onWorker, shutdown, waited>>

(* A request in the queue is received by stop and forgotten.                *)
DrainOne ==
    /\ draining /\ queue # <<>>
    /\ Step(Head(queue), "dropped")
    /\ queue' = Tail(queue) /\ live' = live \ {Head(queue)}
    /\ UNCHANGED <<lockVars, acceptVars, connVars, rconn, rmu, refused,
                   handleMsgCount, queueClosed, draining, onWorker, stopVars>>

(* The queue is found empty, or the 5 seconds are over.                     *)
CloseQueue ==
    /\ draining
    /\ draining' = FALSE /\ queueClosed' = TRUE
    /\ UNCHANGED <<lockVars, acceptVars, connVars, reqVars, queue, onWorker,
                   stopVars>>

\* Mutant: the wait has no timeout.
WaitForever ==
    /\ spc = "wait" /\ serveWG = 0 /\ waited' = TRUE
    /\ \E graceful \in BOOLEAN : spc' = IF graceful THEN "conns" ELSE "nil"
    /\ UNCHANGED <<lockVars, acceptVars, connVars, reqVars, queueVars, shutdown>>
(* serveWG reaches zero, or the 30 seconds are over.  stop reads its        *)
(* argument here only.                                                      *)
WaitServing ==
    /\ spc = "wait"
    /\ \E byItself \in BOOLEAN :
          /\ byItself => serveWG = 0
          /\ waited' = byItself
    /\ \E graceful \in BOOLEAN : spc' = IF graceful THEN "conns" ELSE "nil"
    /\ UNCHANGED <<lockVars, acceptVars, connVars, reqVars, queueVars, shutdown>>

(* Graceful only: conns is empty, or the 30 seconds are over.               *)
WaitConns ==
    /\ spc = "conns"
    /\ spc' = "nil"
    /\ UNCHANGED <<lockVars, acceptVars, connVars, reqVars, queueVars, shutdown,
                   waited>>

ForgetConns ==
    /\ spc = "nil" /\ mu = "free"
    /\ conns' = {} /\ connsNil' = TRUE
    /\ spc' = "done"
    /\ UNCHANGED <<lockVars, acceptVars, serveWG, cpc, rm, open, connMutexes,
                   connEnded, reqVars, queueVars, shutdown, waited>>

-----------------------------------------------------------------------------

Listener == Accept \/ AcceptFails \/ AddConn \/ SpawnServeConn

ConnStep(c) ==
    \/ StartConn(c) \/ LoopConn(c) \/ ReadRequest(c) \/ ReadFails(c)
    \/ ExitConn(c) \/ RemoveLocked(c) \/ RemoveTimesOut(c) \/ RemoveEntry(c)
    \/ CloseConn(c) \/ ConnDone(c)

RequestStep(r) ==
    \/ AuthFails(r) \/ Dispatch(r) \/ ScaleUp(r) \/ WorkerRuns(r)
    \/ BeginProcessing(r) \/ Handled(r) \/ HandlerPanics(r) \/ GetConnMutex(r)
    \/ LockConnMutex(r) \/ WriteResponse(r)

Drain == DrainOne \/ CloseQueue
StopStep == CloseListener \/ WaitServing \/ WaitConns \/ ForgetConns

Quiet ==
    \/ Listener \/ StrayLocks \/ WorkerTakes \/ StopBegins \/ Drain \/ StopStep
    \/ \E c \in Conns : ConnStep(c)
    \/ \E r \in Reqs : RequestStep(r) \/ ServeRequestReturns(r)

Next ==
    /\ ~crashed
    /\ \/ Quiet /\ UNCHANGED crashed
       \/ \E r \in Reqs : DispatchPanics(r)

Spec == Init /\ [][Next]_vars

(***************************************************************************)
(* The goroutines of connections, requests, workers and stop run when they *)
(* can; handlers and writes return; timers fire.  Clients need not         *)
(* connect, send or hang up, and nobody need call Stop.                    *)
(***************************************************************************)
Removal(c) == StartConn(c) \/ LoopConn(c) \/ ExitConn(c) \/ RemoveLocked(c)
              \/ RemoveTimesOut(c) \/ RemoveEntry(c) \/ CloseConn(c) \/ ConnDone(c)
Run(A) == ~crashed /\ A /\ UNCHANGED crashed
FairSpec ==
    /\ Spec
    /\ WF_vars(Run(WorkerTakes)) /\ WF_vars(Run(StopStep))
    /\ \A c \in Conns : WF_vars(Run(Removal(c)))
    /\ \A r \in Reqs : WF_vars(Run(RequestStep(r)))

-----------------------------------------------------------------------------
(* Properties                                                               *)

(* Each variable holds what its field or goroutine of server.go can hold.   *)
TypeOK ==
    /\ crashed \in BOOLEAN /\ mu \in {"free", "stray"}
    /\ timeouts \in 0..MaxTimeouts /\ strays \subseteq Conns
    /\ shutdown \in BOOLEAN /\ listening \in BOOLEAN
    /\ lpc \in {"accept", "add", "spawn", "returned"}
    /\ lconn \in Conns \cup {None}
    /\ conns \subseteq Conns /\ connsNil \in BOOLEAN /\ serveWG \in Nat
    /\ cpc \in [Conns -> ConnStages] /\ rm \in [Conns -> RemoveStages]
    /\ open \subseteq Conns /\ connMutexes \in [Conns -> Reqs \cup {None}]
    /\ connEnded \subseteq Conns
    /\ rpc \in [Reqs -> ReqStages] /\ rconn \in [Reqs -> Conns \cup {None}]
    /\ rmu \in [Reqs -> Reqs \cup {None}]
    /\ refused \subseteq Reqs /\ live \subseteq TimedReqs
    /\ handleMsgCount \in Nat
    /\ queue \in Seq(Reqs) /\ Len(queue) <= QueueCap
    /\ queueClosed \in BOOLEAN /\ draining \in BOOLEAN /\ onWorker \subseteq Reqs
    /\ spc \in {"idle", "listener", "wait", "conns", "nil", "done"}
    /\ waited \in BOOLEAN

Processing == {r \in Reqs \ refused :
                  rpc[r] \in {"handle", "reply", "locking", "writing"}}

(* handleMsgCount is the number of requests inside processOneRequest,       *)
(* however each of them ends: answered, unanswered, or by a panic.          *)
CountExact == handleMsgCount = Cardinality(Processing)

(* serveWG counts the serveConn goroutines, so Wait cannot return while one *)
(* that was started before it runs, and Done never makes it negative.       *)
ServingCounted ==
    serveWG = Cardinality({c \in Conns : cpc[c] \in
                              {"start", "loop", "read", "exit", "removing"}})

(* Until removeConn deletes its entry of connMutexes, two requests of a     *)
(* connection never write their responses to it at the same time.           *)
WriteExclusion ==
    \A r, q \in Reqs :
        /\ r # q /\ rpc[r] = "writing" /\ rpc[q] = "writing"
        /\ rconn[r] = rconn[q]
        => rm[rconn[r]] \in {"close", "done"}

(* Once stop has seen serveWG at zero, no serveConn reads its connection:   *)
(* one that starts later sees inShutdown and removes its connection.        *)
NoReaderAfterWait ==
    waited => \A c \in Conns : cpc[c] \notin {"loop", "read", "exit"}

(* Stop and GracefulStop return, whatever the clients do, or the process    *)
(* ends, or s.mu was left locked by a removeConn that had stopped waiting.  *)
StopReturns == shutdown ~> (spc = "done" \/ crashed \/ mu = "stray")

(* With at least one worker, a request that was read is answered or given   *)
(* up, unless the server is shut down or s.mu was left locked: neither a    *)
(* full queue nor busy workers keep it for ever.                            *)
RequestEnds ==
    Workers > 0 =>
        \A r \in Reqs :
            rpc[r] = "dispatch" ~> (rpc[r] \in Over \/ shutdown \/ mu = "stray")

(* A connection that serveConn has left is closed, also when s.mu is never  *)
(* unlocked or removeConn's timers fire.                                    *)
RemovedIsClosed ==
    \A c \in Conns : cpc[c] = "removing" ~> (c \notin open \/ crashed)

-----------------------------------------------------------------------------
(* Properties that comments state and the code does not have                *)

(* "GracefulStop stops the server gracefully": stop does not crash it.      *)
StopDoesNotCrash == ~crashed

(* "make sure all inflight requests are handled and all drained".           *)
InflightHandled == \A r \in Reqs : rpc[r] # "dropped"

(* "Clean up the connection mutex": a removed connection has no entry.      *)
MutexCleanedUp ==
    \A c \in Conns : rm[c] \in {"close", "done"} => connMutexes[c] = None

(* "Stop stops the server abruptly": no connection is read after it.        *)
StopStops ==
    spc = "done" => \A c \in Conns : cpc[c] \notin {"loop", "read"}

(* "Handle timeout from client": while the handler runs, only the client's  *)
(* timeout ends its context, not the return of serveRequest.                *)
TimeoutEndsContext ==
    \A r \in TimedReqs : rpc[r] = "handle" => r \in live

(* "possible deadlock averted": when removeConn has stopped waiting for     *)
(* s.mu, Stop returns nevertheless, and requests end.                       *)
StopAlwaysReturns == shutdown ~> (spc = "done" \/ crashed)
RequestAlwaysEnds ==
    \A r \in Reqs : rpc[r] = "dispatch" ~> (rpc[r] \in Over \/ shutdown)

(* "ConnEnd contains the stats of a connection when it ends".               *)
ConnEndReported == \A c \in Conns : cpc[c] = "done" => c \in connEnded
=============================================================================

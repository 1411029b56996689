---------------------------- MODULE ServerProofs ----------------------------
(* The counters of the server are exact, responses of a connection are      *)
(* written one at a time, and nothing is read once stop has waited: for any *)
(* number of connections, requests and workers and any size of the queue.   *)
EXTENDS Server, FiniteSetTheorems, TLAPS

-----------------------------------------------------------------------------
(* The inductive invariant, one conjunct per idea.                          *)

Serving == {c \in Conns : cpc[c] \in {"start", "loop", "read", "exit", "removing"}}

(* serveWG counts goroutines that exist one by one, so the set it counts is *)
(* finite.  The connection between Accept and the go statement has no       *)
(* goroutine yet, and what stop has waited for does not come back, because  *)
(* inShutdown was set before.                                               *)
ServingInv ==
    /\ IsFiniteSet(Serving) /\ serveWG = Cardinality(Serving)
    /\ lpc \in {"add", "spawn"} => lconn \in Conns /\ cpc[lconn] = "got"
    /\ spc # "idle" => shutdown
    /\ waited => shutdown
    /\ NoReaderAfterWait

(* A request is counted from run to its end unless auth refused it, which   *)
(* happens before it is queued; a queued request is in the queue once, so   *)
(* a worker and the drain never take the same one.                          *)
CountInv ==
    /\ IsFiniteSet(Processing) /\ CountExact
    /\ \A r \in refused : rpc[r] \in {"reply", "locking", "writing"} \cup Over
    /\ \A i \in DOMAIN queue : rpc[queue[i]] = "queued"
    /\ IsInjective(queue)

(* Until removeConn deletes the entry of a connection, every request that   *)
(* writes to it or waits to do so has the mutex of the entry; a mutex is    *)
(* held by one request.  A connection is removed once.                      *)
MutexInv ==
    /\ \A c \in Conns : cpc[c] \notin {"removing", "done"} => rm[c] = "no"
    /\ \A r \in Reqs : rpc[r] # "unsent" => rconn[r] \in Conns
    /\ \A r \in Reqs :
          /\ rpc[r] \in {"locking", "writing"}
          /\ rm[rconn[r]] \notin {"close", "done"}
          => connMutexes[rconn[r]] # None /\ rmu[r] = connMutexes[rconn[r]]
    /\ \A r, q \in Reqs :
          rpc[r] = "writing" /\ rpc[q] = "writing" /\ rmu[r] = rmu[q] => r = q

ServerInv == TypeOK /\ ServingInv /\ CountInv /\ MutexInv

-----------------------------------------------------------------------------
(* What most proofs below unfold: the groups of variables and the one-line  *)
(* abbreviations of Server.                                                 *)
USE ServerAssumption DEF lockVars, acceptVars, connVars, reqVars, queueVars,
    stopVars, Move, Remove, Step

ServingVars == <<cpc, serveWG, lpc, lconn, spc, shutdown, waited>>

(* At first no connection is served and nobody waits.                       *)
LEMMA InitServing == Init => ServingInv
<1> SUFFICES ASSUME Init
             PROVE  ServingInv
  OBVIOUS
<1>1. Serving = {}
  BY DEF Init, Serving
<1> QED BY <1>1, FS_EmptySet DEF Init, ServingInv, NoReaderAfterWait

(* A goroutine of serveConn moves on: the set that serveWG counts stays.    *)
LEMMA ServingMoves ==
    ASSUME TypeOK, ServingInv, NEW c \in Conns,
           NEW s \in {"loop", "read", "exit", "removing"},
           cpc[c] \in {"start", "loop", "read", "exit"}, cpc' = [cpc EXCEPT ![c] = s],
           waited /\ cpc[c] = "start" => s = "removing",
           UNCHANGED <<serveWG, lpc, lconn, spc, shutdown, waited>>
    PROVE  ServingInv'
<1>1. Serving' = Serving
  BY DEF TypeOK, Serving
<1>2. NoReaderAfterWait'
  BY DEF TypeOK, ServingInv, NoReaderAfterWait, Serving
<1>3. lpc' \in {"add", "spawn"} => lconn' \in Conns /\ cpc'[lconn'] = "got"
  BY DEF TypeOK, ServingInv, Serving
<1> QED BY <1>1, <1>2, <1>3 DEF ServingInv

(* ServingInv is about these variables only.                                *)
LEMMA ServingKept == ServingInv /\ UNCHANGED ServingVars => ServingInv'
  BY DEF ServingInv, ServingVars, Serving, NoReaderAfterWait

(* The accept loop: the go statement follows Add(1), for a connection that  *)
(* no goroutine serves yet.                                                 *)
LEMMA ServingListener ==
    ASSUME TypeOK, ServingInv, Listener
    PROVE  ServingInv'
<1>1. CASE Accept
  <2>1. PICK c \in Conns : cpc[c] = "none" /\ cpc' = [cpc EXCEPT ![c] = "got"]
                            /\ lconn' = c
    BY <1>1, Zenon DEF Accept
  <2>2. Serving' = Serving /\ cpc'[c] = "got"
    BY <2>1 DEF TypeOK, Serving
  <2>3. NoReaderAfterWait'
    BY <1>1, <2>1 DEF Accept, TypeOK, ServingInv, NoReaderAfterWait
  <2> QED BY <1>1, <2>1, <2>2, <2>3 DEF Accept, ServingInv
<1>2. CASE AcceptFails
  BY <1>2 DEF AcceptFails, ServingInv, Serving, NoReaderAfterWait
<1>3. CASE AddConn /\ connsNil
  <2>1. lconn \in Conns /\ cpc[lconn] = "got" /\ cpc' = [cpc EXCEPT ![lconn] = "refused"]
        /\ lpc' = "accept"
    BY <1>3 DEF AddConn, ServingInv
  <2>2. Serving' = Serving
    BY <2>1 DEF TypeOK, Serving
  <2>3. NoReaderAfterWait'
    BY <1>3, <2>1 DEF AddConn, TypeOK, ServingInv, NoReaderAfterWait
  <2> QED BY <1>3, <2>1, <2>2, <2>3 DEF AddConn, ServingInv
<1>4. CASE AddConn /\ ~connsNil
  BY <1>4 DEF AddConn, ServingInv, Serving, NoReaderAfterWait
<1>5. CASE SpawnServeConn
  <2>1. lconn \in Conns /\ cpc[lconn] = "got" /\ cpc' = [cpc EXCEPT ![lconn] = "start"]
        /\ lpc' = "accept" /\ serveWG' = serveWG + 1
    BY <1>5 DEF SpawnServeConn, ServingInv
  <2>2. lconn \notin Serving /\ Serving' = Serving \cup {lconn}
    BY <2>1 DEF TypeOK, Serving
  <2>3. IsFiniteSet(Serving') /\ serveWG' = Cardinality(Serving')
    BY <2>1, <2>2, FS_AddElement DEF ServingInv
  <2>4. NoReaderAfterWait'
    BY <1>5, <2>1 DEF SpawnServeConn, TypeOK, ServingInv, NoReaderAfterWait
  <2> QED BY <1>5, <2>1, <2>3, <2>4 DEF SpawnServeConn, ServingInv
<1> QED BY <1>1, <1>2, <1>3, <1>4, <1>5 DEF Listener

(* serveConn: Done is called once, by the goroutine itself as it ends.      *)
LEMMA ServingConn ==
    ASSUME TypeOK, ServingInv, NEW c \in Conns, ConnStep(c)
    PROVE  ServingInv'
<1>1. CASE StartConn(c)
  <2>1. cpc[c] = "start"
    BY <1>1 DEF StartConn
  <2>2. CASE shutdown
    BY <1>1, <2>1, <2>2, ServingMoves DEF StartConn
  <2>3. CASE ~shutdown
    <3>1. ~waited
      BY <2>3 DEF ServingInv
    <3> QED BY <1>1, <2>1, <2>3, <3>1, ServingMoves DEF StartConn
  <2> QED BY <2>2, <2>3
<1>2. CASE LoopConn(c)
  <2>1. cpc[c] \in {"loop", "read", "exit"}
    BY <1>2 DEF LoopConn
  <2>2. CASE shutdown
    BY <1>2, <2>1, <2>2, ServingMoves, Zenon DEF LoopConn
  <2>3. CASE ~shutdown
    BY <1>2, <2>1, <2>3, ServingMoves, Zenon DEF LoopConn
  <2> QED BY <2>2, <2>3
<1>3. CASE ReadRequest(c)
  <2>1. cpc[c] \in {"loop", "read", "exit"}
    BY <1>3 DEF ReadRequest
  <2> QED BY <1>3, <2>1, ServingMoves, Zenon DEF ReadRequest
<1>4. CASE ReadFails(c)
  <2>1. cpc[c] \in {"loop", "read", "exit"}
    BY <1>4 DEF ReadFails
  <2> QED BY <1>4, <2>1, ServingMoves, Zenon DEF ReadFails
<1>5. CASE ExitConn(c)
  <2>1. cpc[c] \in {"loop", "read", "exit"}
    BY <1>5 DEF ExitConn
  <2> QED BY <1>5, <2>1, ServingMoves, Zenon DEF ExitConn
<1>6. CASE RemoveLocked(c) \/ RemoveTimesOut(c) \/ RemoveEntry(c) \/ CloseConn(c)
  BY <1>6, ServingKept DEF RemoveLocked, RemoveTimesOut, RemoveEntry, CloseConn,
     ServingVars
<1>7. CASE ConnDone(c)
  <2>1. cpc[c] = "removing" /\ cpc' = [cpc EXCEPT ![c] = "done"] /\ serveWG' = serveWG - 1
    BY <1>7 DEF ConnDone
  <2>2. c \in Serving /\ Serving' = Serving \ {c}
    BY <2>1 DEF TypeOK, Serving
  <2>3. IsFiniteSet(Serving') /\ serveWG' = Cardinality(Serving')
    BY <2>1, <2>2, FS_RemoveElement DEF ServingInv
  <2>4. NoReaderAfterWait'
    BY <1>7, <2>1 DEF ConnDone, TypeOK, ServingInv, NoReaderAfterWait
  <2>5. lpc' \in {"add", "spawn"} => lconn' \in Conns /\ cpc'[lconn'] = "got"
    BY <1>7, <2>1 DEF ConnDone, TypeOK, ServingInv
  <2> QED BY <1>7, <2>3, <2>4, <2>5 DEF ConnDone, ServingInv
<1> QED BY <1>1, <1>2, <1>3, <1>4, <1>5, <1>6, <1>7 DEF ConnStep

(* stop: when Wait returns there is no goroutine left to read.              *)
LEMMA ServingStop ==
    ASSUME TypeOK, ServingInv, StopBegins \/ StopStep
    PROVE  ServingInv'
<1>1. CASE StopBegins \/ CloseListener \/ WaitConns \/ ForgetConns
  BY <1>1 DEF StopBegins, CloseListener, WaitConns, ForgetConns, ServingInv,
     Serving, NoReaderAfterWait
<1>2. CASE WaitServing
  <2>1. waited' => serveWG = 0
    BY <1>2 DEF WaitServing
  <2>2. serveWG = 0 => Serving = {}
    BY FS_EmptySet, Zenon DEF ServingInv
  <2>3. NoReaderAfterWait'
    BY <1>2, <2>1, <2>2 DEF WaitServing, NoReaderAfterWait, Serving
  <2> QED BY <1>2, <2>3 DEF WaitServing, ServingInv, Serving
<1> QED BY <1>1, <1>2 DEF StopStep

(* No other step touches what ServingInv is about.                          *)
LEMMA ServingNext ==
    ASSUME TypeOK, ServingInv, Next
    PROVE  ServingInv'
<1>1. CASE Listener
  BY <1>1, ServingListener
<1>2. CASE \E c \in Conns : ConnStep(c)
  BY <1>2, ServingConn
<1>3. CASE StopBegins \/ StopStep
  BY <1>3, ServingStop
<1>4. CASE StrayLocks \/ WorkerTakes \/ Drain
  BY <1>4, ServingKept DEF StrayLocks, WorkerTakes, Drain, DrainOne, CloseQueue,
     ServingVars
<1>5. ASSUME NEW r \in Reqs,
             RequestStep(r) \/ ServeRequestReturns(r) \/ DispatchPanics(r)
      PROVE  ServingInv'
  BY <1>5, ServingKept, Zenon DEF RequestStep, AuthFails, Dispatch, ScaleUp,
     WorkerRuns, BeginProcessing, Handled, HandlerPanics, GetConnMutex, LockConnMutex,
     WriteResponse, ServeRequestReturns, DispatchPanics, ServingVars
<1> QED BY <1>1, <1>2, <1>3, <1>4, <1>5 DEF Next, Quiet

-----------------------------------------------------------------------------
(* The count of requests in processOneRequest.                              *)

CountVars == <<rpc, refused, handleMsgCount, queue>>

(* At first nothing is processed or queued.                                 *)
LEMMA InitCount == Init => CountInv
<1> SUFFICES ASSUME Init
             PROVE  CountInv
  OBVIOUS
<1>1. Processing = {} /\ queue = <<>>
  BY DEF Init, Processing
<1> QED BY <1>1, FS_EmptySet DEF Init, CountInv, CountExact, IsInjective

(* CountInv is about these variables only.                                  *)
LEMMA CountKept == CountInv /\ UNCHANGED CountVars => CountInv'
  BY DEF CountInv, CountVars, CountExact, Processing

(* A request moves between two stages of which neither is queued and both   *)
(* or none is counted.                                                      *)
LEMMA CountMoves ==
    ASSUME TypeOK, CountInv, NEW r \in Reqs, NEW s \in ReqStages,
           rpc' = [rpc EXCEPT ![r] = s], rpc[r] # "queued",
           r \in refused => s \in {"reply", "locking", "writing"} \cup Over,
           r \in refused \/ (rpc[r] \in {"handle", "reply", "locking", "writing"}
                              <=> s \in {"handle", "reply", "locking", "writing"}),
           UNCHANGED <<refused, handleMsgCount, queue>>
    PROVE  CountInv'
<1>1. Processing' = Processing
  BY DEF TypeOK, Processing
<1>2. \A q \in refused' : rpc'[q] \in {"reply", "locking", "writing"} \cup Over
  BY DEF TypeOK, CountInv
<1>3. \A i \in DOMAIN queue' : rpc'[queue'[i]] = "queued"
  BY DEF TypeOK, CountInv
<1> QED BY <1>1, <1>2, <1>3 DEF CountInv, CountExact

(* A request leaves processOneRequest: a refused one was never counted.     *)
LEMMA CountEnds ==
    ASSUME TypeOK, CountInv, NEW r \in Reqs, NEW s \in Over,
           rpc[r] \in {"handle", "reply", "locking", "writing"},
           rpc' = [rpc EXCEPT ![r] = s],
           handleMsgCount' = IF r \notin refused THEN handleMsgCount - 1
                                                 ELSE handleMsgCount,
           UNCHANGED <<refused, queue>>
    PROVE  CountInv'
<1>1. s \in ReqStages /\ s \notin {"handle", "reply", "locking", "writing"}
  BY DEF Over, ReqStages
<1>2. CASE r \in refused
  <2>1. handleMsgCount' = handleMsgCount
    BY <1>2
  <2> QED BY <1>1, <1>2, <2>1, CountMoves, Zenon
<1>3. CASE r \notin refused
  <2>1. handleMsgCount' = handleMsgCount - 1
    BY <1>3
  <2>2. r \in Processing /\ Processing' = Processing \ {r}
    BY <1>1, <1>3 DEF TypeOK, Processing
  <2>3. IsFiniteSet(Processing') /\ CountExact'
    BY <2>1, <2>2, FS_RemoveElement DEF CountInv, CountExact
  <2>4. \A q \in refused' : rpc'[q] \in {"reply", "locking", "writing"} \cup Over
    BY <1>1, <1>3 DEF TypeOK, CountInv
  <2>5. \A i \in DOMAIN queue' : rpc'[queue'[i]] = "queued"
    BY <1>1 DEF TypeOK, CountInv
  <2> QED BY <2>3, <2>4, <2>5 DEF CountInv
<1> QED BY <1>2, <1>3

(* The request at the head of the queue leaves it, for a worker or dropped. *)
LEMMA CountDequeues ==
    ASSUME TypeOK, CountInv, queue # <<>>, NEW s \in {"taken", "dropped"},
           rpc' = [rpc EXCEPT ![Head(queue)] = s], queue' = Tail(queue),
           UNCHANGED <<refused, handleMsgCount>>
    PROVE  CountInv'
<1> DEFINE r == Head(queue)
<1>1. /\ queue \in Seq(Reqs) /\ Len(queue) \in Nat /\ Len(queue) > 0
      /\ DOMAIN queue = 1..Len(queue) /\ r = queue[1] /\ r \in Reqs
      /\ DOMAIN queue' = 1..(Len(queue) - 1)
      /\ \A i \in 1..(Len(queue) - 1) : queue'[i] = queue[i+1]
  BY DEF TypeOK
<1>2. 1 \in DOMAIN queue /\ \A i \in 1..(Len(queue) - 1) : i+1 \in DOMAIN queue /\ i+1 # 1
  BY <1>1
<1> HIDE DEF r
<1>3. rpc[r] = "queued" /\ rpc' = [rpc EXCEPT ![r] = s]
  BY <1>1, <1>2 DEF CountInv, r
<1>4. Processing' = Processing
  BY <1>1, <1>3 DEF TypeOK, Processing
<1>5. \A q \in refused' : rpc'[q] \in {"reply", "locking", "writing"} \cup Over
  BY <1>1, <1>3 DEF TypeOK, CountInv, Over
<1>6. \A i \in DOMAIN queue' : rpc'[queue'[i]] = "queued"
  <2> SUFFICES ASSUME NEW i \in 1..(Len(queue) - 1)
               PROVE  rpc'[queue[i+1]] = "queued"
    BY <1>1
  <2>1. queue[i+1] # r /\ queue[i+1] \in Reqs /\ rpc[queue[i+1]] = "queued"
    BY <1>1, <1>2 DEF CountInv, IsInjective
  <2> QED BY <1>1, <1>3, <2>1 DEF TypeOK
<1>7. IsInjective(queue')
  <2> SUFFICES ASSUME NEW a \in 1..(Len(queue) - 1), NEW b \in 1..(Len(queue) - 1),
                      queue[a+1] = queue[b+1]
               PROVE  a = b
    BY <1>1 DEF IsInjective
  <2>1. a+1 = b+1
    BY <1>2 DEF CountInv, IsInjective
  <2> QED BY <2>1
<1> QED BY <1>4, <1>5, <1>6, <1>7 DEF CountInv, CountExact

(* A request that waits in the queue is not in it yet when it is sent.      *)
LEMMA CountDispatch ==
    ASSUME TypeOK, CountInv, NEW r \in Reqs, Dispatch(r)
    PROVE  CountInv'
<1>1. rpc[r] = "dispatch" /\ r \notin refused
  BY DEF Dispatch, CountInv, Over
<1>2. CASE ~(UseWorkerPool /\ CanQueue)
  <2>1. PICK s \in {"run", "scale"} : rpc' = [rpc EXCEPT ![r] = s]
    BY <1>2 DEF Dispatch
  <2>2. UNCHANGED <<refused, handleMsgCount, queue>>
    BY <1>2 DEF Dispatch
  <2> QED BY <1>1, <2>1, <2>2, CountMoves, Zenon DEF ReqStages
<1>3. CASE UseWorkerPool /\ CanQueue
  <2>1. rpc' = [rpc EXCEPT ![r] = "queued"] /\ queue' = Append(queue, r)
        /\ UNCHANGED <<refused, handleMsgCount>>
    BY <1>3 DEF Dispatch
  <2>2. /\ queue \in Seq(Reqs) /\ Len(queue) \in Nat /\ DOMAIN queue = 1..Len(queue)
        /\ DOMAIN queue' = 1..(Len(queue) + 1) /\ queue'[Len(queue) + 1] = r
        /\ \A i \in 1..Len(queue) : queue'[i] = queue[i]
    BY <2>1 DEF TypeOK
  <2>3. \A i \in DOMAIN queue' : i = Len(queue) + 1 \/ i \in DOMAIN queue
    BY <2>2
  <2>4. \A i \in DOMAIN queue : queue[i] \in Reqs /\ queue[i] # r /\ rpc[queue[i]] = "queued"
    BY <1>1, <2>2 DEF CountInv
  <2>5. Processing' = Processing
    BY <1>1, <2>1 DEF TypeOK, Processing
  <2>6. \A q \in refused' : rpc'[q] \in {"reply", "locking", "writing"} \cup Over
    BY <1>1, <2>1 DEF TypeOK, CountInv
  <2>7. \A i \in DOMAIN queue' : rpc'[queue'[i]] = "queued"
    BY <2>1, <2>2, <2>3, <2>4 DEF TypeOK
  <2>8. IsInjective(queue')
    BY <2>2, <2>3, <2>4 DEF CountInv, IsInjective
  <2> QED BY <2>1, <2>5, <2>6, <2>7, <2>8 DEF CountInv, CountExact
<1> QED BY <1>2, <1>3

(* The steps of a request: one counts it, one of several uncounts it.       *)
LEMMA CountRequest ==
    ASSUME TypeOK, CountInv, NEW r \in Reqs, RequestStep(r)
    PROVE  CountInv'
<1>1. CASE AuthFails(r)
  <2>1. /\ rpc[r] = "dispatch" /\ rpc' = [rpc EXCEPT ![r] = "reply"]
        /\ refused' = refused \cup {r} /\ UNCHANGED <<handleMsgCount, queue>>
    BY <1>1 DEF AuthFails
  <2>2. Processing' = Processing
    BY <2>1 DEF TypeOK, Processing
  <2>3. \A q \in refused' : rpc'[q] \in {"reply", "locking", "writing"} \cup Over
    BY <2>1 DEF TypeOK, CountInv
  <2>4. \A i \in DOMAIN queue' : rpc'[queue'[i]] = "queued"
    BY <2>1 DEF TypeOK, CountInv
  <2> QED BY <2>1, <2>2, <2>3, <2>4 DEF CountInv, CountExact
<1>2. CASE Dispatch(r)
  BY <1>2, CountDispatch, Zenon
<1>3. CASE WorkerRuns(r) \/ ScaleUp(r)
  <2>1. rpc[r] \in {"taken", "scale"} /\ r \notin refused
    BY <1>3 DEF WorkerRuns, ScaleUp, CountInv, Over
  <2> QED BY <1>3, <2>1, CountMoves, Zenon DEF WorkerRuns, ScaleUp, ReqStages
<1>4. CASE BeginProcessing(r)
  <2>1. /\ rpc[r] = "run" /\ rpc' = [rpc EXCEPT ![r] = "handle"]
        /\ handleMsgCount' = handleMsgCount + 1 /\ UNCHANGED <<refused, queue>>
    BY <1>4 DEF BeginProcessing
  <2>2. r \notin refused
    BY <2>1 DEF CountInv, Over
  <2>3. r \notin Processing /\ Processing' = Processing \cup {r}
    BY <2>1, <2>2 DEF TypeOK, Processing
  <2>4. IsFiniteSet(Processing') /\ CountExact'
    BY <2>1, <2>3, FS_AddElement DEF CountInv, CountExact
  <2>5. \A q \in refused' : rpc'[q] \in {"reply", "locking", "writing"} \cup Over
    BY <2>1, <2>2 DEF TypeOK, CountInv
  <2>6. \A i \in DOMAIN queue' : rpc'[queue'[i]] = "queued"
    BY <2>1 DEF TypeOK, CountInv
  <2> QED BY <2>1, <2>4, <2>5, <2>6 DEF CountInv
<1>5. CASE Handled(r)
  BY <1>5, CountMoves, Zenon DEF Handled, ReqStages
<1>6. CASE HandlerPanics(r)
  BY <1>6, CountEnds, Zenon DEF HandlerPanics, EndProcessing, Uncount, Over
<1>7. CASE GetConnMutex(r)
  BY <1>7, CountMoves, Zenon DEF GetConnMutex, ReqStages
<1>8. CASE LockConnMutex(r)
  BY <1>8, CountMoves, Zenon DEF LockConnMutex, ReqStages
<1>9. CASE WriteResponse(r)
  <2>1. PICK s \in {"answered", "unanswered"} :
           /\ rpc' = [rpc EXCEPT ![r] = s]
           /\ handleMsgCount' = IF r \notin refused THEN handleMsgCount - 1
                                                    ELSE handleMsgCount
    BY <1>9, Zenon DEF WriteResponse, EndProcessing, Uncount
  <2>2. s \in Over
    BY DEF Over
  <2> QED BY <1>9, <2>1, <2>2, CountEnds, Zenon DEF WriteResponse
<1> QED BY <1>1, <1>2, <1>3, <1>4, <1>5, <1>6, <1>7, <1>8, <1>9 DEF RequestStep

(* A request arrives, and the steps that leave the count alone.             *)
LEMMA CountNext ==
    ASSUME TypeOK, CountInv, Next
    PROVE  CountInv'
<1>1. ASSUME NEW r \in Reqs, RequestStep(r)
      PROVE  CountInv'
  BY <1>1, CountRequest
<1>2. CASE WorkerTakes
  BY <1>2, CountDequeues DEF WorkerTakes
<1>3. CASE DrainOne
  BY <1>3, CountDequeues DEF DrainOne
<1>4. ASSUME NEW c \in Conns, ReadRequest(c)
      PROVE  CountInv'
  <2>1. PICK r \in Reqs : rpc[r] = "unsent" /\ rpc' = [rpc EXCEPT ![r] = "dispatch"]
    BY <1>4, Zenon DEF ReadRequest
  <2>2. r \notin refused
    BY <2>1 DEF CountInv, Over
  <2> QED BY <1>4, <2>1, <2>2, CountMoves, Zenon DEF ReadRequest, ReqStages
<1>5. CASE Listener \/ StrayLocks \/ StopBegins \/ CloseQueue \/ StopStep
  BY <1>5, CountKept DEF Listener, Accept, AcceptFails, AddConn, SpawnServeConn,
     StrayLocks, StopBegins, CloseQueue, StopStep, CloseListener, WaitServing,
     WaitConns, ForgetConns, CountVars
<1>6. ASSUME NEW c \in Conns,
             \/ StartConn(c) \/ LoopConn(c) \/ ReadFails(c) \/ ExitConn(c)
             \/ RemoveLocked(c) \/ RemoveTimesOut(c) \/ RemoveEntry(c)
             \/ CloseConn(c) \/ ConnDone(c)
      PROVE  CountInv'
  BY <1>6, CountKept, SMTT(30) DEF StartConn, LoopConn, ReadFails, ExitConn, RemoveLocked,
     RemoveTimesOut, RemoveEntry, CloseConn, ConnDone, CountVars
<1>7. ASSUME NEW r \in Reqs, ServeRequestReturns(r) \/ DispatchPanics(r)
      PROVE  CountInv'
  BY <1>7, CountKept DEF ServeRequestReturns, DispatchPanics, CountVars
<1> QED BY <1>1, <1>2, <1>3, <1>4, <1>5, <1>6, <1>7 DEF Next, Quiet, Drain, ConnStep

-----------------------------------------------------------------------------
(* The mutex of a connection.                                               *)

MutexVars == <<cpc, rm, rpc, rconn, rmu, connMutexes>>

(* At first no request has come and no connection is being removed.         *)
LEMMA InitMutex == Init => MutexInv
  BY DEF Init, MutexInv

(* MutexInv is about these variables only.                                  *)
LEMMA MutexKept == MutexInv /\ UNCHANGED MutexVars => MutexInv'
  BY DEF MutexInv, MutexVars

(* A request moves to a stage in which it has no mutex.                     *)
LEMMA MutexMoves ==
    ASSUME TypeOK, MutexInv, NEW r \in Reqs, NEW s \in ReqStages,
           rpc' = [rpc EXCEPT ![r] = s], rpc[r] # "unsent",
           s \notin {"locking", "writing"},
           UNCHANGED <<cpc, rm, rconn, rmu, connMutexes>>
    PROVE  MutexInv'
<1>1. \A q \in Reqs : /\ rpc'[q] # "unsent" => rpc[q] # "unsent"
                      /\ rpc'[q] \in {"locking", "writing"} => rpc'[q] = rpc[q]
  BY DEF TypeOK
<1> QED BY <1>1 DEF MutexInv

(* Connections move on, and removeConn with them.                           *)
LEMMA MutexConnMoves ==
    ASSUME MutexInv,
           \A d \in Conns : cpc'[d] \notin {"removing", "done"} => rm'[d] = "no",
           \A d \in Conns : rm[d] \in {"close", "done"} => rm'[d] \in {"close", "done"},
           UNCHANGED <<rpc, rconn, rmu, connMutexes>>
    PROVE  MutexInv'
<1>1. \A r \in Reqs : rpc[r] \in {"locking", "writing"} => rconn[r] \in Conns
  BY DEF MutexInv
<1> QED BY <1>1 DEF MutexInv

(* serveConn and removeConn.                                                *)
LEMMA MutexConn ==
    ASSUME TypeOK, MutexInv, NEW c \in Conns, ConnStep(c)
    PROVE  MutexInv'
<1>0. cpc \in [Conns -> ConnStages] /\ rm \in [Conns -> RemoveStages]
      /\ \A d \in Conns : cpc[d] \notin {"removing", "done"} => rm[d] = "no"
  BY DEF TypeOK, MutexInv
<1>1. CASE StartConn(c) \/ LoopConn(c) \/ ReadFails(c) \/ ExitConn(c)
           \/ RemoveLocked(c) \/ RemoveTimesOut(c) \/ CloseConn(c) \/ ConnDone(c)
  <2>1. UNCHANGED <<rpc, rconn, rmu, connMutexes>>
    BY <1>1 DEF StartConn, LoopConn, ReadFails, ExitConn, RemoveLocked, RemoveTimesOut,
       CloseConn, ConnDone
  <2>2. \A d \in Conns : cpc'[d] \notin {"removing", "done"} => rm'[d] = "no"
    BY <1>0, <1>1 DEF StartConn, LoopConn, ReadFails, ExitConn, RemoveLocked,
       RemoveTimesOut, CloseConn, ConnDone
  <2>3. \A d \in Conns : rm[d] \in {"close", "done"} => rm'[d] \in {"close", "done"}
    BY <1>0, <1>1 DEF StartConn, LoopConn, ReadFails, ExitConn, RemoveLocked,
       RemoveTimesOut, CloseConn, ConnDone
  <2> QED BY <2>1, <2>2, <2>3, MutexConnMoves
<1>2. CASE ReadRequest(c)
  <2>1. PICK r \in Reqs : rpc[r] = "unsent" /\ rpc' = [rpc EXCEPT ![r] = "dispatch"]
                           /\ rconn' = [rconn EXCEPT ![r] = c]
    BY <1>2, Zenon DEF ReadRequest
  <2>2. /\ cpc[c] = "read" /\ cpc' = [cpc EXCEPT ![c] = "loop"]
        /\ UNCHANGED <<rm, rmu, connMutexes>>
    BY <1>2, Zenon DEF ReadRequest
  <2>3. \A d \in Conns : cpc'[d] \notin {"removing", "done"} => rm'[d] = "no"
    BY <1>0, <2>2 DEF TypeOK, MutexInv
  <2>4. \A q \in Reqs : rpc'[q] # "unsent" => rconn'[q] \in Conns
    BY <2>1 DEF TypeOK, MutexInv
  <2>5. \A q \in Reqs : rpc'[q] \in {"locking", "writing"} =>
           rpc'[q] = rpc[q] /\ rconn'[q] = rconn[q]
    BY <2>1 DEF TypeOK
  <2>6. \A q \in Reqs :
           /\ rpc'[q] \in {"locking", "writing"} /\ rm'[rconn'[q]] \notin {"close", "done"}
           => connMutexes'[rconn'[q]] # None /\ rmu'[q] = connMutexes'[rconn'[q]]
    BY <2>2, <2>5 DEF MutexInv
  <2>7. \A p, q \in Reqs :
           rpc'[p] = "writing" /\ rpc'[q] = "writing" /\ rmu'[p] = rmu'[q] => p = q
    BY <2>2, <2>5 DEF MutexInv
  <2> QED BY <2>3, <2>4, <2>6, <2>7, Zenon DEF MutexInv
<1>3. CASE RemoveEntry(c)
  <2>1. /\ rm[c] = "entry" /\ rm' = [rm EXCEPT ![c] = "close"]
        /\ connMutexes' = [connMutexes EXCEPT ![c] = None]
        /\ UNCHANGED <<cpc, rpc, rconn, rmu>>
    BY <1>3 DEF RemoveEntry
  <2>2. \A d \in Conns : cpc'[d] \notin {"removing", "done"} => rm'[d] = "no"
    BY <1>0, <2>1 DEF TypeOK, MutexInv
  <2>3. \A d \in Conns : rm'[d] \notin {"close", "done"} =>
           rm[d] \notin {"close", "done"} /\ connMutexes'[d] = connMutexes[d]
    BY <2>1 DEF TypeOK
  <2>4. \A r \in Reqs : rpc[r] \in {"locking", "writing"} => rconn[r] \in Conns
    BY DEF MutexInv
  <2> QED BY <2>1, <2>2, <2>3, <2>4 DEF MutexInv
<1> QED BY <1>1, <1>2, <1>3 DEF ConnStep

(* sendResponse finds the mutex of the entry or makes the entry, and locks  *)
(* it only when no other request holds it.                                  *)
LEMMA MutexRequest ==
    ASSUME TypeOK, MutexInv, NEW r \in Reqs, RequestStep(r)
    PROVE  MutexInv'
<1>1. CASE GetConnMutex(r)
  <2> DEFINE m == ConnMutex(r)
             c == rconn[r]
  <2>1. /\ rpc[r] = "reply" /\ rpc' = [rpc EXCEPT ![r] = "locking"]
        /\ rmu' = [rmu EXCEPT ![r] = m]
        /\ connMutexes' = [connMutexes EXCEPT ![c] = m]
        /\ UNCHANGED <<cpc, rm, rconn>>
    BY <1>1 DEF GetConnMutex
  <2>2. c \in Conns /\ m # None /\ (connMutexes[c] # None => m = connMutexes[c])
    BY <2>1 DEF MutexInv, ConnMutex, TypeOK
  <2> HIDE DEF m, c
  <2>3. \A d \in Conns : cpc'[d] \notin {"removing", "done"} => rm'[d] = "no"
    BY <2>1, Zenon DEF MutexInv
  <2>4. \A q \in Reqs : rpc'[q] # "unsent" => rconn'[q] \in Conns
    BY <2>1 DEF TypeOK, MutexInv
  <2>5. ASSUME NEW q \in Reqs, rpc'[q] \in {"locking", "writing"},
               rm'[rconn'[q]] \notin {"close", "done"}
        PROVE  connMutexes'[rconn'[q]] # None /\ rmu'[q] = connMutexes'[rconn'[q]]
    <3>1. CASE q = r
      BY <2>1, <2>2, <3>1 DEF TypeOK, c
    <3>2. CASE q # r
      <4>1. /\ rpc'[q] = rpc[q] /\ rmu'[q] = rmu[q] /\ rconn'[q] = rconn[q]
            /\ rm' = rm /\ rconn[q] \in Conns
        BY <2>1, <2>4, <2>5, <3>2, SMTT(30) DEF TypeOK
      <4>2. connMutexes[rconn[q]] # None /\ rmu[q] = connMutexes[rconn[q]]
        BY <2>5, <4>1 DEF MutexInv
      <4> QED BY <2>1, <2>2, <4>1, <4>2 DEF TypeOK
    <3> QED BY <3>1, <3>2
  <2>6. \A p, q \in Reqs :
           rpc'[p] = "writing" /\ rpc'[q] = "writing" /\ rmu'[p] = rmu'[q] => p = q
    BY <2>1 DEF TypeOK, MutexInv
  <2> QED BY <2>3, <2>4, <2>5, <2>6, Zenon DEF MutexInv
<1>2. CASE LockConnMutex(r)
  <2>1. /\ rpc[r] = "locking" /\ rpc' = [rpc EXCEPT ![r] = "writing"]
        /\ \A q \in Reqs : rpc[q] = "writing" => rmu[q] # rmu[r]
        /\ UNCHANGED <<cpc, rm, rconn, rmu, connMutexes>>
    BY <1>2, Zenon DEF LockConnMutex
  <2>2. \A q \in Reqs : /\ rpc'[q] # "unsent" => rpc[q] # "unsent"
                        /\ rpc'[q] \in {"locking", "writing"} =>
                              rpc[q] \in {"locking", "writing"}
    BY <2>1 DEF TypeOK
  <2>3. \A p, q \in Reqs :
           rpc'[p] = "writing" /\ rpc'[q] = "writing" /\ rmu'[p] = rmu'[q] => p = q
    BY <2>1 DEF TypeOK, MutexInv
  <2> QED BY <2>1, <2>2, <2>3, Zenon DEF MutexInv
<1>3. CASE AuthFails(r) \/ ScaleUp(r) \/ WorkerRuns(r) \/ BeginProcessing(r)
           \/ Handled(r)
  BY <1>3, MutexMoves DEF AuthFails, ScaleUp, WorkerRuns, BeginProcessing, Handled,
     ReqStages
<1>4. CASE Dispatch(r)
  <2>1. rpc[r] = "dispatch" /\ \E s \in {"queued", "run", "scale"} :
           rpc' = [rpc EXCEPT ![r] = s]
    BY <1>4 DEF Dispatch
  <2> QED BY <1>4, <2>1, MutexMoves, Zenon DEF Dispatch, ReqStages
<1>5. CASE HandlerPanics(r)
  BY <1>5, MutexMoves, Zenon DEF HandlerPanics, EndProcessing, ReqStages
<1>6. CASE WriteResponse(r)
  <2>1. rpc[r] = "writing" /\ \E s \in {"answered", "unanswered"} :
           rpc' = [rpc EXCEPT ![r] = s]
    BY <1>6, Zenon DEF WriteResponse, EndProcessing
  <2> QED BY <1>6, <2>1, MutexMoves, Zenon DEF WriteResponse, ReqStages
<1> QED BY <1>1, <1>2, <1>3, <1>4, <1>5, <1>6 DEF RequestStep

(* Every step keeps what is known of the mutexes.                           *)
LEMMA MutexNext ==
    ASSUME TypeOK, ServingInv, CountInv, MutexInv, Next
    PROVE  MutexInv'
<1>1. ASSUME NEW r \in Reqs, RequestStep(r)
      PROVE  MutexInv'
  BY <1>1, MutexRequest
<1>2. ASSUME NEW c \in Conns, ConnStep(c)
      PROVE  MutexInv'
  BY <1>2, MutexConn
<1>3. CASE WorkerTakes \/ DrainOne
  <2>1. queue # <<>> /\ Head(queue) \in Reqs /\ rpc[Head(queue)] = "queued"
    <3>1. queue # <<>>
      BY <1>3 DEF WorkerTakes, DrainOne
    <3>2. Head(queue) \in Reqs /\ Head(queue) = queue[1] /\ 1 \in DOMAIN queue
      BY <3>1 DEF TypeOK
    <3> QED BY <3>1, <3>2 DEF CountInv
  <2>2. \E s \in {"taken", "dropped"} : rpc' = [rpc EXCEPT ![Head(queue)] = s]
    BY <1>3 DEF WorkerTakes, DrainOne
  <2>3. UNCHANGED <<cpc, rm, rconn, rmu, connMutexes>>
    BY <1>3 DEF WorkerTakes, DrainOne
  <2> QED BY <2>1, <2>2, <2>3, MutexMoves, Zenon DEF ReqStages
<1>4. CASE Accept
  <2>1. PICK c \in Conns : cpc[c] = "none" /\ cpc' = [cpc EXCEPT ![c] = "got"]
    BY <1>4, Zenon DEF Accept
  <2>2. \A d \in Conns : cpc'[d] \notin {"removing", "done"} => rm'[d] = "no"
    BY <1>4, <2>1 DEF Accept, TypeOK, MutexInv
  <2> QED BY <1>4, <2>2, MutexConnMoves DEF Accept
<1>5. CASE AddConn \/ SpawnServeConn
  <2>1. lconn \in Conns /\ cpc[lconn] = "got"
    BY <1>5 DEF AddConn, SpawnServeConn, ServingInv
  <2>2. \A d \in Conns : cpc'[d] \notin {"removing", "done"} => rm'[d] = "no"
    BY <1>5, <2>1 DEF AddConn, SpawnServeConn, TypeOK, MutexInv
  <2>3. UNCHANGED <<rm, rpc, rconn, rmu, connMutexes>>
    BY <1>5 DEF AddConn, SpawnServeConn
  <2> QED BY <2>2, <2>3, MutexConnMoves
<1>6. CASE AcceptFails \/ StrayLocks \/ StopBegins \/ CloseQueue \/ StopStep
  BY <1>6, MutexKept DEF AcceptFails, StrayLocks, StopBegins, CloseQueue, StopStep,
     CloseListener, WaitServing, WaitConns, ForgetConns, MutexVars
<1>7. ASSUME NEW r \in Reqs, ServeRequestReturns(r) \/ DispatchPanics(r)
      PROVE  MutexInv'
  BY <1>7, MutexKept, Zenon DEF ServeRequestReturns, DispatchPanics, MutexVars
<1> QED BY <1>1, <1>2, <1>3, <1>4, <1>5, <1>6, <1>7 DEF Next, Quiet, Listener, Drain

-----------------------------------------------------------------------------
(* Types.  That the two counters stay natural numbers, never below zero, is *)
(* what the counts say.                                                     *)

(* The initial values have their types.                                     *)
LEMMA InitType == Init => TypeOK
<1> SUFFICES ASSUME Init
             PROVE  TypeOK
  OBVIOUS
<1>1. /\ cpc \in [Conns -> ConnStages] /\ rm \in [Conns -> RemoveStages]
      /\ connMutexes \in [Conns -> Reqs \cup {None}]
      /\ rpc \in [Reqs -> ReqStages] /\ rconn \in [Reqs -> Conns \cup {None}]
      /\ rmu \in [Reqs -> Reqs \cup {None}]
  BY DEF Init, ConnStages, RemoveStages, ReqStages
<1>2. queue \in Seq(Reqs) /\ Len(queue) <= QueueCap /\ timeouts \in 0..MaxTimeouts
      /\ serveWG \in Nat /\ handleMsgCount \in Nat
  BY DEF Init
<1>3. /\ crashed \in BOOLEAN /\ shutdown \in BOOLEAN /\ listening \in BOOLEAN
      /\ connsNil \in BOOLEAN /\ queueClosed \in BOOLEAN /\ draining \in BOOLEAN
      /\ waited \in BOOLEAN
  BY Zenon DEF Init
<1> QED BY <1>1, <1>2, <1>3 DEF Init, TypeOK

(* The accept loop keeps the types.                                         *)
LEMMA TypeListener ==
    ASSUME TypeOK, ServingInv, serveWG' \in Nat, Listener, UNCHANGED crashed
    PROVE  TypeOK'
<1>1. CASE Accept
  BY <1>1 DEF Accept, TypeOK, ConnStages
<1>2. CASE AcceptFails
  BY <1>2 DEF AcceptFails, TypeOK
<1>3. CASE AddConn
  <2>1. lconn \in Conns
    BY <1>3 DEF AddConn, ServingInv
  <2>2. CASE connsNil
    BY <1>3, <2>1, <2>2 DEF AddConn, TypeOK, ConnStages
  <2>3. CASE ~connsNil
    BY <1>3, <2>1, <2>3 DEF AddConn, TypeOK
  <2> QED BY <2>2, <2>3
<1>4. CASE SpawnServeConn
  BY <1>4 DEF SpawnServeConn, ServingInv, TypeOK, ConnStages
<1> QED BY <1>1, <1>2, <1>3, <1>4 DEF Listener

(* serveConn and removeConn keep the types.                                 *)
LEMMA TypeConn ==
    ASSUME TypeOK, serveWG' \in Nat, NEW c \in Conns, ConnStep(c), UNCHANGED crashed
    PROVE  TypeOK'
<1>1. CASE StartConn(c) \/ LoopConn(c) \/ ReadFails(c) \/ ExitConn(c)
  <2>1. cpc' \in [Conns -> ConnStages] /\ rm' \in [Conns -> RemoveStages]
    BY <1>1 DEF StartConn, LoopConn, ReadFails, ExitConn, TypeOK, ConnStages, RemoveStages
  <2> QED BY <1>1, <2>1 DEF StartConn, LoopConn, ReadFails, ExitConn, TypeOK
<1>2. CASE ReadRequest(c)
  BY <1>2 DEF ReadRequest, TypeOK, ConnStages, ReqStages
<1>3. CASE RemoveLocked(c) \/ RemoveEntry(c) \/ CloseConn(c)
  BY <1>3 DEF RemoveLocked, RemoveEntry, CloseConn, TypeOK, RemoveStages
<1>4. CASE RemoveTimesOut(c)
  BY <1>4 DEF RemoveTimesOut, TimerFires, TypeOK, RemoveStages
<1>5. CASE ConnDone(c)
  <2>1. timeouts' \in 0..MaxTimeouts
    BY <1>5 DEF ConnDone, TimerFires, TypeOK
  <2> QED BY <1>5, <2>1 DEF ConnDone, TypeOK, ConnStages
<1> QED BY <1>1, <1>2, <1>3, <1>4, <1>5 DEF ConnStep

(* The steps of a request keep the types.                                   *)
LEMMA TypeRequest ==
    ASSUME TypeOK, MutexInv, handleMsgCount' \in Nat, NEW r \in Reqs,
           RequestStep(r), UNCHANGED crashed
    PROVE  TypeOK'
<1>1. CASE AuthFails(r) \/ ScaleUp(r) \/ WorkerRuns(r) \/ BeginProcessing(r)
           \/ Handled(r) \/ LockConnMutex(r)
  BY <1>1 DEF AuthFails, ScaleUp, WorkerRuns, BeginProcessing, Handled,
     LockConnMutex, TypeOK, ReqStages
<1>2. CASE Dispatch(r)
  <2>1. rpc' \in [Reqs -> ReqStages]
    BY <1>2 DEF Dispatch, TypeOK, ReqStages
  <2>2. queue' \in Seq(Reqs) /\ Len(queue') <= QueueCap
    <3>1. CASE UseWorkerPool /\ CanQueue
      <4>1. queue' = Append(queue, r) /\ Len(queue) < QueueCap
        BY <1>2, <3>1 DEF Dispatch, CanQueue
      <4> QED BY <4>1 DEF TypeOK
    <3>2. CASE ~(UseWorkerPool /\ CanQueue)
      BY <1>2, <3>2 DEF Dispatch, TypeOK
    <3> QED BY <3>1, <3>2
  <2> QED BY <1>2, <2>1, <2>2 DEF Dispatch, TypeOK
<1>3. CASE HandlerPanics(r)
  <2>1. /\ rpc' \in [Reqs -> ReqStages] /\ onWorker' \subseteq Reqs
        /\ live' \subseteq TimedReqs
    BY <1>3 DEF HandlerPanics, EndProcessing, TypeOK, ReqStages
  <2> QED BY <1>3, <2>1 DEF HandlerPanics, TypeOK
<1>4. CASE GetConnMutex(r)
  <2>1. rconn[r] \in Conns
    BY <1>4, Zenon DEF GetConnMutex, MutexInv
  <2>2. ConnMutex(r) \in Reqs
    BY <2>1 DEF ConnMutex, TypeOK
  <2> QED BY <1>4, <2>1, <2>2 DEF GetConnMutex, TypeOK, ReqStages
<1>5. CASE WriteResponse(r)
  <2>1. /\ rpc' \in [Reqs -> ReqStages] /\ onWorker' \subseteq Reqs
        /\ live' \subseteq TimedReqs
    BY <1>5 DEF WriteResponse, EndProcessing, TypeOK, ReqStages
  <2> QED BY <1>5, <2>1 DEF WriteResponse, TypeOK
<1> QED BY <1>1, <1>2, <1>3, <1>4, <1>5, SMTT(30) DEF RequestStep

(* Workers, stop and the end of a serveRequest keep the types.              *)
LEMMA TypeRest ==
    ASSUME TypeOK,
           \/ /\ StrayLocks \/ WorkerTakes \/ StopBegins \/ Drain \/ StopStep
                  \/ \E r \in Reqs : ServeRequestReturns(r)
              /\ UNCHANGED crashed
           \/ \E r \in Reqs : DispatchPanics(r)
    PROVE  TypeOK'
<1>1. CASE StrayLocks /\ UNCHANGED crashed
  BY <1>1 DEF StrayLocks, TypeOK
<1>2. CASE (WorkerTakes \/ DrainOne) /\ UNCHANGED crashed
  <2>1. queue # <<>> /\ queue' = Tail(queue)
    BY <1>2 DEF WorkerTakes, DrainOne
  <2>2. Head(queue) \in Reqs /\ queue' \in Seq(Reqs) /\ Len(queue') <= QueueCap
    BY <2>1 DEF TypeOK
  <2>3. rpc' \in [Reqs -> ReqStages] /\ onWorker' \subseteq Reqs
    BY <1>2, <2>2 DEF WorkerTakes, DrainOne, TypeOK, ReqStages
  <2> QED BY <1>2, <2>2, <2>3 DEF WorkerTakes, DrainOne, TypeOK
<1>3. CASE StopBegins /\ UNCHANGED crashed
  BY <1>3 DEF StopBegins, TypeOK
<1>4. CASE CloseListener /\ UNCHANGED crashed
  BY <1>4, ZenonT(60) DEF CloseListener, TypeOK
<1>5. CASE WaitServing /\ UNCHANGED crashed
  BY <1>5 DEF WaitServing, TypeOK
<1>6. CASE WaitConns /\ UNCHANGED crashed
  BY <1>6 DEF WaitConns, TypeOK
<1>7. CASE ForgetConns /\ UNCHANGED crashed
  BY <1>7 DEF ForgetConns, TypeOK
<1>8. CASE CloseQueue /\ UNCHANGED crashed
  <2>1. draining' \in BOOLEAN /\ queueClosed' \in BOOLEAN
    BY <1>8, Zenon DEF CloseQueue
  <2> QED BY <1>8, <2>1 DEF CloseQueue, TypeOK
<1>9. ASSUME NEW r \in Reqs, ServeRequestReturns(r), UNCHANGED crashed
      PROVE  TypeOK'
  BY <1>9 DEF ServeRequestReturns, TypeOK
<1>10. ASSUME NEW r \in Reqs, DispatchPanics(r)
      PROVE  TypeOK'
  BY <1>10 DEF DispatchPanics, TypeOK
<1> QED BY <1>1, <1>2, <1>3, <1>4, <1>5, <1>6, <1>7, <1>8, <1>9, <1>10
       DEF Drain, StopStep

-----------------------------------------------------------------------------
(* The invariant holds initially.                                           *)
LEMMA ServerInvInit == Init => ServerInv
  BY InitType, InitServing, InitCount, InitMutex DEF ServerInv

(* The invariant is inductive.                                              *)
LEMMA ServerInvNext == ServerInv /\ [Next]_vars => ServerInv'
<1> SUFFICES ASSUME ServerInv, [Next]_vars
             PROVE  ServerInv'
  OBVIOUS
<1>1. CASE Next
  <2>1. ServingInv' /\ CountInv' /\ MutexInv'
    BY <1>1, ServingNext, CountNext, MutexNext DEF ServerInv
  <2>2. serveWG' \in Nat /\ handleMsgCount' \in Nat
    BY <2>1, FS_CardinalityType, Zenon DEF ServingInv, CountInv, CountExact
  <2>3. TypeOK'
    BY <1>1, <2>2, TypeListener, TypeConn, TypeRequest, TypeRest
       DEF ServerInv, Next, Quiet
  <2> QED BY <2>1, <2>3 DEF ServerInv
<1>2. CASE UNCHANGED vars
  <2>1. TypeOK'
    BY <1>2 DEF ServerInv, TypeOK, vars
  <2>2. ServingInv' /\ CountInv' /\ MutexInv'
    BY <1>2, ServingKept, CountKept, MutexKept
       DEF ServerInv, vars, ServingVars, CountVars, MutexVars
  <2> QED BY <2>1, <2>2 DEF ServerInv
<1> QED BY <1>1, <1>2

(* Every reachable state satisfies the inductive invariant.                 *)
THEOREM ServerInvariance == Spec => []ServerInv
  BY ServerInvInit, ServerInvNext, PTL DEF Spec

(* Every field keeps its type; the WaitGroup and the counter of requests    *)
(* never go below zero, which would panic the server or hang its stop.      *)
THEOREM ServerTypeCorrect == Spec => []TypeOK
<1>1. ServerInv => TypeOK
  BY DEF ServerInv
<1> QED BY <1>1, ServerInvariance, PTL

(* handleMsgCount is the number of requests in processOneRequest, whatever  *)
(* mix of workers, goroutines of their own, refusals and panics there is.   *)
THEOREM CountIsExact == Spec => []CountExact
<1>1. ServerInv => CountExact
  BY DEF ServerInv, CountInv
<1> QED BY <1>1, ServerInvariance, PTL

(* serveWG is the number of serveConn goroutines, for any number of clients *)
(* that connect while stop runs and any timers of removeConn that fire.     *)
THEOREM ServingIsCounted == Spec => []ServingCounted
<1>1. ServerInv => ServingCounted
  BY DEF ServerInv, ServingInv, ServingCounted, Serving
<1> QED BY <1>1, ServerInvariance, PTL

(* Two requests write to one connection at the same time only after its     *)
(* entry of connMutexes is gone.                                            *)
THEOREM WritesExclude == Spec => []WriteExclusion
<1>1. ServerInv => WriteExclusion
  BY DEF ServerInv, MutexInv, WriteExclusion
<1> QED BY <1>1, ServerInvariance, PTL

(* After stop has seen serveWG at zero no connection is read again.         *)
THEOREM WaitIsFinal == Spec => []NoReaderAfterWait
<1>1. ServerInv => NoReaderAfterWait
  BY DEF ServerInv, ServingInv
<1> QED BY <1>1, ServerInvariance, PTL
=============================================================================

----------------------------- MODULE WorkerPool -----------------------------
(***************************************************************************)
(* The elastic worker pool of the server (server.go): workers that take    *)
(* functions from a channel and replace themselves from time to time, the  *)
(* monitor that changes the number of workers, and the emergency scaling   *)
(* done by a request that finds the channel full.                          *)
(*                                                                         *)
(* Workers are counted by their workerID, which is not unique: an ID is    *)
(* what numWorkers was when the worker was made, and numWorkers goes up    *)
(* and down.  IDs from MaxWorkers on are not indices of workerLoads and    *)
(* are counted together.  A queued function is anonymous.                  *)
(***************************************************************************)
EXTENDS Integers, FiniteSets, Functions

CONSTANTS
    MinWorkers,    \* opt.minWorkerPoolSize
    MaxWorkers,    \* opt.maxWorkerPoolSize, also the length of workerLoads
    QueueSize,     \* opt.taskQueueSize
    Requesters,    \* goroutines in serveRequest that may scale up
    MaxRequests,   \* bound on requests
    MaxResets,     \* bound on workers that reach the reset threshold
    MaxCount       \* bound on numWorkers

ASSUME WorkerPoolAssumption ==
    /\ MinWorkers \in Nat /\ MaxWorkers \in Nat /\ MinWorkers <= MaxWorkers
    /\ QueueSize \in Nat \ {0}
    /\ MaxRequests \in Nat /\ MaxResets \in Nat
    /\ MaxCount \in Nat /\ 2 * MinWorkers <= MaxCount /\ MaxWorkers <= MaxCount

VARIABLES
    numWorkers,
    idle,          \* workers at the top of their loop, per ID
    taken,         \* workers that have received a function
    running,       \* workers that have counted it in their load
    workerLoads,
    queue,         \* functions in workerFuncChannel
    closed,        \* workerFuncChannel is closed
    inShutdown,
    queueUsage,    \* metrics.queueUsage, as a number of functions
    monitor,       \* monitorWorkerPool: place and locals
    scaler,        \* quickScaleUp of each requester: place and locals
    requests, resets

workerVars == <<numWorkers, idle, taken, running, workerLoads>>
queueVars == <<queue, closed, inShutdown>>
vars == <<workerVars, queueVars, queueUsage, monitor, scaler, requests, resets>>

Slots == 0..(MaxWorkers - 1)
NoSlot == MaxWorkers
Ids == Slots \cup {NoSlot}

(* int32(float64(n) * 1.2) and int32(float64(n) * 0.8).                    *)
Grown(n) == (n * 12) \div 10
Shrunk(n) == (n * 8) \div 10

AtMost(n, limit) == IF n > limit THEN limit ELSE n
\* Mutant: no lower limit.
Unlimited(n, limit) == n
AtLeast(n, limit) == IF n < limit THEN limit ELSE n

(* All workers that have been started and have not ended, the workers with  *)
(* an ID told apart by numbers.                                             *)
Numbered(f) == UNION {{i} \X (1..f[i]) : i \in Ids}
Workers == Cardinality(Numbered(idle)) + Cardinality(Numbered(taken))
           + Cardinality(Numbered(running))

NoScaling == [pc |-> "no", cur |-> 0, target |-> 0]

(* numWorkers is set to the minimum, and then workerCreator adds to it     *)
(* once more for each of the first workers.                                *)
Init ==
    /\ numWorkers = 2 * MinWorkers
    /\ idle = [i \in Ids |->
                 Cardinality({n \in MinWorkers..(2 * MinWorkers - 1) :
                                AtMost(n, NoSlot) = i})]
    /\ taken = [i \in Ids |-> 0] /\ running = [i \in Ids |-> 0]
    /\ workerLoads = [i \in Slots |-> 0]
    /\ queue = 0 /\ closed = FALSE /\ inShutdown = FALSE /\ queueUsage = 0
    /\ monitor = [pc |-> "wait", load |-> "fair", cur |-> 0, target |-> 0]
    /\ scaler = [r \in Requesters |-> NoScaling]
    /\ requests = 0 /\ resets = 0

-----------------------------------------------------------------------------
(* workerCreator: the worker's ID is the old value of numWorkers.           *)
WorkerCreator(waiting) ==
    /\ numWorkers < MaxCount
    /\ numWorkers' = numWorkers + 1
    /\ idle' = [waiting EXCEPT ![AtMost(numWorkers, NoSlot)] = @ + 1]

-----------------------------------------------------------------------------
(* serverWorker                                                             *)

Take(i) ==
    /\ idle[i] > 0 /\ queue > 0
    /\ queue' = queue - 1
    /\ idle' = [idle EXCEPT ![i] = @ - 1] /\ taken' = [taken EXCEPT ![i] = @ + 1]
    /\ UNCHANGED <<numWorkers, running, workerLoads, closed, inShutdown,
                   queueUsage, monitor, scaler, requests, resets>>

(* The load is counted only if the ID is an index of workerLoads.           *)
AddLoad(i, n) ==
    workerLoads' = [j \in Slots |-> workerLoads[j] + (IF j = i THEN n ELSE 0)]

Run(i) ==
    /\ taken[i] > 0
    /\ AddLoad(i, 1)
    /\ taken' = [taken EXCEPT ![i] = @ - 1]
    /\ running' = [running EXCEPT ![i] = @ + 1]
    /\ UNCHANGED <<numWorkers, idle, queueVars, queueUsage, monitor, scaler,
                   requests, resets>>

\* Mutant: a function that panics leaves its load behind.
FinishKeepsLoad(i) ==
    /\ running[i] > 0
    /\ \E n \in {0, -1} : AddLoad(i, n)
    /\ running' = [running EXCEPT ![i] = @ - 1]
    /\ idle' = [idle EXCEPT ![i] = @ + 1]
    /\ UNCHANGED <<numWorkers, taken, queueVars, queueUsage, monitor, scaler,
                   requests, resets>>

(* f returns or panics; either way the load is taken back.                  *)
Finish(i) ==
    /\ running[i] > 0
    /\ AddLoad(i, -1)
    /\ running' = [running EXCEPT ![i] = @ - 1]
    /\ idle' = [idle EXCEPT ![i] = @ + 1]
    /\ UNCHANGED <<numWorkers, taken, queueVars, queueUsage, monitor, scaler,
                   requests, resets>>

\* Mutant: a worker whose successor would exceed the target has none.
ResetContracts(i) ==
    /\ idle[i] > 0 /\ resets < MaxResets
    /\ LET rest == [idle EXCEPT ![i] = @ - 1]
       IN  IF Workers > numWorkers - MinWorkers
              THEN idle' = rest /\ UNCHANGED numWorkers
              ELSE WorkerCreator(rest)
    /\ resets' = resets + 1
    /\ UNCHANGED <<taken, running, workerLoads, queueVars, queueUsage, monitor,
                   scaler, requests>>

(* After serverWorkerResetThreshold rounds, idle ones included, the worker  *)
(* starts another one, whatever numWorkers says, and ends.                  *)
Reset(i) ==
    /\ idle[i] > 0 /\ resets < MaxResets
    /\ WorkerCreator([idle EXCEPT ![i] = @ - 1])
    /\ resets' = resets + 1
    /\ UNCHANGED <<taken, running, workerLoads, queueVars, queueUsage, monitor,
                   scaler, requests>>


(* The channel is closed and empty.                                         *)
Exit(i) ==
    /\ idle[i] > 0 /\ closed /\ queue = 0
    /\ idle' = [idle EXCEPT ![i] = @ - 1]
    /\ UNCHANGED <<numWorkers, taken, running, workerLoads, queueVars,
                   queueUsage, monitor, scaler, requests, resets>>

ServerWorker(i) == Take(i) \/ Run(i) \/ Finish(i) \/ Reset(i) \/ Exit(i)

-----------------------------------------------------------------------------
(* monitorWorkerPool                                                        *)

(* updatePoolMetrics: the slots below numWorkers are taken for the workers, *)
(* and the load is high when the queue is over 80% full or less than 20% of *)
(* the workers are idle, low when under 20% and more than 80%.              *)
Load ==
    LET counted == {i \in Slots : i < numWorkers}
        active  == AtMost(numWorkers, MaxWorkers)
        total   == SumFunctionOnSet(workerLoads, counted)
    IN  CASE 5 * queue > 4 * QueueSize \/ 5 * total >= 4 * active -> "high"
          [] 5 * queue < QueueSize /\ 5 * total < active -> "low"
          [] OTHER -> "fair"

UpdatePoolMetrics ==
    /\ monitor.pc = "wait"
    /\ IF inShutdown
          THEN monitor' = [monitor EXCEPT !.pc = "ended"] /\ UNCHANGED queueUsage
          ELSE /\ queueUsage' = queue
               /\ monitor' = [monitor EXCEPT !.pc = "load", !.load = Load]
    /\ UNCHANGED <<workerVars, queueVars, scaler, requests, resets>>

Target(load, cur) ==
    CASE load = "high" /\ cur < MaxWorkers -> AtMost(Grown(cur), MaxWorkers)
      [] load = "low" /\ cur > MinWorkers -> AtLeast(Shrunk(cur), MinWorkers)
      [] OTHER -> cur

(* currentWorkers is read here; numWorkers may change before it is stored.  *)
ChooseTarget ==
    /\ monitor.pc = "load"
    /\ LET target == Target(monitor.load, numWorkers)
           pc     == CASE target > numWorkers -> "add"
                       [] target < numWorkers -> "store"
                       [] OTHER -> "wait"
       IN  monitor' = [monitor EXCEPT !.pc = pc, !.cur = numWorkers,
                                      !.target = target]
    /\ UNCHANGED <<workerVars, queueVars, queueUsage, scaler, requests, resets>>

(* cur counts up to the target as workers are made.                         *)
MonitorAdds ==
    /\ monitor.pc = "add"
    /\ WorkerCreator(idle)
    /\ monitor' = [monitor EXCEPT !.cur = @ + 1,
                     !.pc = IF monitor.cur + 1 = monitor.target
                               THEN "store" ELSE "add"]
    /\ UNCHANGED <<taken, running, workerLoads, queueVars, queueUsage, scaler,
                   requests, resets>>

StoreTarget ==
    /\ monitor.pc = "store"
    /\ numWorkers' = monitor.target
    /\ monitor' = [monitor EXCEPT !.pc = "wait"]
    /\ UNCHANGED <<idle, taken, running, workerLoads, queueVars, queueUsage,
                   scaler, requests, resets>>

Monitor == UpdatePoolMetrics \/ ChooseTarget \/ MonitorAdds \/ StoreTarget

-----------------------------------------------------------------------------
(* A request, and quickScaleUp                                              *)

(* The request is queued; or the queue is full, and it is executed directly *)
(* after the scaling that the last metrics call for (without them, nothing  *)
(* of this module's state changes).                                         *)
Request(r) ==
    /\ ~closed /\ scaler[r].pc = "no" /\ requests < MaxRequests
    /\ requests' = requests + 1
    /\ IF queue < QueueSize
          THEN queue' = queue + 1 /\ UNCHANGED scaler
          ELSE /\ 5 * queueUsage > 4 * QueueSize
               /\ scaler' = [scaler EXCEPT ![r].pc = "load"]
               /\ UNCHANGED queue
    /\ UNCHANGED <<workerVars, closed, inShutdown, queueUsage, monitor, resets>>

ReadNumWorkers(r) ==
    /\ scaler[r].pc = "load"
    /\ LET target == AtMost(Grown(numWorkers), MaxWorkers)
       IN  scaler' = [scaler EXCEPT ![r] =
                        IF numWorkers < MaxWorkers /\ target > numWorkers
                           THEN [pc |-> "cas", cur |-> numWorkers,
                                 target |-> target]
                           ELSE NoScaling]
    /\ UNCHANGED <<workerVars, queueVars, queueUsage, monitor, requests, resets>>

(* Somebody else adjusted numWorkers: skip.                                 *)
CompareAndSwap(r) ==
    /\ scaler[r].pc = "cas"
    /\ IF numWorkers = scaler[r].cur
          THEN /\ numWorkers' = scaler[r].target
               /\ scaler' = [scaler EXCEPT ![r].pc = "add"]
          ELSE /\ scaler' = [scaler EXCEPT ![r] = NoScaling]
               /\ UNCHANGED numWorkers
    /\ UNCHANGED <<idle, taken, running, workerLoads, queueVars, queueUsage,
                   monitor, requests, resets>>

(* The workers are added one by one, and each counts itself again.          *)
ScalerAdds(r) ==
    /\ scaler[r].pc = "add"
    /\ WorkerCreator(idle)
    /\ LET cur == scaler[r].cur + 1
       IN  scaler' = [scaler EXCEPT ![r] =
                        IF cur = scaler[r].target
                           THEN NoScaling
                           ELSE [scaler[r] EXCEPT !.cur = cur]]
    /\ UNCHANGED <<taken, running, workerLoads, queueVars, queueUsage, monitor,
                   requests, resets>>

QuickScaleUp(r) == ReadNumWorkers(r) \/ CompareAndSwap(r) \/ ScalerAdds(r)

-----------------------------------------------------------------------------
(* stop                                                                     *)

StartShutdown ==
    /\ ~inShutdown /\ inShutdown' = TRUE
    /\ UNCHANGED <<workerVars, queue, closed, queueUsage, monitor, scaler,
                   requests, resets>>

Drain ==
    /\ inShutdown /\ ~closed /\ queue > 0
    /\ queue' = queue - 1
    /\ UNCHANGED <<workerVars, closed, inShutdown, queueUsage, monitor, scaler,
                   requests, resets>>

(* The queue was seen empty, or 5 seconds have passed.                      *)
CloseChannel ==
    /\ inShutdown /\ ~closed
    /\ closed' = TRUE
    /\ UNCHANGED <<workerVars, queue, inShutdown, queueUsage, monitor, scaler,
                   requests, resets>>

Stop == StartShutdown \/ Drain \/ CloseChannel

Next ==
    \/ \E i \in Ids : ServerWorker(i)
    \/ Monitor
    \/ \E r \in Requesters : Request(r) \/ QuickScaleUp(r)
    \/ Stop

Spec == Init /\ [][Next]_vars

(* Worker goroutines run; a worker that can take a function takes one       *)
(* rather than replace itself for ever (resets are 65536 rounds apart).     *)
FairSpec == Spec /\ \A i \in Ids : WF_vars(Take(i)) /\ WF_vars(Run(i) \/ Finish(i))

-----------------------------------------------------------------------------
(* Properties                                                               *)

(* Every variable has its type.                                             *)
TypeOK ==
    /\ numWorkers \in 0..MaxCount
    /\ idle \in [Ids -> Nat] /\ taken \in [Ids -> Nat] /\ running \in [Ids -> Nat]
    /\ workerLoads \in [Slots -> Int]
    /\ queue \in 0..QueueSize /\ queueUsage \in 0..QueueSize
    /\ closed \in BOOLEAN /\ inShutdown \in BOOLEAN
    /\ monitor \in [pc : {"wait", "load", "add", "store", "ended"},
                    load : {"high", "low", "fair"}, cur : Nat, target : Nat]
    /\ scaler \in [Requesters -> [pc : {"no", "load", "cas", "add"},
                                  cur : Nat, target : Nat]]
    /\ requests \in 0..MaxRequests /\ resets \in 0..MaxResets

(* A slot of workerLoads holds the number of workers with that ID that are  *)
(* executing a function, although several workers may share the ID and each *)
(* adds and subtracts on its own.                                           *)
LoadsExact == \A i \in Slots : workerLoads[i] = running[i]

(* Scaling, replacement and panics never take the pool below its minimum    *)
(* number of goroutines while it accepts functions.                         *)
EnoughWorkers == ~closed => Workers >= MinWorkers

(* numWorkers stays at or above the minimum, although the monitor stores    *)
(* a value computed from an earlier reading.                                *)
CountAtLeastMin ==
    /\ numWorkers >= MinWorkers
    /\ monitor.pc \in {"add", "store"} => monitor.target >= MinWorkers


(* Violated.  "Minimum and maximum worker count limits" (README.md:89).     *)
WithinLimits == Workers <= MaxWorkers

(* Violated.  "Record the load of each worker" (server.go:61): every worker *)
(* has a slot of its own.                                                   *)
OwnSlot ==
    /\ \A i \in Slots : idle[i] + taken[i] + running[i] <= 1
    /\ idle[NoSlot] + taken[NoSlot] + running[NoSlot] = 0
=============================================================================

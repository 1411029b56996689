-------------------------- MODULE WorkerPoolProofs --------------------------
(* The loads are exact and the count of workers keeps its minimum, for any   *)
(* limits, queue and number of requests that scale up at the same time.      *)
EXTENDS WorkerPool, FiniteSetTheorems, TLAPS

(* The value that the monitor or a request will store, computed from an      *)
(* earlier numWorkers, is within the limits on its own: that is what keeps   *)
(* numWorkers there, whatever it has become in the meantime.                 *)
ScalingInv ==
    /\ TypeOK
    /\ LoadsExact
    /\ numWorkers >= MinWorkers
    /\ monitor.pc \in {"add", "store"} => monitor.target \in MinWorkers..MaxCount
    /\ \A r \in Requesters :
          scaler[r].pc \in {"cas", "add"} => scaler[r].target \in MinWorkers..MaxWorkers

-----------------------------------------------------------------------------
(* The arithmetic of scaling.                                                *)
LEMMA ScaledBounds ==
    ASSUME NEW n \in Nat
    PROVE  Grown(n) \in Nat /\ Grown(n) >= n /\ Shrunk(n) \in Nat /\ Shrunk(n) <= n
  BY DEF Grown, Shrunk

(* What the monitor chooses lies between the minimum and the bound.          *)
LEMMA TargetBounds ==
    ASSUME NEW load, NEW cur \in MinWorkers..MaxCount
    PROVE  Target(load, cur) \in MinWorkers..MaxCount
<1>1. cur \in Nat /\ MinWorkers \in Nat /\ MaxWorkers \in Nat /\ MaxCount \in Nat
  BY WorkerPoolAssumption
<1>2. Grown(cur) \in Nat /\ Grown(cur) >= cur /\ Shrunk(cur) \in Nat /\ Shrunk(cur) <= cur
  BY <1>1, ScaledBounds
<1>3. CASE load = "high" /\ cur < MaxWorkers
  <2>1. Target(load, cur) = AtMost(Grown(cur), MaxWorkers)
    BY <1>3 DEF Target
  <2> QED BY <1>1, <1>2, <1>3, <2>1, WorkerPoolAssumption DEF AtMost
<1>4. CASE load = "low" /\ cur > MinWorkers
  <2>1. Target(load, cur) = AtLeast(Shrunk(cur), MinWorkers)
    BY <1>4 DEF Target
  <2> QED BY <1>1, <1>2, <1>4, <2>1, WorkerPoolAssumption DEF AtLeast
<1>5. CASE ~(load = "high" /\ cur < MaxWorkers) /\ ~(load = "low" /\ cur > MinWorkers)
  <2>1. Target(load, cur) = cur
    BY <1>5 DEF Target
  <2> QED BY <2>1
<1> QED BY <1>3, <1>4, <1>5

(* A new worker keeps what the invariant says of the workers.                *)
LEMMA CreatorKeeps ==
    ASSUME TypeOK, numWorkers >= MinWorkers,
           NEW waiting \in [Ids -> Nat], WorkerCreator(waiting)
    PROVE  /\ numWorkers' \in 0..MaxCount /\ numWorkers' >= MinWorkers
           /\ idle' \in [Ids -> Nat]
<1>1. numWorkers \in Nat /\ MaxCount \in Nat /\ MaxWorkers \in Nat /\ MinWorkers \in Nat
  BY WorkerPoolAssumption DEF TypeOK
<1>2. AtMost(numWorkers, NoSlot) \in Ids
  BY <1>1 DEF AtMost, NoSlot, Ids, Slots
<1>3. idle' \in [Ids -> Nat]
  BY <1>2 DEF WorkerCreator
<1> QED BY <1>1, <1>3 DEF WorkerCreator

(* The first workers are counted by a number.                                *)
LEMMA InitScaling == Init => ScalingInv
<1> SUFFICES ASSUME Init
             PROVE  ScalingInv
  OBVIOUS
<1>1. /\ MinWorkers \in Nat /\ MaxWorkers \in Nat /\ MaxCount \in Nat
      /\ 2 * MinWorkers <= MaxCount /\ QueueSize \in Nat
      /\ MaxRequests \in Nat /\ MaxResets \in Nat
  BY WorkerPoolAssumption
<1>2. idle \in [Ids -> Nat]
  <2>1. ASSUME NEW i \in Ids
        PROVE  Cardinality({n \in MinWorkers..(2 * MinWorkers - 1) :
                              AtMost(n, NoSlot) = i}) \in Nat
    <3>1. IsFiniteSet(MinWorkers..(2 * MinWorkers - 1))
      BY <1>1, FS_Interval
    <3>2. IsFiniteSet({n \in MinWorkers..(2 * MinWorkers - 1) : AtMost(n, NoSlot) = i})
      BY <3>1, FS_Subset, Zenon
    <3> QED BY <3>2, FS_CardinalityType
  <2> QED BY <2>1 DEF Init
<1>3. TypeOK
  <2>1. numWorkers \in 0..MaxCount
    BY <1>1 DEF Init
  <2>2. /\ taken \in [Ids -> Nat] /\ running \in [Ids -> Nat]
        /\ workerLoads \in [Slots -> Int]
    BY DEF Init
  <2>3. /\ queue \in 0..QueueSize /\ queueUsage \in 0..QueueSize
        /\ requests \in 0..MaxRequests /\ resets \in 0..MaxResets
    BY <1>1 DEF Init
  <2>4. monitor \in [pc : {"wait", "load", "add", "store", "ended"},
                     load : {"high", "low", "fair"}, cur : Nat, target : Nat]
    BY DEF Init
  <2>5. scaler \in [Requesters -> [pc : {"no", "load", "cas", "add"},
                                   cur : Nat, target : Nat]]
    BY DEF Init, NoScaling
  <2> QED BY <1>2, <2>1, <2>2, <2>3, <2>4, <2>5, Zenon DEF Init, TypeOK
<1>4. LoadsExact
  BY DEF Init, LoadsExact, Ids
<1> QED BY <1>1, <1>3, <1>4 DEF Init, ScalingInv, NoScaling

-----------------------------------------------------------------------------
(* What a step of a worker does to the loads.                                *)
LEMMA LoadKept ==
    ASSUME TypeOK, LoadsExact, NEW i \in Ids, NEW n \in Int, AddLoad(i, n),
           running' = [running EXCEPT ![i] = @ + n]
    PROVE  LoadsExact' /\ workerLoads' \in [Slots -> Int]
<1>1. workerLoads \in [Slots -> Int] /\ running \in [Ids -> Nat] /\ Slots \subseteq Ids
  BY DEF TypeOK, Ids
<1>2. workerLoads' \in [Slots -> Int]
  BY <1>1 DEF AddLoad
<1>3. ASSUME NEW j \in Slots
      PROVE  workerLoads'[j] = running'[j]
  <2>1. workerLoads'[j] = workerLoads[j] + (IF j = i THEN n ELSE 0)
    BY DEF AddLoad
  <2>2. workerLoads[j] = running[j] /\ running[j] \in Nat
    BY <1>1 DEF LoadsExact
  <2>3. CASE j = i
    BY <1>1, <2>1, <2>2, <2>3
  <2>4. CASE j # i
    BY <1>1, <2>1, <2>2, <2>4
  <2> QED BY <2>3, <2>4
<1> QED BY <1>2, <1>3 DEF LoadsExact

(* A step of a worker.                                                      *)
LEMMA WorkerKeeps ==
    ASSUME ScalingInv, NEW i \in Ids, ServerWorker(i)
    PROVE  ScalingInv'
<1> USE WorkerPoolAssumption
<1>0. TypeOK /\ LoadsExact /\ numWorkers >= MinWorkers
  BY DEF ScalingInv
<1>1. CASE Take(i)
  <2>1. idle' \in [Ids -> Nat] /\ taken' \in [Ids -> Nat] /\ queue' \in 0..QueueSize
    BY <1>0, <1>1 DEF Take, TypeOK
  <2> QED BY <1>1, <2>1 DEF Take, ScalingInv, TypeOK, LoadsExact
<1>2. CASE Run(i)
  <2>1. taken' \in [Ids -> Nat] /\ running' \in [Ids -> Nat]
    BY <1>0, <1>2 DEF Run, TypeOK
  <2>2. LoadsExact' /\ workerLoads' \in [Slots -> Int]
    <3>1. 1 \in Int /\ AddLoad(i, 1) /\ running' = [running EXCEPT ![i] = @ + 1]
      BY <1>2 DEF Run
    <3> QED BY ONLY <1>0, <3>1, LoadKept, i \in Ids, Zenon
  <2> QED BY <1>2, <2>1, <2>2 DEF Run, ScalingInv, TypeOK, queueVars
<1>3. CASE Finish(i)
  <2>1. idle' \in [Ids -> Nat] /\ running' \in [Ids -> Nat]
    BY <1>0, <1>3 DEF Finish, TypeOK
  <2>2. running' = [running EXCEPT ![i] = @ + (-1)]
    BY <1>0, <1>3, Zenon DEF Finish, TypeOK
  <2>3. LoadsExact' /\ workerLoads' \in [Slots -> Int]
    <3>1. -1 \in Int /\ AddLoad(i, -1)
      BY <1>3 DEF Finish
    <3> QED BY ONLY <1>0, <2>2, <3>1, LoadKept, i \in Ids, Zenon
  <2> QED BY <1>3, <2>1, <2>3 DEF Finish, ScalingInv, TypeOK, queueVars
<1>4. CASE Reset(i)
  <2>1. [idle EXCEPT ![i] = @ - 1] \in [Ids -> Nat]
    BY <1>0, <1>4 DEF Reset, TypeOK
  <2>2. WorkerCreator([idle EXCEPT ![i] = @ - 1])
    BY <1>4 DEF Reset
  <2>3. numWorkers' \in 0..MaxCount /\ numWorkers' >= MinWorkers /\ idle' \in [Ids -> Nat]
    BY <1>0, <2>1, <2>2, CreatorKeeps, Zenon
  <2>4. resets' \in 0..MaxResets
    BY <1>0, <1>4 DEF Reset, TypeOK
  <2> QED BY <1>4, <2>3, <2>4 DEF Reset, ScalingInv, TypeOK, LoadsExact, queueVars
<1>5. CASE Exit(i)
  <2>1. idle' \in [Ids -> Nat]
    BY <1>0, <1>5 DEF Exit, TypeOK
  <2> QED BY <1>5, <2>1 DEF Exit, ScalingInv, TypeOK, LoadsExact, queueVars
<1> QED BY <1>1, <1>2, <1>3, <1>4, <1>5 DEF ServerWorker

(* A step of the monitor.                                                   *)
LEMMA MonitorKeeps ==
    ASSUME ScalingInv, Monitor
    PROVE  ScalingInv'
<1> USE WorkerPoolAssumption
<1> DEFINE MonitorType == [pc : {"wait", "load", "add", "store", "ended"},
                           load : {"high", "low", "fair"}, cur : Nat, target : Nat]
<1>0. TypeOK /\ LoadsExact /\ numWorkers >= MinWorkers /\ monitor \in MonitorType
  BY DEF ScalingInv, TypeOK
<1>1. CASE UpdatePoolMetrics
  <2>1. Load \in {"high", "low", "fair"}
    BY DEF Load
  <2>2. queueUsage' \in 0..QueueSize
    BY <1>0, <1>1 DEF UpdatePoolMetrics, TypeOK
  <2>3. monitor' \in MonitorType /\ monitor'.pc \notin {"add", "store"}
    <3> HIDE DEF Load
    <3> QED BY <1>0, <1>1, <2>1, Zenon DEF UpdatePoolMetrics
  <2> QED BY <1>1, <2>2, <2>3
      DEF UpdatePoolMetrics, ScalingInv, TypeOK, LoadsExact, workerVars, queueVars
<1>2. CASE ChooseTarget
  <2>1. numWorkers \in MinWorkers..MaxCount
    BY <1>0 DEF TypeOK
  <2>2. Target(monitor.load, numWorkers) \in MinWorkers..MaxCount
    BY <2>1, TargetBounds
  <2>3. monitor' \in MonitorType /\ monitor'.target \in MinWorkers..MaxCount
    <3> DEFINE target == Target(monitor.load, numWorkers)
               pc == CASE target > numWorkers -> "add"
                       [] target < numWorkers -> "store"
                       [] OTHER -> "wait"
    <3>1. monitor' = [monitor EXCEPT !.pc = pc, !.cur = numWorkers, !.target = target]
      BY <1>2 DEF ChooseTarget
    <3>2. pc \in {"add", "store", "wait"}
      OBVIOUS
    <3>3. target \in MinWorkers..MaxCount /\ target \in Nat
      BY <2>2
    <3> HIDE DEF target, pc
    <3>4. monitor'.target = target /\ monitor'.pc = pc
          /\ monitor'.cur = numWorkers /\ monitor'.load = monitor.load
      BY <1>0, <3>1
    <3>5. monitor' = [pc |-> pc, load |-> monitor.load, cur |-> numWorkers,
                      target |-> target]
      BY <1>0, <3>1, Zenon
    <3>6. monitor.load \in {"high", "low", "fair"} /\ numWorkers \in Nat
      BY <1>0, <2>1
    <3>7. monitor' \in MonitorType
      BY <3>2, <3>3, <3>5, <3>6
    <3> QED BY <3>3, <3>4, <3>7
  <2> QED BY <1>2, <2>3
      DEF ChooseTarget, ScalingInv, TypeOK, LoadsExact, workerVars, queueVars
<1>3. CASE MonitorAdds
  <2>1. numWorkers' \in 0..MaxCount /\ numWorkers' >= MinWorkers /\ idle' \in [Ids -> Nat]
    BY <1>0, <1>3, CreatorKeeps DEF MonitorAdds, TypeOK
  <2>2. monitor' \in MonitorType /\ monitor'.target = monitor.target
    <3> DEFINE pc == IF monitor.cur + 1 = monitor.target THEN "store" ELSE "add"
    <3>1. monitor' = [monitor EXCEPT !.cur = @ + 1, !.pc = pc]
      BY <1>3 DEF MonitorAdds
    <3>2. pc \in {"store", "add"} /\ monitor.cur + 1 \in Nat
      BY <1>0
    <3> HIDE DEF pc
    <3> QED BY <1>0, <3>1, <3>2, Zenon
  <2>3. monitor.target \in MinWorkers..MaxCount
    BY <1>3 DEF MonitorAdds, ScalingInv
  <2> QED BY <1>3, <2>1, <2>2, <2>3
      DEF MonitorAdds, ScalingInv, TypeOK, LoadsExact, queueVars
<1>4. CASE StoreTarget
  <2>1. monitor.target \in MinWorkers..MaxCount /\ numWorkers' = monitor.target
    BY <1>4 DEF StoreTarget, ScalingInv
  <2>2. monitor' \in MonitorType /\ monitor'.pc = "wait"
    BY <1>0, <1>4 DEF StoreTarget
  <2> QED BY <1>4, <2>1, <2>2
      DEF StoreTarget, ScalingInv, TypeOK, LoadsExact, queueVars
<1> QED BY <1>1, <1>2, <1>3, <1>4 DEF Monitor

(* A step of a request that scales the pool up.                             *)
LEMMA ScalerKeeps ==
    ASSUME ScalingInv, NEW r \in Requesters, Request(r) \/ QuickScaleUp(r)
    PROVE  ScalingInv'
<1> USE WorkerPoolAssumption
<1> DEFINE S == [pc : {"no", "load", "cas", "add"}, cur : Nat, target : Nat]
           Targeted(x) == x.pc \in {"cas", "add"} => x.target \in MinWorkers..MaxWorkers
<1>0. /\ TypeOK /\ LoadsExact /\ numWorkers >= MinWorkers
      /\ scaler \in [Requesters -> S] /\ \A q \in Requesters : Targeted(scaler[q])
  BY DEF ScalingInv, TypeOK
<1>1. ASSUME NEW x \in S, Targeted(x), scaler' = [scaler EXCEPT ![r] = x]
      PROVE  scaler' \in [Requesters -> S] /\ \A q \in Requesters : Targeted(scaler'[q])
  BY <1>0, <1>1
<1>2. NoScaling \in S /\ Targeted(NoScaling)
  BY DEF NoScaling
<1>3. CASE Request(r)
  <2>1. queue' \in 0..QueueSize /\ requests' \in 0..MaxRequests
    BY <1>0, <1>3 DEF Request, TypeOK
  <2>2. scaler' \in [Requesters -> S] /\ \A q \in Requesters : Targeted(scaler'[q])
    <3>1. CASE UNCHANGED scaler
      BY <1>0, <3>1
    <3>2. CASE scaler' = [scaler EXCEPT ![r].pc = "load"]
      <4>1. scaler' = [scaler EXCEPT ![r] = [scaler[r] EXCEPT !.pc = "load"]]
        BY <3>2
      <4>2. [scaler[r] EXCEPT !.pc = "load"] \in S
            /\ Targeted([scaler[r] EXCEPT !.pc = "load"])
        BY <1>0
      <4> HIDE DEF S, Targeted
      <4> QED BY <1>1, <4>1, <4>2, Zenon
    <3> QED BY <1>3, <3>1, <3>2 DEF Request
  <2> QED BY <1>3, <2>1, <2>2
      DEF Request, ScalingInv, TypeOK, LoadsExact, workerVars
<1>4. CASE ReadNumWorkers(r)
  <2> DEFINE target == AtMost(Grown(numWorkers), MaxWorkers)
             next   == [pc |-> "cas", cur |-> numWorkers, target |-> target]
  <2>1. numWorkers \in Nat /\ MaxWorkers \in Nat /\ MinWorkers \in Nat
    BY <1>0 DEF TypeOK
  <2>2. target \in MinWorkers..MaxWorkers
    BY <1>0, <2>1, ScaledBounds DEF AtMost
  <2>3. next \in S /\ Targeted(next)
    <3> HIDE DEF target
    <3> QED BY <2>1, <2>2
  <2>4. \/ scaler' = [scaler EXCEPT ![r] = next]
        \/ scaler' = [scaler EXCEPT ![r] = NoScaling]
    BY <1>4, Zenon DEF ReadNumWorkers
  <2>5. scaler' \in [Requesters -> S] /\ \A q \in Requesters : Targeted(scaler'[q])
    <3> HIDE DEF S, Targeted, next
    <3> QED BY <1>1, <1>2, <2>3, <2>4
  <2> QED BY <1>4, <2>5
      DEF ReadNumWorkers, ScalingInv, TypeOK, LoadsExact, workerVars, queueVars
<1>5. CASE CompareAndSwap(r)
  <2>1. /\ numWorkers' \in 0..MaxCount /\ numWorkers' >= MinWorkers
    BY <1>0, <1>5 DEF CompareAndSwap, TypeOK
  <2>2. scaler' \in [Requesters -> S] /\ \A q \in Requesters : Targeted(scaler'[q])
    <3>1. CASE scaler' = [scaler EXCEPT ![r].pc = "add"]
      <4>1. scaler' = [scaler EXCEPT ![r] = [scaler[r] EXCEPT !.pc = "add"]]
        BY <3>1
      <4>2. [scaler[r] EXCEPT !.pc = "add"] \in S
            /\ Targeted([scaler[r] EXCEPT !.pc = "add"])
        BY <1>0, <1>5 DEF CompareAndSwap
      <4> HIDE DEF S, Targeted
      <4> QED BY <1>1, <4>1, <4>2, Zenon
    <3>2. CASE scaler' = [scaler EXCEPT ![r] = NoScaling]
      BY <1>1, <1>2, <3>2, Zenon
    <3> QED BY <1>5, <3>1, <3>2 DEF CompareAndSwap
  <2> QED BY <1>5, <2>1, <2>2
      DEF CompareAndSwap, ScalingInv, TypeOK, LoadsExact, queueVars
<1>6. CASE ScalerAdds(r)
  <2>1. numWorkers' \in 0..MaxCount /\ numWorkers' >= MinWorkers /\ idle' \in [Ids -> Nat]
    BY <1>0, <1>6, CreatorKeeps DEF ScalerAdds, TypeOK
  <2>2. scaler' \in [Requesters -> S] /\ \A q \in Requesters : Targeted(scaler'[q])
    <3> DEFINE next == [scaler[r] EXCEPT !.cur = scaler[r].cur + 1]
    <3>1. next \in S /\ Targeted(next)
      BY <1>0, <1>6 DEF ScalerAdds
    <3>2. CASE scaler[r].cur + 1 = scaler[r].target
      <4>1. scaler' = [scaler EXCEPT ![r] = NoScaling]
        BY <1>6, <3>2 DEF ScalerAdds
      <4> HIDE DEF S, Targeted
      <4> QED BY <1>1, <1>2, <4>1, Zenon
    <3>3. CASE scaler[r].cur + 1 # scaler[r].target
      <4>1. scaler' = [scaler EXCEPT ![r] = next]
        BY <1>6, <3>3 DEF ScalerAdds
      <4> HIDE DEF S, Targeted, next
      <4> QED BY <1>1, <3>1, <4>1, Zenon
    <3> QED BY <3>2, <3>3
  <2> QED BY <1>6, <2>1, <2>2
      DEF ScalerAdds, ScalingInv, TypeOK, LoadsExact, queueVars
<1> QED BY <1>3, <1>4, <1>5, <1>6 DEF QuickScaleUp

(* One step per action of Next.                                             *)
LEMMA NextScaling == ScalingInv /\ [Next]_vars => ScalingInv'
<1> SUFFICES ASSUME ScalingInv, [Next]_vars
             PROVE  ScalingInv'
  OBVIOUS
<1>1. CASE Stop
  <2>1. CASE StartShutdown
    BY <2>1 DEF StartShutdown, ScalingInv, TypeOK, LoadsExact, workerVars
  <2>2. CASE Drain
    <3>1. queue' \in 0..QueueSize
      BY <2>2, WorkerPoolAssumption DEF Drain, ScalingInv, TypeOK
    <3> QED BY <2>2, <3>1 DEF Drain, ScalingInv, TypeOK, LoadsExact, workerVars
  <2>3. CASE CloseChannel
    BY <2>3 DEF CloseChannel, ScalingInv, TypeOK, LoadsExact, workerVars
  <2> QED BY <1>1, <2>1, <2>2, <2>3 DEF Stop
<1>2. CASE UNCHANGED vars
  BY <1>2 DEF vars, ScalingInv, TypeOK, LoadsExact, workerVars, queueVars
<1> QED BY <1>1, <1>2, WorkerKeeps, MonitorKeeps, ScalerKeeps DEF Next

-----------------------------------------------------------------------------
(* The number of workers.                                                   *)

(* What Numbered holds, and that it is finite.                              *)
LEMMA NumberedIs ==
    ASSUME NEW f \in [Ids -> Nat]
    PROVE  /\ IsFiniteSet(Numbered(f)) /\ Cardinality(Numbered(f)) \in Nat
           /\ Numbered(f) \subseteq Ids \X Nat
           /\ \A i \in Ids, n \in Nat : <<i, n>> \in Numbered(f) <=> n \in 1..f[i]
<1> DEFINE Part(i) == {i} \X (1..f[i])
           Parts == {Part(i) : i \in Ids}
<1>1. IsFiniteSet(Ids)
  <2>1. Ids = 0..MaxWorkers
    BY WorkerPoolAssumption DEF Ids, Slots, NoSlot
  <2> QED BY <2>1, FS_Interval, WorkerPoolAssumption
<1>2. ASSUME NEW i \in Ids
      PROVE  IsFiniteSet(Part(i))
  <2>1. IsFiniteSet({i})
    BY FS_Singleton, Zenon
  <2>2. 1 \in Int /\ f[i] \in Int
    OBVIOUS
  <2>3. IsFiniteSet(1..f[i])
    BY <2>2, FS_Interval
  <2> QED BY <2>1, <2>3, FS_Product
<1>3. IsFiniteSet(Parts)
  <2> DEFINE g == [i \in Ids |-> Part(i)]
  <2>1. g \in Surjection(Ids, Parts)
    BY DEF Surjection
  <2> HIDE DEF g, Parts
  <2> QED BY <1>1, <2>1, FS_Surjection
<1>4. \A T \in Parts : IsFiniteSet(T)
  BY <1>2
<1>5. Numbered(f) = UNION Parts
  BY DEF Numbered
<1>6. IsFiniteSet(Numbered(f))
  <2> HIDE DEF Parts
  <2> QED BY <1>3, <1>4, <1>5, FS_UNION
<1>7. /\ Numbered(f) \subseteq Ids \X Nat
      /\ \A i \in Ids, n \in Nat : <<i, n>> \in Numbered(f) <=> n \in 1..f[i]
  BY <1>5
<1> QED BY <1>6, <1>7, FS_CardinalityType

(* A worker more with some ID is a worker more.                             *)
LEMMA OneMore ==
    ASSUME NEW f \in [Ids -> Nat], NEW i \in Ids,
           NEW g, g = [f EXCEPT ![i] = @ + 1]
    PROVE  Cardinality(Numbered(g)) = Cardinality(Numbered(f)) + 1
<1> DEFINE p == <<i, f[i] + 1>>
<1>1. g \in [Ids -> Nat] /\ g[i] = f[i] + 1 /\ \A j \in Ids : j # i => g[j] = f[j]
  OBVIOUS
<1>2. p \notin Numbered(f)
  BY NumberedIs
<1>3. ASSUME NEW j \in Ids, NEW n \in Nat
      PROVE  <<j, n>> \in Numbered(g) <=> <<j, n>> \in Numbered(f) \/ <<j, n>> = p
  <2>1. n \in 1..g[j] <=> n \in 1..f[j] \/ (j = i /\ n = f[i] + 1)
    BY <1>1
  <2>2. <<j, n>> \in Numbered(g) <=> n \in 1..g[j]
    BY <1>1, NumberedIs
  <2>3. <<j, n>> \in Numbered(f) <=> n \in 1..f[j]
    BY NumberedIs
  <2> QED BY <2>1, <2>2, <2>3
<1>4. Numbered(g) = Numbered(f) \cup {p}
  <2>1. Numbered(g) \subseteq Ids \X Nat /\ Numbered(f) \subseteq Ids \X Nat
        /\ p \in Ids \X Nat
    BY <1>1, NumberedIs
  <2> HIDE DEF p
  <2>2. ASSUME NEW q \in Ids \X Nat
        PROVE  q \in Numbered(g) <=> q \in Numbered(f) \/ q = p
    <3>1. q[1] \in Ids /\ q[2] \in Nat /\ q = <<q[1], q[2]>>
      OBVIOUS
    <3> QED BY <1>3, <3>1
  <2> QED BY <2>1, <2>2
<1> QED BY <1>2, <1>4, NumberedIs, FS_AddElement

(* A worker less with some ID is a worker less.                             *)
LEMMA OneLess ==
    ASSUME NEW f \in [Ids -> Nat], NEW i \in Ids, f[i] > 0,
           NEW g, g = [f EXCEPT ![i] = @ - 1]
    PROVE  g \in [Ids -> Nat] /\ Cardinality(Numbered(g)) = Cardinality(Numbered(f)) - 1
<1>1. g \in [Ids -> Nat]
  OBVIOUS
<1> DEFINE h == [g EXCEPT ![i] = @ + 1]
<1>2. h \in [Ids -> Nat] /\ \A j \in Ids : h[j] = f[j]
  BY <1>1
<1>3. f = h
  BY <1>2
<1>4. Cardinality(Numbered(f)) = Cardinality(Numbered(g)) + 1
  BY <1>1, <1>3, OneMore, Zenon
<1>5. Cardinality(Numbered(g)) \in Nat
  BY <1>1, NumberedIs, Zenon
<1> QED BY <1>1, <1>4, <1>5

(* The first workers: one for each number from MinWorkers on.               *)
LEMMA InitWorkers == Init => Workers >= MinWorkers
<1> SUFFICES ASSUME Init
             PROVE  Workers >= MinWorkers
  OBVIOUS
<1> USE WorkerPoolAssumption
<1> DEFINE First == MinWorkers..(2 * MinWorkers - 1)
           Of(i) == {n \in First : AtMost(n, NoSlot) = i}
<1>1. /\ idle \in [Ids -> Nat] /\ taken \in [Ids -> Nat] /\ running \in [Ids -> Nat]
      /\ \A i \in Ids : idle[i] = Cardinality(Of(i))
  BY InitScaling DEF ScalingInv, TypeOK, Init
<1>2. IsFiniteSet(First) /\ Cardinality(First) = MinWorkers
  BY FS_Interval
<1>3. \A i \in Ids : IsFiniteSet(Of(i))
  BY <1>2, FS_Subset, Zenon
<1>4. ASSUME NEW i \in Ids
      PROVE  ExistsBijection(1..idle[i], Of(i))
  BY <1>1, <1>3, FS_CardinalityType
<1> DEFINE Numbering(i) == CHOOSE b : b \in Bijection(1..idle[i], Of(i))
           Number(n, i) == CHOOSE j \in 1..idle[i] : Numbering(i)[j] = n
           place == [n \in First |-> <<AtMost(n, NoSlot), Number(n, AtMost(n, NoSlot))>>]
<1>5. ASSUME NEW i \in Ids, NEW n \in Of(i)
      PROVE  Number(n, i) \in 1..idle[i] /\ Numbering(i)[Number(n, i)] = n
  <2>1. Numbering(i) \in Bijection(1..idle[i], Of(i))
    BY <1>4, Zenon DEF ExistsBijection
  <2> HIDE DEF Numbering
  <2>2. \E j \in 1..idle[i] : Numbering(i)[j] = n
    BY <2>1 DEF Bijection, Surjection
  <2> QED BY <2>2
<1> HIDE DEF Number, Numbering
<1>6. ASSUME NEW n \in First
      PROVE  AtMost(n, NoSlot) \in Ids /\ n \in Of(AtMost(n, NoSlot))
  BY DEF AtMost, NoSlot, Ids, Slots
<1> HIDE DEF Of
<1>7. place \in [First -> Numbered(idle)]
  <2>1. ASSUME NEW n \in First
        PROVE  place[n] \in Numbered(idle)
    <3> DEFINE i == AtMost(n, NoSlot)
    <3>1. i \in Ids /\ n \in Of(i) /\ place[n] = <<i, Number(n, i)>>
      BY <1>6
    <3> HIDE DEF i, place
    <3>2. Number(n, i) \in 1..idle[i]
      BY <1>5, <3>1
    <3> QED BY <1>1, <3>1, <3>2, NumberedIs
  <2> QED BY <2>1
<1>8. ASSUME NEW m \in First, NEW n \in First, place[m] = place[n]
      PROVE  m = n
  <2> DEFINE i == AtMost(n, NoSlot)
  <2>1. AtMost(m, NoSlot) = i /\ Number(m, i) = Number(n, i)
    BY <1>8
  <2>2. i \in Ids /\ m \in Of(i) /\ n \in Of(i)
    BY <1>6, <2>1
  <2> HIDE DEF i
  <2> QED BY <1>5, <2>1, <2>2
<1>9. place \in Injection(First, Numbered(idle))
  BY <1>7, <1>8 DEF Injection, IsInjective
<1>10. Cardinality(Numbered(idle)) >= MinWorkers
  <2> HIDE DEF place, First
  <2> QED BY <1>1, <1>2, <1>9, NumberedIs, FS_Injection
<1> QED BY <1>1, <1>10, NumberedIs DEF Workers

(* A step keeps enough workers: only a worker of a closed channel ends      *)
(* without a successor.                                                     *)
LEMMA NextWorkers ==
    ASSUME ScalingInv, EnoughWorkers, [Next]_vars
    PROVE  EnoughWorkers'
<1>0. /\ idle \in [Ids -> Nat] /\ taken \in [Ids -> Nat] /\ running \in [Ids -> Nat]
      /\ numWorkers \in Nat
  BY DEF ScalingInv, TypeOK
<1>w. /\ Cardinality(Numbered(idle)) \in Nat /\ Cardinality(Numbered(taken)) \in Nat
      /\ Cardinality(Numbered(running)) \in Nat
  BY <1>0, NumberedIs
<1>c. ASSUME NEW waiting \in [Ids -> Nat], WorkerCreator(waiting)
      PROVE  Cardinality(Numbered(idle')) = Cardinality(Numbered(waiting)) + 1
  <2>1. AtMost(numWorkers, NoSlot) \in Ids
    BY <1>0, WorkerPoolAssumption DEF AtMost, NoSlot, Ids, Slots
  <2> QED BY <1>c, <2>1, OneMore, Zenon DEF WorkerCreator
<1>1. ASSUME NEW i \in Ids, ServerWorker(i)
      PROVE  EnoughWorkers'
  <2>1. CASE Take(i)
    <3>1. Cardinality(Numbered(idle')) = Cardinality(Numbered(idle)) - 1
      BY <1>0, <2>1, OneLess DEF Take
    <3>2. Cardinality(Numbered(taken')) = Cardinality(Numbered(taken)) + 1
      BY <1>0, <2>1, OneMore, Zenon DEF Take
    <3> QED BY <1>w, <2>1, <3>1, <3>2 DEF Take, EnoughWorkers, Workers
  <2>2. CASE Run(i)
    <3>1. Cardinality(Numbered(taken')) = Cardinality(Numbered(taken)) - 1
      BY <1>0, <2>2, OneLess DEF Run
    <3>2. Cardinality(Numbered(running')) = Cardinality(Numbered(running)) + 1
      BY <1>0, <2>2, OneMore, Zenon DEF Run
    <3> QED BY <1>w, <2>2, <3>1, <3>2 DEF Run, EnoughWorkers, Workers, queueVars
  <2>3. CASE Finish(i)
    <3>1. Cardinality(Numbered(running')) = Cardinality(Numbered(running)) - 1
      BY <1>0, <2>3, OneLess DEF Finish
    <3>2. Cardinality(Numbered(idle')) = Cardinality(Numbered(idle)) + 1
      BY <1>0, <2>3, OneMore, Zenon DEF Finish
    <3> QED BY <1>w, <2>3, <3>1, <3>2 DEF Finish, EnoughWorkers, Workers, queueVars
  <2>4. CASE Reset(i)
    <3> DEFINE rest == [idle EXCEPT ![i] = @ - 1]
    <3>1. rest \in [Ids -> Nat] /\ Cardinality(Numbered(rest)) = Cardinality(Numbered(idle)) - 1
      BY <1>0, <2>4, OneLess DEF Reset
    <3>2. WorkerCreator(rest)
      BY <2>4 DEF Reset
    <3> HIDE DEF rest
    <3>3. Cardinality(Numbered(idle')) = Cardinality(Numbered(idle))
      BY <1>c, <1>w, <3>1, <3>2
    <3> QED BY <1>w, <2>4, <3>3 DEF Reset, EnoughWorkers, Workers, queueVars
  <2>5. CASE Exit(i)
    BY <2>5 DEF Exit, EnoughWorkers, queueVars
  <2> QED BY <1>1, <2>1, <2>2, <2>3, <2>4, <2>5 DEF ServerWorker
<1>2. ASSUME WorkerCreator(idle), UNCHANGED <<taken, running, queueVars>>
      PROVE  EnoughWorkers'
  <2>1. Cardinality(Numbered(idle')) = Cardinality(Numbered(idle)) + 1
    BY <1>0, <1>2, <1>c
  <2>2. taken' = taken /\ running' = running /\ closed' = closed
    BY <1>2 DEF queueVars
  <2> QED BY <1>w, <2>1, <2>2, WorkerPoolAssumption DEF EnoughWorkers, Workers
<1>3. ASSUME UNCHANGED <<idle, taken, running>>, closed' \/ closed' = closed
      PROVE  EnoughWorkers'
  BY <1>3 DEF EnoughWorkers, Workers
<1>4. CASE Monitor
  BY <1>2, <1>3, <1>4 DEF Monitor, UpdatePoolMetrics, ChooseTarget, MonitorAdds,
     StoreTarget, workerVars, queueVars
<1>5. ASSUME NEW r \in Requesters, Request(r) \/ QuickScaleUp(r)
      PROVE  EnoughWorkers'
  BY <1>2, <1>3, <1>5 DEF Request, QuickScaleUp, ReadNumWorkers, CompareAndSwap,
     ScalerAdds, workerVars, queueVars
<1>6. CASE Stop
  BY <1>3, <1>6 DEF Stop, StartShutdown, Drain, CloseChannel, workerVars
<1>7. CASE UNCHANGED vars
  BY <1>3, <1>7 DEF vars, workerVars, queueVars
<1> QED BY <1>1, <1>4, <1>5, <1>6, <1>7 DEF Next

-----------------------------------------------------------------------------
(* Every slot of workerLoads is the number of functions that workers with    *)
(* its ID are executing, although IDs are shared (server.go).                *)
THEOREM LoadsAreExact == Spec => []LoadsExact
<1>1. ScalingInv => LoadsExact
  BY DEF ScalingInv
<1> QED BY InitScaling, NextScaling, <1>1, PTL DEF Spec

(* numWorkers never falls below the minimum: neither the monitor, which      *)
(* stores over what it has not seen, nor quickScaleUp takes it there.        *)
THEOREM CountKeepsMinimum == Spec => []CountAtLeastMin
<1>1. ScalingInv => CountAtLeastMin
  BY WorkerPoolAssumption DEF ScalingInv, CountAtLeastMin, TypeOK
<1> QED BY InitScaling, NextScaling, <1>1, PTL DEF Spec

(* Scaling, replacement and panics never take the pool below its minimum     *)
(* number of goroutines while it accepts functions.                          *)
THEOREM WorkersKeepMinimum == Spec => []EnoughWorkers
<1>1. Init => EnoughWorkers
  BY InitWorkers DEF EnoughWorkers
<1>2. ScalingInv /\ EnoughWorkers /\ [Next]_vars => EnoughWorkers'
  BY NextWorkers
<1> QED BY InitScaling, NextScaling, <1>1, <1>2, PTL DEF Spec

(* Every variable keeps its type, the count of workers its upper bound       *)
(* included.                                                                 *)
THEOREM WorkerTypeCorrect == Spec => []TypeOK
<1>1. ScalingInv => TypeOK
  BY DEF ScalingInv
<1> QED BY InitScaling, NextScaling, <1>1, PTL DEF Spec
=============================================================================

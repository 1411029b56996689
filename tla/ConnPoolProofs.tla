--------------------------- MODULE ConnPoolProofs ---------------------------
(***************************************************************************)
(* Proofs about ConnPool, for any number of callers and connections and    *)
(* any pool size: its invariant, that it implements ConnLease (what the    *)
(* callers see of a connection is what the lease lets them see), and that  *)
(* its open sockets are counted in created.                                *)
(***************************************************************************)
EXTENDS ConnPool, TLAPS

-----------------------------------------------------------------------------
(* Facts about the operations on the two queues.                            *)

(* Receiving from the hot queue moves its head out of it.                   *)
LEMMA TailFacts ==
    ASSUME NEW S, NEW s \in Seq(S), s # <<>>
    PROVE  /\ Head(s) \in S /\ Head(s) \in Range(s)
           /\ Tail(s) \in Seq(S) /\ Len(Tail(s)) = Len(s) - 1
           /\ IsInjective(s) => /\ IsInjective(Tail(s))
                                /\ Range(Tail(s)) = Range(s) \ {Head(s)}
<1>1. /\ Head(s) \in S /\ Head(s) = s[1] /\ 1 \in DOMAIN s
      /\ Tail(s) \in Seq(S) /\ Len(Tail(s)) = Len(s) - 1
      /\ DOMAIN s = 1..Len(s) /\ DOMAIN Tail(s) = 1..(Len(s) - 1)
      /\ \A i \in 1..(Len(s) - 1) : Tail(s)[i] = s[i+1]
      /\ Len(s) \in Nat
  OBVIOUS
<1>2. Head(s) \in Range(s)
  BY <1>1 DEF Range
<1>3. ASSUME IsInjective(s)
      PROVE  IsInjective(Tail(s)) /\ Range(Tail(s)) = Range(s) \ {Head(s)}
  <2>1. IsInjective(Tail(s))
    <3>1. SUFFICES ASSUME NEW a \in 1..(Len(s) - 1), NEW b \in 1..(Len(s) - 1),
                          Tail(s)[a] = Tail(s)[b]
                   PROVE  a = b
      BY <1>1 DEF IsInjective
    <3>2. s[a+1] = s[b+1] /\ a+1 \in 1..Len(s) /\ b+1 \in 1..Len(s)
      BY <1>1, <3>1
    <3>3. a+1 = b+1
      BY <1>1, <1>3, <3>2 DEF IsInjective
    <3>4. QED
      BY <3>3
  <2>2. ASSUME NEW x \in Range(Tail(s))
        PROVE  x \in Range(s) \ {Head(s)}
    <3>1. PICK i \in 1..(Len(s) - 1) : x = s[i+1]
      BY <1>1 DEF Range
    <3>2. i+1 \in DOMAIN s /\ i+1 # 1
      BY <1>1
    <3>3. x # s[1]
      BY <1>1, <1>3, <3>1, <3>2 DEF IsInjective
    <3>4. QED
      BY <1>1, <3>1, <3>2, <3>3 DEF Range
  <2>3. ASSUME NEW x \in Range(s) \ {Head(s)}
        PROVE  x \in Range(Tail(s))
    <3>1. PICK i \in 1..Len(s) : x = s[i]
      BY <1>1 DEF Range
    <3>2. i # 1
      BY <1>1, <3>1
    <3>3. i-1 \in 1..(Len(s) - 1) /\ Tail(s)[i-1] = s[i]
      BY <1>1, <3>2
    <3>4. QED
      BY <1>1, <3>1, <3>3, Zenon DEF Range
  <2>4. QED
    BY <2>1, <2>2, <2>3
<1>4. QED
  BY <1>1, <1>2, <1>3

(* Popping the cold queue moves its last element out of it.                 *)
LEMMA PopFacts ==
    ASSUME NEW S, NEW s \in Seq(S), s # <<>>
    PROVE  /\ s[Len(s)] \in S /\ s[Len(s)] \in Range(s)
           /\ SubSeq(s, 1, Len(s) - 1) \in Seq(S)
           /\ IsInjective(s) =>
                 /\ IsInjective(SubSeq(s, 1, Len(s) - 1))
                 /\ Range(SubSeq(s, 1, Len(s) - 1)) = Range(s) \ {s[Len(s)]}
<1> DEFINE t == SubSeq(s, 1, Len(s) - 1)
<1>0. \A i \in 1..(Len(s) - 1) : i \in 1..Len(s) /\ i # Len(s)
  OBVIOUS
<1>1. /\ Len(s) \in Nat /\ Len(s) # 0 /\ DOMAIN s = 1..Len(s)
      /\ s[Len(s)] \in S /\ Len(s) \in DOMAIN s
  OBVIOUS
<1>2. t \in Seq(S) /\ Len(t) = Len(s) - 1 /\ \A i \in 1..(Len(s) - 1) : t[i] = s[i]
  <2>1. \A i \in 1..(Len(s) - 1) : s[i] \in S
    BY <1>1
  <2>2. QED
    BY <1>1, <2>1
<1>3. DOMAIN t = 1..(Len(s) - 1)
  BY <1>2
<1> HIDE DEF t
<1>4. s[Len(s)] \in Range(s)
  BY <1>1 DEF Range
<1>5. ASSUME IsInjective(s)
      PROVE  IsInjective(t) /\ Range(t) = Range(s) \ {s[Len(s)]}
  <2>1. IsInjective(t)
    BY <1>1, <1>2, <1>3, <1>5 DEF IsInjective
  <2>2. ASSUME NEW x \in Range(t)
        PROVE  x \in Range(s) \ {s[Len(s)]}
    <3>1. PICK i \in 1..(Len(s) - 1) : x = s[i]
      BY <1>2, <1>3 DEF Range
    <3>2. i \in DOMAIN s /\ i # Len(s)
      BY <1>0, <1>1, Zenon
    <3>3. QED
      BY <1>1, <1>5, <3>1, <3>2 DEF Range, IsInjective
  <2>3. ASSUME NEW x \in Range(s) \ {s[Len(s)]}
        PROVE  x \in Range(t)
    <3>1. PICK i \in 1..Len(s) : x = s[i]
      BY <1>1 DEF Range
    <3>2. i \in 1..(Len(s) - 1)
      BY <1>1, <3>1
    <3>3. QED
      BY <1>2, <1>3, <3>1, <3>2 DEF Range
  <2>4. QED
    BY <2>1, <2>2, <2>3
<1>6. QED
  BY <1>1, <1>2, <1>4, <1>5 DEF t

(* An empty queue holds no connection.                                      *)
LEMMA EmptyQueue == Range(<<>>) = {}
  BY DEF Range

(* Queueing a connection adds it, and keeps the queue free of duplicates    *)
(* when it was not in it.                                                   *)
LEMMA AppendFacts ==
    ASSUME NEW S, NEW s \in Seq(S), NEW e \in S
    PROVE  /\ Append(s, e) \in Seq(S) /\ Len(Append(s, e)) = Len(s) + 1
           /\ Range(Append(s, e)) = Range(s) \cup {e}
           /\ IsInjective(s) /\ e \notin Range(s) => IsInjective(Append(s, e))
<1> DEFINE t == Append(s, e)
<1>1. /\ t \in Seq(S) /\ Len(t) = Len(s) + 1 /\ Len(s) \in Nat
      /\ DOMAIN s = 1..Len(s) /\ DOMAIN t = 1..(Len(s) + 1)
      /\ \A i \in 1..Len(s) : t[i] = s[i]
      /\ t[Len(s) + 1] = e
  OBVIOUS
<1> HIDE DEF t
<1>2. \A i \in DOMAIN t : i = Len(s) + 1 \/ i \in 1..Len(s)
  BY <1>1
<1>3. Len(s) + 1 \in DOMAIN t /\ \A i \in DOMAIN s : i \in DOMAIN t
  BY <1>1
<1>4. Range(t) = Range(s) \cup {e}
  <2>1. Range(t) \subseteq Range(s) \cup {e}
    BY <1>1, <1>2 DEF Range
  <2>2. Range(s) \cup {e} \subseteq Range(t)
    BY <1>1, <1>3 DEF Range
  <2>3. QED
    BY <2>1, <2>2
<1>5. IsInjective(s) /\ e \notin Range(s) => IsInjective(t)
  BY <1>1, <1>2 DEF IsInjective, Range
<1>6. QED
  BY <1>1, <1>4, <1>5 DEF t

-----------------------------------------------------------------------------
(* Constants and initial states.                                            *)

(* Both sizes are at least one, however small the pool is.                  *)
LEMMA Sizes == HotCap \in Nat \ {0} /\ PrewarmCount \in Nat \ {0}
<1>1. Size \div 2 \in Nat /\ Size \div 4 \in Nat /\ Size \in Nat \ {0}
  BY PoolAssumption
<1>2. QED
  BY <1>1 DEF HotCap, PrewarmCount

(* Initially nothing is dialled, queued or held.                            *)
LEMMA InvInit == Init => PoolInv
<1>1. SUFFICES ASSUME Init PROVE PoolInv
  OBVIOUS
<1>2. hot = <<>> /\ cold = <<>> /\ Range(hot) = {} /\ Range(cold) = {}
      /\ IsInjective(hot) /\ IsInjective(cold)
  BY <1>1 DEF Init, Range, IsInjective
<1>3. Pooled = {} /\ Held = {} /\ Warming = {} /\ open = {} /\ conns = {}
      /\ kset = {} /\ \A k \in Callers : cc[k] = NoConn /\ pc[k] = "idle"
  BY <1>1, <1>2 DEF Init, Pooled, Held, Warming
<1>4. TypeOK
  <2>1. hot \in Seq(Conns) /\ Len(hot) <= HotCap /\ cold \in Seq(Conns)
    BY <1>1, Sizes DEF Init
  <2>2. 0 \in 0..Waits /\ PrewarmCount \in 0..PrewarmCount
    BY Sizes, PoolAssumption
  <2>3. /\ status \in [Conns -> Statuses] /\ pc \in [Callers -> Stages]
        /\ cc \in [Callers -> Conns \cup {NoConn}] /\ waits \in [Callers -> 0..Waits]
    BY <1>1, <2>2 DEF Init, Statuses, Stages
  <2>4. /\ closed \in BOOLEAN /\ hotClosed \in BOOLEAN
    BY <1>1, Zenon DEF Init
  <2>5. QED
    BY <1>1, <2>1, <2>2, <2>3, <2>4 DEF Init, TypeOK
<1>5. StageInv
  BY <1>1, <1>3 DEF Init, StageInv, HoldStages
<1>6. StatusInv /\ ExclusiveOwnership /\ NoLeakWhileOpen /\ LiveInv
  BY <1>1, <1>2, <1>3 DEF Init, StatusInv, ExclusiveOwnership, NoLeakWhileOpen, LiveInv
<1>7. CreatedInv
  BY <1>1, Sizes, PoolAssumption DEF Init, CreatedInv
<1>8. QED
  BY <1>4, <1>5, <1>6, <1>7 DEF PoolInv

-----------------------------------------------------------------------------
(* Every step preserves the invariant: one lemma per action.                *)

USE PoolAssumption, Sizes DEF poolVars, connVars, callerVars, warmVars, closeVars,
    Goto, Take, LetGo, CloseConn, isClosed, newClientConn

(* Where get falls through to.                                              *)
LEMMA AfterFacts ==
    /\ After["hot1"] = "new1" /\ After["new1"] = "cold" /\ After["cold"] = "hot2"
    /\ After["hot2"] = "new2" /\ After["new2"] = "wait" /\ After["wait"] = "wait"
BY DEF After

(* The type invariant, by the variables that steps change together.         *)
TypeQueues == hot \in Seq(Conns) /\ Len(hot) <= HotCap /\ cold \in Seq(Conns)
TypePool ==
    /\ closed \in BOOLEAN /\ hotClosed \in BOOLEAN
    /\ conns \subseteq Conns /\ kset \subseteq Conns
    /\ kpc \in {"idle", "conns", "drain", "done"}
TypeConn == open \subseteq Conns /\ status \in [Conns -> Statuses]
TypeCaller ==
    /\ pc \in [Callers -> Stages] /\ cc \in [Callers -> Conns \cup {NoConn}]
    /\ waits \in [Callers -> 0..Waits]
TypeWarm ==
    /\ wpc \in {"dial", "add", "done"} /\ wcc \in Conns \cup {NoConn}
    /\ wleft \in 0..PrewarmCount

(* TypeOK is its groups.                                                    *)
LEMMA TypeGroups ==
    /\ TypeOK <=> /\ TypeQueues /\ TypePool /\ TypeConn /\ TypeCaller /\ TypeWarm
                  /\ created \in Int
    /\ TypeOK' <=> /\ TypeQueues' /\ TypePool' /\ TypeConn' /\ TypeCaller' /\ TypeWarm'
                   /\ created' \in Int
<1>1. TypeOK <=> /\ TypeQueues /\ TypePool /\ TypeConn /\ TypeCaller /\ TypeWarm
                 /\ created \in Int
  BY Zenon DEF TypeOK, TypeQueues, TypePool, TypeConn, TypeCaller, TypeWarm
<1>2. TypeOK' <=> /\ TypeQueues' /\ TypePool' /\ TypeConn' /\ TypeCaller' /\ TypeWarm'
                  /\ created' \in Int
  BY Zenon DEF TypeOK, TypeQueues, TypePool, TypeConn, TypeCaller, TypeWarm
<1> QED BY <1>1, <1>2

(* What no step but those of its owner changes.                             *)
LEMMA TypesKept ==
    /\ TypePool /\ UNCHANGED <<closed, hotClosed, conns, closeVars>> => TypePool'
    /\ TypeConn /\ UNCHANGED connVars => TypeConn'
    /\ TypeWarm /\ UNCHANGED warmVars => TypeWarm'
    /\ TypeCaller /\ UNCHANGED callerVars => TypeCaller'
  BY Zenon DEF TypePool, TypeConn, TypeWarm, TypeCaller

(* What the invariant says of the two queues, as sets without duplicates.   *)
QueuesOK ==
    /\ hot \in Seq(Conns) /\ Len(hot) <= HotCap /\ cold \in Seq(Conns)
    /\ IsInjective(hot) /\ IsInjective(cold)
    /\ Range(hot) \subseteq Conns /\ Range(cold) \subseteq Conns
    /\ Range(hot) \cap Range(cold) = {}

(* The two queues are as they should be.                                    *)
LEMMA Queues == PoolInv => QueuesOK
<1>1. \A s \in Seq(Conns) : Range(s) \subseteq Conns
  BY DEF Range
<1> QED BY <1>1 DEF PoolInv, TypeOK, ExclusiveOwnership, QueuesOK

(* The operations on the queues, and what becomes of the pooled connections.*)
LEMMA QueuesKept ==
    ASSUME UNCHANGED <<hot, cold>>
    PROVE  Pooled' = Pooled /\ (QueuesOK => QueuesOK')
  BY DEF QueuesOK, Pooled

(* A receive from the hot queue takes its first connection out of it.       *)
LEMMA HotReceived ==
    ASSUME QueuesOK, hot # <<>>, hot' = Tail(hot), cold' = cold
    PROVE  /\ Head(hot) \in Conns /\ Head(hot) \in Pooled
           /\ Pooled' = Pooled \ {Head(hot)} /\ QueuesOK'
<1>1. /\ Head(hot) \in Conns /\ Head(hot) \in Range(hot)
      /\ hot' \in Seq(Conns) /\ Len(hot') = Len(hot) - 1 /\ IsInjective(hot')
      /\ Range(hot') = Range(hot) \ {Head(hot)} /\ Len(hot) \in Nat
  BY TailFacts DEF QueuesOK
<1>2. PICK c \in Conns : c = Head(hot)
  BY <1>1
<1>3. Len(hot') <= HotCap
  BY <1>1 DEF QueuesOK
<1>4. Range(hot') = Range(hot) \ {c} /\ c \in Range(hot) /\ Range(cold') = Range(cold)
  BY <1>1, <1>2
<1>5. Pooled' = Pooled \ {c} /\ c \in Pooled
  BY <1>4 DEF QueuesOK, Pooled
<1>6. QueuesOK'
  BY <1>1, <1>3, <1>4 DEF QueuesOK
<1> QED BY <1>2, <1>5, <1>6

(* A pop of the cold queue takes one connection out of it.                  *)
LEMMA ColdReceived ==
    ASSUME QueuesOK, cold # <<>>, cold' = ColdPopped, hot' = hot
    PROVE  /\ cold[Len(cold)] \in Conns /\ cold[Len(cold)] \in Pooled
           /\ Pooled' = Pooled \ {cold[Len(cold)]} /\ QueuesOK'
<1>1. cold \in Seq(Conns) /\ IsInjective(cold) /\ cold' = SubSeq(cold, 1, Len(cold) - 1)
  BY DEF QueuesOK, ColdPopped
<1>2. /\ cold[Len(cold)] \in Conns /\ cold[Len(cold)] \in Range(cold)
      /\ cold' \in Seq(Conns) /\ IsInjective(cold')
      /\ Range(cold') = Range(cold) \ {cold[Len(cold)]}
  <2>1. /\ cold[Len(cold)] \in Conns /\ cold[Len(cold)] \in Range(cold)
        /\ SubSeq(cold, 1, Len(cold) - 1) \in Seq(Conns)
        /\ IsInjective(cold) =>
              /\ IsInjective(SubSeq(cold, 1, Len(cold) - 1))
              /\ Range(SubSeq(cold, 1, Len(cold) - 1)) = Range(cold) \ {cold[Len(cold)]}
    BY <1>1, PopFacts, Zenon
  <2> QED BY <1>1, <2>1, Zenon
<1>3. PICK c \in Conns : c = cold[Len(cold)]
  BY <1>2
<1>4. Range(cold') = Range(cold) \ {c} /\ c \in Range(cold) /\ Range(hot') = Range(hot)
  BY <1>2, <1>3
<1>5. Pooled' = Pooled \ {c} /\ c \in Pooled
  BY <1>4 DEF QueuesOK, Pooled
<1>6. QueuesOK'
  BY <1>2, <1>4 DEF QueuesOK
<1> QED BY <1>3, <1>5, <1>6

(* A send on the hot queue puts one connection into it.                     *)
LEMMA HotAppended ==
    ASSUME QueuesOK, NEW c \in Conns, c \notin Pooled, HotHasRoom,
           hot' = Append(hot, c), cold' = cold
    PROVE  Pooled' = Pooled \cup {c} /\ QueuesOK'
<1>1. /\ hot' \in Seq(Conns) /\ Len(hot') = Len(hot) + 1 /\ IsInjective(hot')
      /\ Range(hot') = Range(hot) \cup {c} /\ Len(hot) \in Nat
  BY AppendFacts DEF QueuesOK, Pooled
<1>2. Len(hot') <= HotCap
  BY <1>1 DEF HotHasRoom
<1>3. Range(cold') = Range(cold) /\ c \notin Range(cold)
  BY DEF Pooled
<1> QED BY <1>1, <1>2, <1>3 DEF QueuesOK, Pooled

(* A connection is put at the end of the cold queue.                        *)
LEMMA ColdAppended ==
    ASSUME QueuesOK, NEW c \in Conns, c \notin Pooled, cold' = Append(cold, c), hot' = hot
    PROVE  Pooled' = Pooled \cup {c} /\ QueuesOK'
<1>1. /\ cold' \in Seq(Conns) /\ IsInjective(cold')
      /\ Range(cold') = Range(cold) \cup {c}
  BY AppendFacts DEF QueuesOK, Pooled
<1>2. Range(hot') = Range(hot) /\ c \notin Range(hot)
  BY DEF Pooled
<1> QED BY <1>1, <1>2 DEF QueuesOK, Pooled

(* What a caller takes or lets go of.                                       *)
LEMMA HeldMoves ==
    ASSUME PoolInv, NEW k \in Callers
    PROVE  /\ \A c \in Conns : cc[k] = NoConn /\ Take(k, c) => Held' = Held \cup {c}
           /\ cc[k] # NoConn /\ LetGo(k) => Held' = Held \ {cc[k]}
           /\ cc[k] # NoConn => /\ cc[k] \in Held /\ cc[k] \in Conns
                                /\ cc[k] \notin Pooled /\ cc[k] \notin Warming
                                /\ status[cc[k]] # "unborn"
           /\ cc' = cc => Held' = Held
<1>1. /\ cc \in [Callers -> Conns \cup {NoConn}]
      /\ \A l \in Callers : cc[k] = cc[l] /\ cc[k] # NoConn => k = l
  BY DEF PoolInv, TypeOK, ExclusiveOwnership
<1>2. /\ \A c \in Conns : cc[k] = NoConn /\ Take(k, c) => Held' = Held \cup {c}
      /\ cc[k] # NoConn /\ LetGo(k) => Held' = Held \ {cc[k]}
      /\ cc[k] # NoConn => cc[k] \in Held /\ cc[k] \in Conns
      /\ cc' = cc => Held' = Held
  BY <1>1 DEF Held
<1>3. \A c \in Held : c \notin Pooled /\ c \notin Warming
  BY DEF PoolInv, ExclusiveOwnership
<1>4. \A c \in Conns : c \in Held => status[c] # "unborn"
  BY DEF PoolInv, StatusInv
<1> QED BY <1>2, <1>3, <1>4

(* The invariant, put together again after a step.                          *)
LEMMA InvFrom ==
    ASSUME TypeQueues', TypePool', TypeConn', TypeCaller', TypeWarm', created' \in Int,
           StageInv', StatusInv', ExclusiveOwnership', CreatedInv', NoLeakWhileOpen',
           LiveInv'
    PROVE  PoolInv'
  BY TypeGroups DEF PoolInv

(* A caller that takes a pooled connection out of its queue.                *)
LEMMA ReceiveInv ==
    ASSUME PoolInv, QueuesOK, QueuesOK',
           NEW k \in Callers, NEW c \in Conns,
           pc[k] \in {"hot1", "cold", "hot2", "wait"}, cc[k] = NoConn,
           pc[k] = "wait" => waits[k] < Waits,
           c \in Pooled, Pooled' = Pooled \ {c}, Take(k, c),
           UNCHANGED <<closed, created, hotClosed, conns, connVars, pc, waits,
                       warmVars, closeVars>>
    PROVE  PoolInv'
<1>0. /\ TypePool /\ TypeConn /\ TypeCaller /\ TypeWarm /\ created \in Int
  BY TypeGroups DEF PoolInv
<1>a. Held' = Held \cup {c} /\ c \notin Held /\ Warming' = Warming
  <2>1. c \notin Held
    BY DEF PoolInv, ExclusiveOwnership
  <2> QED BY <2>1, HeldMoves, Zenon DEF Warming
<1>b. /\ cc'[k] = c /\ \A l \in Callers : l # k => cc'[l] = cc[l]
      /\ \A l \in Callers : cc[l] # c
  BY <1>0, <1>a DEF TypeCaller, Held
<1>1. TypePool' /\ TypeConn' /\ TypeWarm'
  BY <1>0, TypesKept
<1>2. TypeCaller' /\ TypeQueues'
  BY <1>0 DEF TypeCaller, QueuesOK, TypeQueues
<1>3. StageInv'
  BY <1>b DEF PoolInv, StageInv, HoldStages
<1>4. StatusInv'
  BY <1>a DEF PoolInv, StatusInv
<1>5. ExclusiveOwnership'
  BY <1>a, <1>b DEF PoolInv, ExclusiveOwnership, QueuesOK
<1>6. CreatedInv'
  BY DEF PoolInv, CreatedInv
<1>7. NoLeakWhileOpen'
  BY <1>a DEF PoolInv, NoLeakWhileOpen
<1>8. LiveInv'
  BY <1>b, <1>a DEF PoolInv, LiveInv
<1> QED BY <1>0, <1>1, <1>2, <1>3, <1>4, <1>5, <1>6, <1>7, <1>8, InvFrom

(* A caller that puts its connection into a queue.                          *)
LEMMA ReturnInv ==
    ASSUME PoolInv, QueuesOK, QueuesOK',
           NEW k \in Callers,
           pc[k] \in {"send", "store"}, Pooled' = Pooled \cup {cc[k]}, LetGo(k),
           Goto(k, "idle"),
           UNCHANGED <<closed, created, hotClosed, conns, connVars, waits,
                       warmVars, closeVars>>
    PROVE  PoolInv'
<1>0. /\ TypePool /\ TypeConn /\ TypeCaller /\ TypeWarm /\ created \in Int
  BY TypeGroups DEF PoolInv
<1>a. PICK c \in Conns : c = cc[k]
  BY DEF PoolInv, StageInv, HoldStages
<1>b. /\ c \notin Pooled /\ c \notin Warming /\ c \in Held
      /\ Held' = Held \ {c} /\ Pooled' = Pooled \cup {c} /\ Warming' = Warming
  BY <1>a, HeldMoves, Zenon DEF Warming
<1>c. /\ cc'[k] = NoConn /\ pc'[k] = "idle"
      /\ \A l \in Callers : l # k => cc'[l] = cc[l] /\ pc'[l] = pc[l]
  BY <1>0 DEF TypeCaller
<1>1. TypePool' /\ TypeConn' /\ TypeWarm'
  BY <1>0, TypesKept
<1>2. TypeCaller' /\ TypeQueues'
  BY <1>0 DEF TypeCaller, QueuesOK, TypeQueues, Stages
<1>3. StageInv'
  BY <1>c DEF PoolInv, StageInv, HoldStages
<1>4. StatusInv'
  BY <1>b DEF PoolInv, StatusInv
<1>5. ExclusiveOwnership'
  BY <1>b, <1>c DEF PoolInv, ExclusiveOwnership, QueuesOK
<1>6. CreatedInv'
  BY DEF PoolInv, CreatedInv
<1>7. NoLeakWhileOpen'
  BY <1>b DEF PoolInv, NoLeakWhileOpen
<1>8. LiveInv'
  BY <1>a, <1>b, <1>c DEF PoolInv, LiveInv
<1> QED BY <1>0, <1>1, <1>2, <1>3, <1>4, <1>5, <1>6, <1>7, <1>8, InvFrom

(* A caller that moves on without a connection.                             *)
LEMMA FallThroughInv ==
    ASSUME PoolInv, NEW k \in Callers, NEW s \in {"hot1", "new1", "cold", "hot2",
               "new2", "wait", "idle"},
           cc[k] = NoConn, Goto(k, s), waits' \in [Callers -> 0..Waits],
           \A l \in Callers : l # k => waits'[l] = waits[l],
           UNCHANGED <<poolVars, connVars, cc, warmVars, closeVars>>
    PROVE  PoolInv'
<1>0. /\ TypePool /\ TypeConn /\ TypeCaller /\ TypeWarm /\ TypeQueues /\ created \in Int
  BY TypeGroups DEF PoolInv
<1>a. Held' = Held /\ Warming' = Warming /\ Pooled' = Pooled
  BY QueuesKept DEF Held, Warming
<1>b. pc'[k] = s /\ \A l \in Callers : l # k => pc'[l] = pc[l]
  BY <1>0 DEF TypeCaller
<1>1. TypePool' /\ TypeConn' /\ TypeWarm'
  BY <1>0, TypesKept
<1>2. TypeCaller' /\ TypeQueues'
  BY <1>0 DEF TypeCaller, TypeQueues, Stages
<1>3. StageInv'
  BY <1>b DEF PoolInv, StageInv, HoldStages
<1>4. StatusInv'
  BY <1>a DEF PoolInv, StatusInv
<1>5. ExclusiveOwnership'
  BY <1>a DEF PoolInv, ExclusiveOwnership
<1>6. CreatedInv' /\ NoLeakWhileOpen'
  BY <1>a DEF PoolInv, CreatedInv, NoLeakWhileOpen
<1>7. LiveInv'
  BY <1>a, <1>b DEF PoolInv, LiveInv
<1> QED BY <1>0, <1>1, <1>2, <1>3, <1>4, <1>5, <1>6, <1>7, InvFrom

(* A caller that goes on with the connection it has, and may change its     *)
(* status or close it.                                                      *)
LEMMA WorkInv ==
    ASSUME PoolInv, NEW k \in Callers, NEW s \in HoldStages, cc[k] # NoConn, Goto(k, s),
           UNCHANGED <<poolVars, cc, waits, warmVars, closeVars>>,
           TypeConn', open' \subseteq open, open \ {cc[k]} \subseteq open',
           \A c \in Conns : c # cc[k] => status'[c] = status[c],
           status'[cc[k]] # "unborn", status'[cc[k]] = "closed" => cc[k] \notin open',
           ~closed => \/ cc[k] \in open'
                      \/ s = "put" /\ status'[cc[k]] = "closed",
           ~closed /\ s = "use" => status'[cc[k]] = "inuse"
    PROVE  PoolInv'
<1>0. /\ TypePool /\ TypeCaller /\ TypeWarm /\ TypeQueues /\ created \in Int
  BY TypeGroups DEF PoolInv
<1>a. PICK c \in Conns : /\ c = cc[k] /\ c \in Held /\ c \notin Pooled /\ c \notin Warming
                         /\ status[c] # "unborn"
  BY HeldMoves
<1>b. Held' = Held /\ Warming' = Warming /\ Pooled' = Pooled
  BY QueuesKept DEF Held, Warming
<1>c. pc'[k] = s /\ \A l \in Callers : l # k => pc'[l] = pc[l]
  BY <1>0 DEF TypeCaller
<1>d. \A l \in Callers : l # k => cc[l] # c
  BY <1>a DEF PoolInv, ExclusiveOwnership
<1>1. TypePool' /\ TypeWarm'
  BY <1>0, TypesKept
<1>2. TypeCaller' /\ TypeQueues'
  BY <1>0 DEF TypeCaller, TypeQueues, Stages, HoldStages
<1>3. StageInv'
  BY <1>a, <1>c DEF PoolInv, StageInv, HoldStages
<1>4. StatusInv'
  BY <1>a, <1>b DEF PoolInv, StatusInv
<1>5. ExclusiveOwnership'
  BY <1>b DEF PoolInv, ExclusiveOwnership
<1>6. CreatedInv' /\ NoLeakWhileOpen'
  BY <1>b DEF PoolInv, CreatedInv, NoLeakWhileOpen
<1>7. LiveInv'
  <2> SUFFICES ASSUME ~closed
               PROVE  /\ Pooled \cup Warming \subseteq open'
                      /\ \A l \in Callers : cc[l] # NoConn =>
                            \/ cc[l] \in open'
                            \/ pc'[l] = "put" /\ status'[cc[l]] = "closed"
                      /\ \A l \in Callers : pc'[l] = "use" => status'[cc[l]] = "inuse"
    BY <1>b DEF LiveInv
  <2>1. /\ Pooled \cup Warming \subseteq open
        /\ \A l \in Callers : cc[l] # NoConn =>
              cc[l] \in open \/ (pc[l] = "put" /\ status[cc[l]] = "closed")
        /\ \A l \in Callers : pc[l] = "use" => status[cc[l]] = "inuse" /\ cc[l] \in Conns
    BY DEF PoolInv, LiveInv, StageInv, HoldStages
  <2>2. Pooled \cup Warming \subseteq open'
    BY <1>a, <2>1
  <2>3. ASSUME NEW l \in Callers, l # k
        PROVE  /\ cc[l] # NoConn => cc[l] \in open' \/ (pc'[l] = "put" /\ status'[cc[l]] = "closed")
               /\ pc'[l] = "use" => status'[cc[l]] = "inuse"
    <3>1. cc[l] # NoConn => cc[l] \in Conns /\ cc[l] # cc[k]
      BY <1>0, <1>a, <1>d, <2>3 DEF TypeCaller
    <3> QED BY <1>c, <2>1, <2>3, <3>1
  <2> QED BY <1>a, <1>c, <2>2, <2>3
<1> QED BY <1>0, <1>1, <1>2, <1>3, <1>4, <1>5, <1>6, <1>7, InvFrom

(* A caller that closes its connection and forgets it.                      *)
LEMMA ReleaseInv ==
    ASSUME PoolInv, NEW k \in Callers, NEW s \in {"idle", "new1", "hot2", "new2", "wait"},
           cc[k] # NoConn, LetGo(k), Goto(k, s), TypeConn',
           status' = [status EXCEPT ![cc[k]] = "closed"], open' = open \ {cc[k]},
           created' \in Int, created' <= created,
           waits' \in [Callers -> 0..Waits],
           \A l \in Callers : l # k => waits'[l] = waits[l],
           UNCHANGED <<closed, hot, hotClosed, cold, conns, warmVars, closeVars>>
    PROVE  PoolInv'
<1>0. /\ TypePool /\ TypeCaller /\ TypeWarm /\ TypeQueues /\ TypeConn /\ created \in Int
  BY TypeGroups DEF PoolInv
<1>a. PICK c \in Conns : /\ c = cc[k] /\ c \in Held /\ c \notin Pooled /\ c \notin Warming
                         /\ status[c] # "unborn" /\ Held' = Held \ {c}
  BY HeldMoves, Zenon
<1>b. Warming' = Warming /\ Pooled' = Pooled
  BY QueuesKept DEF Warming
<1>c. /\ cc'[k] = NoConn /\ pc'[k] = s /\ status'[c] = "closed"
      /\ \A l \in Callers : l # k => cc'[l] = cc[l] /\ pc'[l] = pc[l] /\ cc[l] # c
      /\ \A d \in Conns : d # c => status'[d] = status[d]
  BY <1>0, <1>a DEF TypeCaller, TypeConn, PoolInv, ExclusiveOwnership
<1>1. TypePool' /\ TypeWarm'
  BY <1>0, TypesKept
<1>2. TypeCaller' /\ TypeQueues'
  BY <1>0 DEF TypeCaller, TypeQueues, Stages
<1>3. StageInv'
  BY <1>c DEF PoolInv, StageInv, HoldStages
<1>4. StatusInv'
  BY <1>a, <1>b, <1>c DEF PoolInv, StatusInv
<1>5. ExclusiveOwnership'
  BY <1>a, <1>b, <1>c DEF PoolInv, ExclusiveOwnership
<1>6. CreatedInv'
  BY <1>0 DEF PoolInv, CreatedInv, TypeWarm
<1>7. NoLeakWhileOpen'
  BY <1>a, <1>b DEF PoolInv, NoLeakWhileOpen
<1>8. LiveInv'
  <2> SUFFICES ASSUME ~closed
               PROVE  /\ Pooled \cup Warming \subseteq open'
                      /\ \A l \in Callers : cc'[l] # NoConn =>
                            \/ cc'[l] \in open'
                            \/ pc'[l] = "put" /\ status'[cc'[l]] = "closed"
                      /\ \A l \in Callers : pc'[l] = "use" => status'[cc'[l]] = "inuse"
    BY <1>b DEF LiveInv
  <2>1. /\ Pooled \cup Warming \subseteq open
        /\ \A l \in Callers : cc[l] # NoConn =>
              cc[l] \in open \/ (pc[l] = "put" /\ status[cc[l]] = "closed")
        /\ \A l \in Callers : pc[l] = "use" => status[cc[l]] = "inuse" /\ cc[l] \in Conns
        /\ \A l \in Callers : cc[l] \in Conns \cup {NoConn}
    BY <1>0 DEF PoolInv, LiveInv, StageInv, HoldStages, TypeCaller
  <2> QED BY <1>a, <1>c, <2>1
<1> QED BY <1>0, <1>1, <1>2, <1>3, <1>4, <1>5, <1>6, <1>7, <1>8, InvFrom

(* Closing a connection, whether or not its status said so already.         *)
LEMMA CloseFacts ==
    ASSUME PoolInv, NEW c \in Conns, CloseConn(c)
    PROVE  /\ status' = [status EXCEPT ![c] = "closed"] /\ open' = open \ {c}
           /\ TypeConn' /\ status'[c] = "closed"
           /\ \A d \in Conns : d # c => status'[d] = status[d]
<1>1. TypeConn /\ (status[c] = "closed" => c \notin open)
  BY TypeGroups DEF PoolInv, StatusInv
<1> QED BY <1>1 DEF TypeConn, Statuses

(* A caller at a stage that has a connection.                               *)
LEMMA StageHolds ==
    ASSUME PoolInv, NEW k \in Callers, pc[k] \in HoldStages
    PROVE  cc[k] # NoConn /\ cc[k] \in Conns
  BY DEF PoolInv, StageInv

(* get begins.                                                              *)
LEMMA EnterInv ==
    ASSUME PoolInv, NEW k \in Callers, Enter(k)
    PROVE  PoolInv'
<1>1. cc[k] = NoConn /\ TypeCaller
  BY TypeGroups DEF Enter, PoolInv, StageInv
<1>2. waits' \in [Callers -> 0..Waits] /\ \A l \in Callers : l # k => waits'[l] = waits[l]
  BY <1>1 DEF Enter, TypeCaller
<1> QED BY <1>1, <1>2, FallThroughInv, Zenon DEF Enter

(* The head of the hot queue moves to the caller, or the caller moves on.   *)
LEMMA TryHotInv ==
    ASSUME PoolInv, NEW k \in Callers, TryHot(k)
    PROVE  PoolInv'
<1>1. QueuesOK /\ TypeCaller
  BY Queues, TypeGroups DEF PoolInv
<1>2. CASE hot # <<>> /\ Take(k, Head(hot)) /\ hot' = Tail(hot) /\ pc' = pc
  <2>1. cold' = cold
    BY DEF TryHot
  <2>2. PICK c \in Conns : /\ c = Head(hot) /\ c \in Pooled
                           /\ Pooled' = Pooled \ {c} /\ QueuesOK'
    BY <1>1, <1>2, <2>1, HotReceived
  <2>3. pc[k] \in {"hot1", "cold", "hot2", "wait"} /\ cc[k] = NoConn /\ pc[k] # "wait"
    BY DEF TryHot
  <2>4. UNCHANGED <<closed, created, hotClosed, conns, connVars, pc, waits, warmVars, closeVars>>
    BY <1>2 DEF TryHot
  <2> QED BY <1>1, <1>2, <2>2, <2>3, <2>4, ReceiveInv, Zenon
<1>3. CASE hot = <<>> /\ Goto(k, After[pc[k]]) /\ UNCHANGED <<cc, hot>>
  <2>1. PICK s \in {"new1", "new2"} : s = After[pc[k]]
    BY AfterFacts DEF TryHot
  <2>2. cc[k] = NoConn /\ UNCHANGED <<poolVars, connVars, cc, waits, warmVars, closeVars>>
    BY <1>3 DEF TryHot
  <2> QED BY <1>1, <1>3, <2>1, <2>2, FallThroughInv, Zenon DEF TypeCaller
<1> QED BY <1>2, <1>3 DEF TryHot

(* The last connection of the cold queue moves to the caller, or the caller *)
(* moves on.                                                                *)
LEMMA TryColdInv ==
    ASSUME PoolInv, NEW k \in Callers, TryCold(k)
    PROVE  PoolInv'
<1>1. QueuesOK /\ TypeCaller
  BY Queues, TypeGroups DEF PoolInv
<1>2. CASE cold # <<>> /\ Take(k, cold[Len(cold)]) /\ cold' = ColdPopped /\ pc' = pc
  <2>1. hot' = hot
    BY DEF TryCold
  <2>2. PICK c \in Conns : /\ c = cold[Len(cold)] /\ c \in Pooled
                           /\ Pooled' = Pooled \ {c} /\ QueuesOK'
    BY <1>1, <1>2, <2>1, ColdReceived
  <2>3. pc[k] \in {"hot1", "cold", "hot2", "wait"} /\ cc[k] = NoConn /\ pc[k] # "wait"
    BY DEF TryCold
  <2>4. UNCHANGED <<closed, created, hotClosed, conns, connVars, pc, waits, warmVars, closeVars>>
    BY <1>2 DEF TryCold
  <2> QED BY <1>1, <1>2, <2>2, <2>3, <2>4, ReceiveInv, Zenon
<1>3. CASE cold = <<>> /\ Goto(k, After[pc[k]]) /\ UNCHANGED <<cc, cold>>
  <2>1. After[pc[k]] = "hot2"
    BY AfterFacts DEF TryCold
  <2>2. cc[k] = NoConn /\ UNCHANGED <<poolVars, connVars, cc, waits, warmVars, closeVars>>
    BY <1>3 DEF TryCold
  <2> QED BY <1>1, <1>3, <2>1, <2>2, FallThroughInv, Zenon DEF TypeCaller
<1> QED BY <1>2, <1>3 DEF TryCold

(* A fresh connection is nowhere else, and there was a slot for it.         *)
LEMMA CreateInv ==
    ASSUME PoolInv, NEW k \in Callers, CreateNewConn(k)
    PROVE  PoolInv'
<1>0. /\ TypePool /\ TypeConn /\ TypeCaller /\ TypeWarm /\ TypeQueues /\ created \in Int
      /\ pc[k] \in {"new1", "new2"} /\ cc[k] = NoConn
  BY TypeGroups DEF PoolInv, StageInv, CreateNewConn
<1>1. ASSUME NEW c \in Conns, CanCreate, newClientConn(c), conns' = conns \cup {c},
             created' = created + 1, Take(k, c), Goto(k, "mark")
      PROVE  PoolInv'
  <2>0. UNCHANGED <<closed, hot, hotClosed, cold, waits, warmVars, closeVars>>
    BY DEF CreateNewConn
  <2>a. /\ c \notin Held /\ c \notin Pooled /\ c \notin Warming
        /\ Pooled' = Pooled /\ Warming' = Warming /\ Held' = Held \cup {c}
    <3>1. c \notin Held /\ c \notin Pooled /\ c \notin Warming
      BY <1>1 DEF PoolInv, StatusInv
    <3>2. Pooled' = Pooled /\ Warming' = Warming
      BY <2>0, QueuesKept DEF Warming
    <3>3. Held' = Held \cup {c}
      BY <1>0, <1>1, HeldMoves, Zenon
    <3> QED BY <3>1, <3>2, <3>3
  <2>b. /\ cc'[k] = c /\ pc'[k] = "mark" /\ status'[c] = "idle" /\ open' = open \cup {c}
        /\ \A l \in Callers : l # k => cc'[l] = cc[l] /\ pc'[l] = pc[l]
        /\ \A l \in Callers : cc[l] # c
        /\ \A d \in Conns : d # c => status'[d] = status[d]
    BY <1>0, <1>1, <2>a DEF TypeCaller, TypeConn, Held
  <2>1. TypePool'
    BY <1>0, <1>1, <2>0, Zenon DEF TypePool
  <2>2. TypeConn' /\ TypeCaller' /\ TypeQueues' /\ TypeWarm' /\ created' \in Int
    BY <1>0, <1>1, <2>0, TypesKept DEF TypeConn, TypeCaller, TypeQueues, Stages, Statuses
  <2>3. StageInv'
    BY <2>0, <2>b DEF PoolInv, StageInv, HoldStages
  <2>4. StatusInv'
    BY <1>1, <2>0, <2>a, <2>b DEF PoolInv, StatusInv
  <2>5. ExclusiveOwnership'
    BY <2>0, <2>a, <2>b DEF PoolInv, ExclusiveOwnership
  <2>6. CreatedInv'
    BY <1>0, <1>1, <2>0 DEF CreatedInv, CanCreate, TypeWarm
  <2>7. NoLeakWhileOpen'
    BY <2>0, <2>a, <2>b DEF PoolInv, NoLeakWhileOpen
  <2>8. LiveInv'
    <3>1. \A l \in Callers : pc[l] = "use" => cc[l] \in Conns /\ cc[l] # NoConn
      BY DEF PoolInv, StageInv, HoldStages
    <3>2. \A l \in Callers : cc[l] \in Conns \cup {NoConn}
      BY <1>0 DEF TypeCaller
    <3> QED BY <2>0, <2>a, <2>b, <3>1, <3>2 DEF PoolInv, LiveInv
  <2> QED BY <2>1, <2>2, <2>3, <2>4, <2>5, <2>6, <2>7, <2>8, InvFrom
<1>2. CASE Goto(k, After[pc[k]]) /\ UNCHANGED <<created, conns, connVars, cc>>
  <2>1. PICK s \in {"cold", "wait"} : s = After[pc[k]]
    BY <1>0, AfterFacts
  <2>2. UNCHANGED <<poolVars, connVars, cc, waits, warmVars, closeVars>>
    BY <1>2 DEF CreateNewConn
  <2> QED BY <1>0, <1>2, <2>1, <2>2, FallThroughInv, Zenon DEF TypeCaller
<1> QED BY <1>1, <1>2 DEF CreateNewConn

(* A wait round takes the head of the hot queue or nothing.                 *)
LEMMA WaitHotInv ==
    ASSUME PoolInv, NEW k \in Callers, WaitHot(k)
    PROVE  PoolInv'
<1>1. /\ QueuesOK /\ TypeCaller /\ pc[k] = "wait" /\ cc[k] = NoConn
      /\ UNCHANGED <<closed, created, hotClosed, cold, conns, connVars, warmVars, closeVars>>
  BY Queues, TypeGroups DEF PoolInv, WaitHot
<1>2. CASE /\ waits[k] < Waits /\ Take(k, Head(hot)) /\ hot # <<>> /\ hot' = Tail(hot)
           /\ UNCHANGED <<pc, waits>>
  <2>1. PICK c \in Conns : /\ c = Head(hot) /\ c \in Pooled
                           /\ Pooled' = Pooled \ {c} /\ QueuesOK'
    BY <1>1, <1>2, HotReceived
  <2> QED BY <1>1, <1>2, <2>1, ReceiveInv, Zenon
<1>3. CASE waits[k] < Waits /\ waits' = [waits EXCEPT ![k] = NextWait(k)]
           /\ UNCHANGED <<pc, cc, hot>>
  <2>1. waits' \in [Callers -> 0..Waits] /\ \A l \in Callers : l # k => waits'[l] = waits[l]
    BY <1>1, <1>3 DEF TypeCaller, NextWait
  <2>2. Goto(k, "wait")
    BY <1>1, <1>3 DEF TypeCaller
  <2> QED BY <1>1, <1>3, <2>1, <2>2, FallThroughInv, Zenon
<1>4. CASE Goto(k, "idle") /\ UNCHANGED <<cc, hot, waits>>
  BY <1>1, <1>4, FallThroughInv, Zenon DEF TypeCaller
<1> QED BY <1>2, <1>3, <1>4 DEF WaitHot

(* A popped connection is kept, or closed and its slot freed.               *)
LEMMA VerifyInv ==
    ASSUME PoolInv, NEW k \in Callers, Verify(k)
    PROVE  PoolInv'
<1>1. /\ TypeCaller /\ TypeConn /\ created \in Int /\ cc[k] # NoConn /\ cc[k] \in Conns
      /\ pc[k] \in {"hot1", "cold", "hot2", "wait"} /\ status[cc[k]] # "unborn"
      /\ UNCHANGED <<closed, hot, hotClosed, cold, conns, warmVars, closeVars>>
  BY TypeGroups, HeldMoves DEF PoolInv, Verify
<1>2. CASE ~isClosed(cc[k]) /\ Goto(k, "mark") /\ UNCHANGED <<created, connVars, cc, waits>>
  <2>1. "mark" \in HoldStages
    BY DEF HoldStages
  <2>a. TypeConn'
    BY <1>1, <1>2, TypesKept, Zenon
  <2>2. ~closed => cc[k] \in open
    BY <1>1, <1>2 DEF PoolInv, LiveInv
  <2> QED BY <1>1, <1>2, <2>1, <2>a, <2>2, WorkInv, Zenon
<1>3. CASE /\ releaseConn(cc[k]) /\ LetGo(k) /\ Goto(k, After[pc[k]])
           /\ waits' = IF pc[k] = "wait" THEN [waits EXCEPT ![k] = @ + 1] ELSE waits
  <2>1. /\ waits' \in [Callers -> 0..Waits]
        /\ \A l \in Callers : l # k => waits'[l] = waits[l]
    BY <1>1, <1>3, SMTT(30) DEF PoolInv, StageInv, TypeCaller
  <2>2. PICK s \in {"new1", "hot2", "new2", "wait"} : s = After[pc[k]]
    BY <1>1, AfterFacts
  <2>3. created' \in Int /\ created' <= created
    BY <1>1, <1>3 DEF releaseConn
  <2>4. /\ status' = [status EXCEPT ![cc[k]] = "closed"] /\ open' = open \ {cc[k]} /\ TypeConn'
    BY <1>1, <1>3, CloseFacts, Zenon DEF releaseConn
  <2> QED BY <1>1, <1>3, <2>1, <2>2, <2>3, <2>4, ReleaseInv, Zenon
<1> QED BY <1>2, <1>3 DEF Verify

(* What is known of a caller that works with a connection.                  *)
LEMMA KeepFacts ==
    ASSUME PoolInv, NEW k \in Callers, pc[k] \in HoldStages
    PROVE  /\ TypeConn /\ TypeCaller /\ cc[k] # NoConn /\ cc[k] \in Conns
           /\ status[cc[k]] # "unborn"
           /\ status[cc[k]] = "closed" => cc[k] \notin open
           /\ ~closed => /\ cc[k] \in open \/ (pc[k] = "put" /\ status[cc[k]] = "closed")
                         /\ pc[k] = "use" => status[cc[k]] = "inuse"
<1>1. /\ TypeConn /\ TypeCaller /\ cc[k] # NoConn /\ cc[k] \in Conns /\ status[cc[k]] # "unborn"
  BY TypeGroups, HeldMoves, StageHolds DEF PoolInv
<1>2. status[cc[k]] = "closed" => cc[k] \notin open
  BY <1>1 DEF PoolInv, StatusInv
<1>3. ~closed => /\ cc[k] \in open \/ (pc[k] = "put" /\ status[cc[k]] = "closed")
                 /\ pc[k] = "use" => status[cc[k]] = "inuse"
  BY <1>1 DEF PoolInv, LiveInv
<1> QED BY <1>1, <1>2, <1>3, Zenon

(* A caller sets the status of its connection to t and goes on to stage s.  *)
LEMMA MarkInv ==
    ASSUME PoolInv, NEW k \in Callers, NEW t \in {"inuse", "idle"}, NEW s \in {"use", "send"},
           pc[k] \in HoldStages, pc[k] # "put", s = "use" => t = "inuse", Goto(k, s),
           status' = [status EXCEPT ![cc[k]] = t],
           UNCHANGED <<poolVars, open, cc, waits, warmVars, closeVars>>
    PROVE  PoolInv'
<1>1. s \in HoldStages
  BY DEF HoldStages
<1>2. /\ TypeConn /\ cc[k] # NoConn /\ cc[k] \in Conns /\ (~closed => cc[k] \in open)
  BY KeepFacts
<1>3. /\ status' \in [Conns -> Statuses] /\ status'[cc[k]] = t
      /\ \A c \in Conns : c # cc[k] => status'[c] = status[c]
  BY <1>2 DEF TypeConn, Statuses
<1>4. TypeConn'
  BY <1>2, <1>3, Zenon DEF TypeConn
<1>5. /\ open' \subseteq open /\ open \ {cc[k]} \subseteq open'
      /\ status'[cc[k]] # "unborn" /\ status'[cc[k]] # "closed"
      /\ ~closed => cc[k] \in open'
      /\ ~closed /\ s = "use" => status'[cc[k]] = "inuse"
  BY <1>2, <1>3
<1> QED BY <1>1, <1>2, <1>3, <1>4, <1>5, WorkInv, Zenon

(* A caller goes on to stage s with its connection as it is.                *)
LEMMA MoveInv ==
    ASSUME PoolInv, NEW k \in Callers, NEW s \in {"put", "idling", "panic", "store"},
           pc[k] \in HoldStages, Goto(k, s), pc[k] = "put" => status[cc[k]] # "closed",
           UNCHANGED <<poolVars, connVars, cc, waits, warmVars, closeVars>>
    PROVE  PoolInv'
<1>1. s \in HoldStages
  BY DEF HoldStages
<1>2. /\ TypeConn /\ cc[k] # NoConn /\ cc[k] \in Conns /\ (~closed => cc[k] \in open)
      /\ status[cc[k]] # "unborn" /\ (status[cc[k]] = "closed" => cc[k] \notin open)
  BY KeepFacts, Zenon
<1>3. TypeConn'
  BY <1>2, TypesKept, Zenon
<1>4. /\ open' \subseteq open /\ open \ {cc[k]} \subseteq open' /\ s # "use"
      /\ status' = status /\ open' = open
  OBVIOUS
<1> QED BY <1>1, <1>2, <1>3, <1>4, WorkInv, Zenon

(* get marks the connection it returns, and the caller goes on with it.     *)
LEMMA MarkInUseInv ==
    ASSUME PoolInv, NEW k \in Callers, MarkInUse(k)
    PROVE  PoolInv'
<1>1. pc[k] = "mark" /\ pc[k] \in HoldStages
  BY DEF MarkInUse, HoldStages
<1>2. /\ status' = [status EXCEPT ![cc[k]] = "inuse"] /\ Goto(k, "use")
      /\ UNCHANGED <<poolVars, open, cc, waits, warmVars, closeVars>>
  BY Zenon DEF MarkInUse
<1> QED BY <1>1, <1>2, MarkInv, Zenon

(* The call is over and the connection goes to put.                         *)
LEMMA EndUseInv ==
    ASSUME PoolInv, NEW k \in Callers, EndUse(k)
    PROVE  PoolInv'
<1>1. pc[k] = "use" /\ pc[k] \in HoldStages
  BY DEF EndUse, HoldStages
<1>2. Goto(k, "put") /\ UNCHANGED <<poolVars, connVars, cc, waits, warmVars, closeVars>>
  BY Zenon DEF EndUse
<1> QED BY <1>1, <1>2, MoveInv, Zenon

(* put marks the connection idle before it queues it.                       *)
LEMMA MarkIdleInv ==
    ASSUME PoolInv, NEW k \in Callers, MarkIdle(k)
    PROVE  PoolInv'
<1>1. pc[k] = "idling" /\ pc[k] \in HoldStages
  BY DEF MarkIdle, HoldStages
<1>2. /\ status' = [status EXCEPT ![cc[k]] = "idle"] /\ Goto(k, "send")
      /\ UNCHANGED <<poolVars, open, cc, waits, warmVars, closeVars>>
  BY Zenon DEF MarkIdle
<1> QED BY <1>1, <1>2, MarkInv, Zenon

(* A failed heartbeat closes the connection its caller still works with.    *)
LEMMA HeartbeatFailedInv ==
    ASSUME PoolInv, NEW k \in Callers, HeartbeatFailed(k)
    PROVE  PoolInv'
<1>1. pc[k] \in HoldStages /\ "put" \in HoldStages
  BY DEF HeartbeatFailed, HoldStages
<1>2. cc[k] # NoConn /\ cc[k] \in Conns
  BY <1>1, StageHolds
<1>3. PICK c \in Conns : c = cc[k] /\ CloseConn(c)
  BY <1>2, Zenon DEF HeartbeatFailed
<1>4. /\ open' = open \ {c} /\ TypeConn' /\ status'[c] = "closed"
      /\ \A d \in Conns : d # c => status'[d] = status[d]
  BY <1>3, CloseFacts, Zenon
<1>5. Goto(k, "put") /\ UNCHANGED <<poolVars, cc, waits, warmVars, closeVars>>
  BY Zenon DEF HeartbeatFailed
<1>6. /\ open' \subseteq open /\ open \ {cc[k]} \subseteq open' /\ cc[k] \notin open'
      /\ status'[cc[k]] = "closed"
      /\ \A d \in Conns : d # cc[k] => status'[d] = status[d]
  BY <1>3, <1>4
<1> QED BY <1>1, <1>2, <1>4, <1>5, <1>6, WorkInv, Zenon

(* The caller closes its connection and forgets it; the slot stays taken.   *)
LEMMA SendFailedInv ==
    ASSUME PoolInv, NEW k \in Callers, SendFailed(k)
    PROVE  PoolInv'
<1>1. pc[k] \in HoldStages
  BY DEF SendFailed, HoldStages
<1>2. cc[k] # NoConn /\ cc[k] \in Conns /\ TypeCaller /\ created \in Int
  BY <1>1, StageHolds, TypeGroups DEF PoolInv
<1>a. PICK c \in Conns : c = cc[k] /\ CloseConn(c)
  BY <1>2, Zenon DEF SendFailed
<1>b. /\ status' = [status EXCEPT ![c] = "closed"] /\ open' = open \ {c} /\ TypeConn'
  BY <1>a, CloseFacts, Zenon
<1>3. /\ status' = [status EXCEPT ![cc[k]] = "closed"] /\ open' = open \ {cc[k]} /\ TypeConn'
  BY <1>a, <1>b, Zenon
<1>4. /\ LetGo(k) /\ Goto(k, "idle")
      /\ UNCHANGED <<closed, created, hot, hotClosed, cold, conns, waits, warmVars, closeVars>>
  BY DEF SendFailed
<1>5. /\ created' \in Int /\ created' <= created /\ waits' \in [Callers -> 0..Waits]
      /\ \A l \in Callers : l # k => waits'[l] = waits[l]
  BY <1>2, <1>4 DEF TypeCaller
<1> QED BY <1>2, <1>3, <1>4, <1>5, ReleaseInv, Zenon

(* put drops a closed connection.                                           *)
LEMMA PutCheckInv ==
    ASSUME PoolInv, NEW k \in Callers, PutCheck(k)
    PROVE  PoolInv'
<1>1. CASE isClosed(cc[k])
  <2>1. pc[k] \in HoldStages
    BY DEF PutCheck, HoldStages
  <2>2. /\ cc[k] # NoConn /\ cc[k] \in Conns /\ TypeCaller /\ TypeConn /\ created \in Int
        /\ cc[k] \notin open
    BY <1>1, <2>1, StageHolds, TypeGroups DEF PoolInv, StatusInv
  <2>3. status' = [status EXCEPT ![cc[k]] = "closed"] /\ open' = open \ {cc[k]}
    BY <1>1, <2>2 DEF PutCheck, TypeConn
  <2>a. UNCHANGED connVars
    BY DEF PutCheck
  <2>4. TypeConn'
    BY <2>2, <2>a, TypesKept
  <2>5. /\ LetGo(k) /\ Goto(k, "idle")
        /\ UNCHANGED <<closed, created, hot, hotClosed, cold, conns, waits, warmVars, closeVars>>
    BY <1>1 DEF PutCheck
  <2>6. /\ created' \in Int /\ created' <= created /\ waits' \in [Callers -> 0..Waits]
        /\ \A l \in Callers : l # k => waits'[l] = waits[l]
    BY <2>2, <2>5 DEF TypeCaller
  <2> QED BY <2>2, <2>3, <2>4, <2>5, <2>6, ReleaseInv, Zenon
<1>2. CASE ~isClosed(cc[k])
  <2>1. pc[k] \in HoldStages
    BY DEF PutCheck, HoldStages
  <2> QED BY <1>2, <2>1, MoveInv DEF PutCheck
<1> QED BY <1>1, <1>2

(* The connection moves to the end of the hot queue, or the caller moves.   *)
LEMMA SendHotInv ==
    ASSUME PoolInv, NEW k \in Callers, SendHot(k)
    PROVE  PoolInv'
<1>1. CASE hot' = Append(hot, cc[k]) /\ HotHasRoom /\ LetGo(k) /\ Goto(k, "idle")
  <2>1. pc[k] \in HoldStages /\ pc[k] = "send"
    BY DEF SendHot, HoldStages
  <2>2. PICK c \in Conns : c = cc[k] /\ c \notin Pooled
    BY <2>1, StageHolds, HeldMoves
  <2>3. UNCHANGED <<closed, created, hotClosed, cold, conns, connVars, waits,
                    warmVars, closeVars>>
    BY DEF SendHot
  <2>4. QueuesOK
    BY Queues
  <2>5. QueuesOK' /\ Pooled' = Pooled \cup {c}
    BY <1>1, <2>2, <2>3, <2>4, HotAppended
  <2> QED BY <1>1, <2>1, <2>2, <2>3, <2>4, <2>5, ReturnInv, Zenon
<1>2. ASSUME NEW s \in {"panic", "store"}, Goto(k, s), UNCHANGED <<hot, cc>>
      PROVE  PoolInv'
  <2>1. pc[k] \in HoldStages /\ pc[k] = "send"
    BY DEF SendHot, HoldStages
  <2> QED BY <1>2, <2>1, MoveInv, Zenon DEF SendHot
<1> QED BY <1>1, <1>2 DEF SendHot

(* The connection moves to the cold queue, or is closed after Close.        *)
LEMMA StoreColdInv ==
    ASSUME PoolInv, NEW k \in Callers, StoreCold(k)
    PROVE  PoolInv'
<1>1. /\ pc[k] \in HoldStages /\ pc[k] = "store" /\ LetGo(k) /\ Goto(k, "idle")
      /\ UNCHANGED <<closed, hot, hotClosed, conns, waits, warmVars, closeVars>>
  BY DEF StoreCold, HoldStages
<1>2. PICK c \in Conns : c = cc[k] /\ c \notin Pooled /\ c # NoConn
  BY <1>1, StageHolds, HeldMoves
<1>3. CASE ~closed
  <2>1. QueuesOK
    BY Queues
  <2>2. cold' = Append(cold, c) /\ UNCHANGED <<created, connVars>>
    BY <1>2, <1>3 DEF StoreCold
  <2>3. QueuesOK' /\ Pooled' = Pooled \cup {c}
    BY <1>1, <1>2, <2>1, <2>2, ColdAppended
  <2> QED BY <1>1, <1>2, <2>1, <2>2, <2>3, ReturnInv, Zenon
<1>4. CASE closed
  <2>1. TypeCaller /\ created \in Int
    BY TypeGroups DEF PoolInv
  <2>2. created' \in Int /\ created' <= created /\ cold' = cold /\ CloseConn(c)
    BY <1>2, <1>4, <2>1 DEF StoreCold, releaseConn
  <2>3. /\ status' = [status EXCEPT ![c] = "closed"] /\ open' = open \ {c} /\ TypeConn'
    BY <2>2, CloseFacts, Zenon
  <2> QED BY <1>1, <1>2, <2>1, <2>2, <2>3, ReleaseInv, Zenon DEF TypeCaller
<1> QED BY <1>3, <1>4

(* The connection dialled by the warm-up is nowhere else yet.               *)
LEMMA WarmDialInv ==
    ASSUME PoolInv, WarmDial
    PROVE  PoolInv'
<1>0. /\ TypePool /\ TypeConn /\ TypeCaller /\ TypeWarm /\ TypeQueues /\ created \in Int
      /\ wpc = "dial" /\ wcc = NoConn /\ UNCHANGED <<poolVars, callerVars, closeVars>>
  BY TypeGroups DEF PoolInv, StageInv, WarmDial
<1>a. Held' = Held /\ Pooled' = Pooled
  BY <1>0, QueuesKept DEF Held
<1>1. TypePool' /\ TypeCaller' /\ TypeQueues'
  BY <1>0, TypesKept DEF TypeQueues
<1>2. ASSUME NEW c \in Conns, newClientConn(c), wcc' = c, wpc' = "add", wleft' = wleft, wleft > 0
      PROVE  PoolInv'
  <2>a. /\ Warming = {} /\ Warming' = {c} /\ c \notin Held /\ c \notin Pooled
        /\ open' = open \cup {c} /\ status'[c] = "idle"
        /\ \A d \in Conns : d # c => status'[d] = status[d]
    <3>1. Warming = {} /\ Warming' = {c}
      BY <1>0, <1>2 DEF Warming
    <3>2. c \notin Held /\ c \notin Pooled
      BY <1>2 DEF PoolInv, StatusInv
    <3> QED BY <1>0, <1>2, <3>1, <3>2 DEF TypeConn
  <2>1. TypeConn' /\ TypeWarm'
    BY <1>0, <1>2 DEF TypeConn, TypeWarm, Statuses
  <2>2. StageInv'
    BY <1>0, <1>2 DEF PoolInv, StageInv
  <2>3. StatusInv'
    BY <1>0, <1>a, <2>a DEF PoolInv, StatusInv
  <2>4. ExclusiveOwnership'
    BY <1>0, <1>a, <2>a DEF PoolInv, ExclusiveOwnership
  <2>5. CreatedInv' /\ NoLeakWhileOpen'
    BY <1>0, <1>2, <1>a, <2>a DEF PoolInv, CreatedInv, NoLeakWhileOpen
  <2>6. LiveInv'
    <3>1. \A l \in Callers : cc[l] # c /\ (pc[l] = "use" => cc[l] \in Conns)
      BY <2>a DEF Held, PoolInv, StageInv, HoldStages
    <3>2. \A l \in Callers : cc[l] \in Conns \cup {NoConn}
      BY <1>0 DEF TypeCaller
    <3> QED BY <1>0, <1>a, <2>a, <3>1, <3>2 DEF PoolInv, LiveInv
  <2> QED BY <1>0, <1>1, <2>1, <2>2, <2>3, <2>4, <2>5, <2>6, InvFrom
<1>3. ASSUME UNCHANGED <<connVars, wcc>>, wpc' \in {"dial", "done"}, TypeWarm', wleft' <= wleft
      PROVE  PoolInv'
  <2>a. Warming' = Warming
    BY <1>3 DEF Warming
  <2>1. TypeConn'
    BY <1>0, <1>3, TypesKept
  <2>2. StageInv'
    BY <1>0, <1>3 DEF PoolInv, StageInv
  <2>3. StatusInv'
    BY <1>0, <1>3, <1>a, <2>a DEF PoolInv, StatusInv
  <2>4. ExclusiveOwnership'
    BY <1>0, <1>a, <2>a DEF PoolInv, ExclusiveOwnership
  <2>5. CreatedInv'
    <3>1. wleft \in Int /\ wleft' \in Int /\ created' = created /\ PrewarmCount \in Int
      BY <1>0, <1>3, Sizes DEF TypeWarm
    <3>2. Size \in Int /\ created <= Size + PrewarmCount - wleft /\ wleft' <= wleft
      BY <1>3, PoolAssumption DEF PoolInv, CreatedInv
    <3>3. PICK p \in Int : p = PrewarmCount
      BY <3>1
    <3>4. created \in Int
      BY <1>0
    <3>5. \A a, b, w, v, n \in Int : a <= n + b - w /\ v <= w => a <= n + b - v
      OBVIOUS
    <3>6. created <= Size + p - wleft'
      BY <3>1, <3>2, <3>3, <3>4, <3>5, Zenon
    <3>7. created' <= Size + p - wleft'
      BY <3>1, <3>6
    <3> QED BY <3>3, <3>7 DEF CreatedInv
  <2>6. NoLeakWhileOpen' /\ LiveInv'
    BY <1>0, <1>3, <1>a, <2>a DEF PoolInv, NoLeakWhileOpen, LiveInv
  <2> QED BY <1>0, <1>1, <1>3, <2>1, <2>2, <2>3, <2>4, <2>5, <2>6, InvFrom
<1>4. CASE wpc' = "done" /\ UNCHANGED <<connVars, wcc, wleft>>
  BY <1>0, <1>3, <1>4 DEF TypeWarm
<1>5. CASE wleft > 0 /\ wleft' = wleft - 1 /\ UNCHANGED <<connVars, wpc, wcc>>
  BY <1>0, <1>3, <1>5 DEF TypeWarm
<1> QED BY <1>2, <1>4, <1>5 DEF WarmDial

(* The connection moves from the warm-up to the cold queue.                 *)
LEMMA WarmAddInv ==
    ASSUME PoolInv, WarmAdd
    PROVE  PoolInv'
<1>0. /\ TypePool /\ TypeConn /\ TypeCaller /\ TypeWarm /\ QueuesOK /\ created \in Int
  BY TypeGroups, Queues DEF PoolInv
<1>a. PICK c \in Conns : /\ c = wcc /\ c \notin Pooled /\ c \notin Held /\ wleft > 0
                         /\ Warming = {c}
  BY <1>0 DEF WarmAdd, PoolInv, StageInv, ExclusiveOwnership, Warming, TypeWarm
<1>b. /\ UNCHANGED <<closed, hot, hotClosed, connVars, callerVars, closeVars>>
      /\ conns' = conns \cup {c} /\ created' = created + 1 /\ cold' = Append(cold, c)
      /\ wpc' = "dial" /\ wcc' = NoConn /\ wleft' = wleft - 1
  BY <1>a DEF WarmAdd
<1>c. /\ QueuesOK' /\ Pooled' = Pooled \cup {c} /\ Held' = Held /\ Warming' = {}
  BY <1>0, <1>a, <1>b, ColdAppended DEF Held, Warming
<1>1. TypePool'
  BY <1>0, <1>b, Zenon DEF TypePool
<1>2. TypeConn' /\ TypeCaller' /\ TypeQueues'
  BY <1>0, <1>b, <1>c, TypesKept DEF QueuesOK, TypeQueues
<1>d. /\ wleft \in 0..PrewarmCount /\ PrewarmCount \in Nat /\ Size \in Nat
      /\ created <= Size + PrewarmCount - wleft
  BY <1>0, Sizes, PoolAssumption DEF TypeWarm, PoolInv, CreatedInv
<1>e. wleft' \in 0..PrewarmCount /\ created' \in Int /\ created' <= Size + PrewarmCount - wleft'
  BY <1>0, <1>a, <1>b, <1>d
<1>3. TypeWarm' /\ created' \in Int /\ CreatedInv'
  BY <1>b, <1>e DEF TypeWarm, CreatedInv
<1>4. StageInv'
  BY <1>b DEF PoolInv, StageInv
<1>5. StatusInv'
  BY <1>a, <1>b, <1>c DEF PoolInv, StatusInv
<1>6. ExclusiveOwnership'
  BY <1>a, <1>b, <1>c DEF PoolInv, ExclusiveOwnership, QueuesOK
<1>7. NoLeakWhileOpen' /\ LiveInv'
  BY <1>a, <1>b, <1>c DEF PoolInv, NoLeakWhileOpen, LiveInv
<1> QED BY <1>1, <1>2, <1>3, <1>4, <1>5, <1>6, <1>7, InvFrom

(* Close: once closed is set, only types and places matter.                 *)
LEMMA ClosingInv ==
    ASSUME PoolInv, closed' = TRUE, QueuesOK', TypePool', TypeConn',
           Pooled' \subseteq Pooled, UNCHANGED <<callerVars, warmVars>>,
           created' \in Int, created' <= Size + PrewarmCount - wleft,
           \A c \in Conns : status'[c] = "unborn" => status[c] = "unborn",
           \A c \in Conns : status'[c] = "closed" => c \notin open',
           open' \subseteq open, conns' \subseteq conns,
           kset' \subseteq kset \cup conns \cup Pooled,
           kpc' # "idle", kpc' = "conns" => ~hotClosed'
    PROVE  PoolInv'
<1>0. TypeCaller /\ TypeWarm
  BY TypeGroups DEF PoolInv
<1>a. Held' = Held /\ Warming' = Warming
  BY DEF Held, Warming
<1>1. TypeCaller' /\ TypeWarm' /\ TypeQueues'
  BY <1>0, TypesKept DEF QueuesOK, TypeQueues
<1>2. StageInv'
  BY DEF PoolInv, StageInv
<1>3. StatusInv'
  BY <1>a DEF PoolInv, StatusInv
<1>4. ExclusiveOwnership'
  BY <1>a DEF PoolInv, ExclusiveOwnership, QueuesOK
<1>5. CreatedInv' /\ NoLeakWhileOpen' /\ LiveInv'
  BY DEF CreatedInv, NoLeakWhileOpen, LiveInv
<1> QED BY <1>1, <1>2, <1>3, <1>4, <1>5, InvFrom

(* Close empties the cold queue and takes what was in it.                   *)
LEMMA CloseBeginInv ==
    ASSUME PoolInv, CloseBegin
    PROVE  PoolInv'
<1>1. TypePool /\ TypeConn /\ QueuesOK /\ created \in Int
  BY TypeGroups, Queues DEF PoolInv
<1>2. /\ UNCHANGED <<created, hot, hotClosed, connVars, callerVars, warmVars>>
      /\ closed' = TRUE /\ kset' = conns \cup Range(cold) /\ conns' = {}
      /\ kpc' = "conns" /\ kpc = "idle" /\ cold' = <<>>
  BY DEF CloseBegin
<1>3. cold' \in Seq(Conns) /\ IsInjective(cold') /\ Range(cold') = {}
  BY <1>2 DEF IsInjective, Range
<1>4. QueuesOK' /\ Pooled' \subseteq Pooled /\ Range(cold) \subseteq Pooled
  BY <1>1, <1>2, <1>3 DEF QueuesOK, Pooled
<1>5. TypePool'
  BY <1>1, <1>2 DEF TypePool, QueuesOK
<1>6. TypeConn'
  BY <1>1, <1>2, TypesKept
<1>7. ~hotClosed /\ created <= Size + PrewarmCount - wleft
      /\ \A c \in Conns : status[c] = "closed" => c \notin open
  BY <1>2 DEF PoolInv, StageInv, StatusInv, CreatedInv
<1> QED BY <1>1, <1>2, <1>4, <1>5, <1>6, <1>7, ClosingInv

(* Close closes the connections it took, closes the channel and drains it.  *)
LEMMA CloseStepInv ==
    ASSUME PoolInv, CloseStep
    PROVE  PoolInv'
<1>1. /\ TypePool /\ TypeConn /\ TypeWarm /\ QueuesOK /\ created \in Int
      /\ created <= Size + PrewarmCount - wleft
      /\ \A c \in Conns : status[c] = "closed" => c \notin open
      /\ kpc = "conns" => ~hotClosed
  BY TypeGroups, Queues DEF PoolInv, StatusInv, CreatedInv, StageInv
<1>2. kpc \in {"conns", "drain"} /\ closed = TRUE /\ closed' = closed
      /\ UNCHANGED <<cold, conns, callerVars, warmVars>>
  BY <1>1 DEF CloseStep, CloseOne, CloseHot, DrainHot, PoolInv, StageInv, TypePool
<1>3. CASE CloseOne
  <2>1. PICK c \in kset : CloseConn(c) /\ kset' = kset \ {c}
    BY <1>3, Zenon DEF CloseOne
  <2>2. c \in Conns /\ UNCHANGED <<created, hot, hotClosed, kpc>>
    BY <1>1, <1>3 DEF CloseOne, TypePool
  <2>3. /\ open' = open \ {c} /\ TypeConn' /\ status'[c] = "closed"
        /\ \A d \in Conns : d # c => status'[d] = status[d]
    BY <2>1, <2>2, CloseFacts, Zenon
  <2>4. TypePool' /\ QueuesOK' /\ Pooled' = Pooled
    BY <1>1, <1>2, <2>1, <2>2, QueuesKept DEF TypePool
  <2> QED BY <1>1, <1>2, <2>1, <2>2, <2>3, <2>4, ClosingInv
<1>4. CASE CloseHot
  <2>1. kpc' = "drain" /\ hotClosed' = TRUE /\ UNCHANGED <<created, hot, connVars, kset>>
    BY <1>4 DEF CloseHot
  <2>2. TypePool' /\ TypeConn' /\ QueuesOK' /\ Pooled' = Pooled
    BY <1>1, <1>2, <2>1, QueuesKept, TypesKept DEF TypePool
  <2> QED BY <1>1, <1>2, <2>1, <2>2, ClosingInv
<1>5. CASE DrainHot
  <2>1. kpc = "drain" /\ UNCHANGED <<hotClosed, kset>>
    BY <1>5 DEF DrainHot
  <2>2. CASE hot # <<>> /\ CloseConn(Head(hot)) /\ hot' = Tail(hot) /\ UNCHANGED <<created, kpc>>
    <3>1. PICK c \in Conns : c = Head(hot) /\ Pooled' = Pooled \ {c} /\ QueuesOK'
      BY <1>1, <1>2, <2>2, HotReceived
    <3>2. /\ open' = open \ {c} /\ TypeConn' /\ status'[c] = "closed"
          /\ \A d \in Conns : d # c => status'[d] = status[d]
      BY <2>2, <3>1, CloseFacts, Zenon
    <3>3. TypePool'
      BY <1>1, <1>2, <2>1, <2>2, TypesKept
    <3> QED BY <1>1, <1>2, <2>1, <2>2, <3>1, <3>2, <3>3, ClosingInv
  <2>3. CASE created' = 0 /\ kpc' = "done" /\ UNCHANGED <<hot, connVars>>
    <3>1. TypePool' /\ TypeConn' /\ QueuesOK' /\ Pooled' = Pooled
      BY <1>1, <1>2, <2>1, <2>3, QueuesKept, TypesKept DEF TypePool
    <3>2. 0 <= Size + PrewarmCount - wleft
      BY <1>1 DEF TypeWarm
    <3> QED BY <1>1, <1>2, <2>1, <2>3, <3>1, <3>2, ClosingInv
  <2> QED BY <1>5, <2>2, <2>3 DEF DrainHot
<1> QED BY <1>3, <1>4, <1>5 DEF CloseStep

-----------------------------------------------------------------------------
(* The invariant is inductive.                                              *)

(* One step per action of Next.                                             *)
LEMMA InvNext == PoolInv /\ [Next]_vars => PoolInv'
<1> SUFFICES ASSUME PoolInv, [Next]_vars
             PROVE  PoolInv'
  OBVIOUS
<1>1. ASSUME NEW k \in Callers, Enter(k) \/ GetStep(k) \/ UseStep(k) \/ PutStep(k)
      PROVE  PoolInv'
  BY <1>1, EnterInv, TryHotInv, TryColdInv, CreateInv, WaitHotInv, VerifyInv,
     MarkInUseInv, EndUseInv, SendFailedInv, HeartbeatFailedInv, PutCheckInv,
     MarkIdleInv, SendHotInv, StoreColdInv, Zenon DEF GetStep, UseStep, PutStep
<1>2. CASE Warm
  BY <1>2, WarmDialInv, WarmAddInv DEF Warm
<1>3. CASE CloseBegin \/ CloseStep
  BY <1>3, CloseBeginInv, CloseStepInv
<1>4. CASE UNCHANGED vars
  <2>1. Held' = Held /\ Warming' = Warming /\ Pooled' = Pooled
    BY <1>4 DEF vars, Held, Warming, Pooled
  <2>2. TypeOK' /\ StageInv' /\ CreatedInv'
    BY <1>4 DEF vars, PoolInv, TypeOK, StageInv, CreatedInv
  <2>3. StatusInv' /\ NoLeakWhileOpen'
    BY <1>4, <2>1 DEF vars, PoolInv, StatusInv, NoLeakWhileOpen
  <2>4. ExclusiveOwnership'
    BY <1>4, <2>1 DEF vars, PoolInv, ExclusiveOwnership
  <2>5. LiveInv'
    BY <1>4, <2>1 DEF vars, PoolInv, LiveInv
  <2> QED BY <2>2, <2>3, <2>4, <2>5 DEF PoolInv
<1>5. QED
  BY <1>1, <1>2, <1>3, <1>4 DEF Next

(* PoolInv holds in every state of every execution of the pool.             *)
THEOREM Invariance == Spec => []PoolInv
  BY InvInit, InvNext, PTL DEF Spec

(* Variables keep their types, and the hot queue never outgrows its         *)
(* channel's capacity.                                                      *)
THEOREM TypeCorrect == Spec => []TypeOK
<1>1. PoolInv => TypeOK
  BY DEF PoolInv
<1>2. QED
  BY <1>1, Invariance, PTL

(* No connection is ever in two places or with two callers, whatever        *)
(* interleaving of get, put, warm-up and Close.                             *)
THEOREM Exclusive == Spec => []ExclusiveOwnership
<1>1. PoolInv => ExclusiveOwnership
  BY DEF PoolInv
<1>2. QED
  BY <1>1, Invariance, PTL

(* The count of connections exceeds size by at most the warm-up's.          *)
THEOREM Bounded == Spec => []BoundedCreation
<1>1. PoolInv => BoundedCreation
  BY DEF PoolInv, TypeOK, CreatedInv, BoundedCreation
<1>2. QED
  BY <1>1, Invariance, PTL

(* Until Close, an open socket is queued or with a goroutine.               *)
THEOREM NoLeak == Spec => []NoLeakWhileOpen
<1>1. PoolInv => NoLeakWhileOpen
  BY DEF PoolInv
<1>2. QED
  BY <1>1, Invariance, PTL

(* Until Close, the connection a caller works with is open and in use.      *)
THEOREM Live == Spec => []HandedOutIsLive
<1>1. PoolInv => HandedOutIsLive
  BY DEF PoolInv, TypeOK, StageInv, HoldStages, LiveInv, HandedOutIsLive
<1>2. QED
  BY <1>1, Invariance, PTL

-----------------------------------------------------------------------------
(* The pool implements the lease.                                           *)

(* What the lease sees of the pool: the connections the pool knows of, and  *)
(* who works with one.                                                      *)
Known == Pooled \cup Held \cup Warming
Works(k, c) == pc[k] \in HoldStages /\ cc[k] = c
Unborn(c) == status[c] = "unborn"

(* The lease before and after a step, by what it sees.                      *)
LEMMA LeaseSees ==
    /\ \A k \in Callers :
          /\ LeaseHolder[k] = IF pc[k] \in HoldStages THEN cc[k] ELSE NoConn
          /\ LeaseHolder'[k] = IF pc'[k] \in HoldStages THEN cc'[k] ELSE NoConn
    /\ \A c \in Conns :
          /\ LeaseWhere[c] = IF Unborn(c) THEN "unborn"
                             ELSE IF \E k \in Callers : Works(k, c) THEN "held"
                             ELSE IF c \in Known THEN "pool" ELSE "gone"
          /\ LeaseWhere'[c] = IF Unborn(c)' THEN "unborn"
                              ELSE IF \E k \in Callers : Works(k, c)' THEN "held"
                              ELSE IF c \in Known' THEN "pool" ELSE "gone"
<1>1. \A k \in Callers :
          /\ LeaseHolder[k] = IF pc[k] \in HoldStages THEN cc[k] ELSE NoConn
          /\ LeaseHolder'[k] = IF pc'[k] \in HoldStages THEN cc'[k] ELSE NoConn
  BY DEF LeaseHolder
<1>2. \A c \in Conns, k \in Callers :
         /\ LeaseHolder[k] = c <=> Works(k, c)
         /\ LeaseHolder'[k] = c <=> Works(k, c)'
  BY <1>1 DEF Works
<1>3. ASSUME NEW c \in Conns
      PROVE  LeaseWhere[c] = IF Unborn(c) THEN "unborn"
                             ELSE IF \E k \in Callers : Works(k, c) THEN "held"
                             ELSE IF c \in Known THEN "pool" ELSE "gone"
  <2>1. (\E k \in Callers : LeaseHolder[k] = c) <=> (\E k \in Callers : Works(k, c))
    BY <1>2
  <2> QED BY <2>1 DEF LeaseWhere, Known, Unborn
<1>4. ASSUME NEW c \in Conns
      PROVE  LeaseWhere'[c] = IF Unborn(c)' THEN "unborn"
                              ELSE IF \E k \in Callers : Works(k, c)' THEN "held"
                              ELSE IF c \in Known' THEN "pool" ELSE "gone"
  <2>1. (\E k \in Callers : LeaseHolder'[k] = c) <=> (\E k \in Callers : Works(k, c)')
    BY <1>2
  <2> QED BY <2>1 DEF LeaseWhere, Known, Unborn
<1> QED BY <1>1, <1>3, <1>4

(* Functions with the lease's domains that agree are equal.                 *)
LEMMA LeaseEqual ==
    /\ (\A k \in Callers : LeaseHolder'[k] = LeaseHolder[k]) => LeaseHolder' = LeaseHolder
    /\ \A x : \A k \in Callers :
          LeaseHolder'[k] = x /\ (\A l \in Callers : l # k => LeaseHolder'[l] = LeaseHolder[l])
          => LeaseHolder' = [LeaseHolder EXCEPT ![k] = x]
    /\ (\A c \in Conns : LeaseWhere'[c] = LeaseWhere[c]) => LeaseWhere' = LeaseWhere
    /\ \A w : \A c \in Conns :
          LeaseWhere'[c] = w /\ (\A d \in Conns : d # c => LeaseWhere'[d] = LeaseWhere[d])
          => LeaseWhere' = [LeaseWhere EXCEPT ![c] = w]
    /\ \A S \in SUBSET Conns :
          (\A d \in Conns : LeaseWhere'[d] = IF d \in S THEN "gone" ELSE LeaseWhere[d])
          => LeaseWhere' = [d \in Conns |-> IF d \in S THEN "gone" ELSE LeaseWhere[d]]
<1>1. LeaseHolder = [k \in Callers |-> LeaseHolder[k]] /\ LeaseHolder' = [k \in Callers |-> LeaseHolder'[k]]
  BY DEF LeaseHolder
<1>2. LeaseWhere = [c \in Conns |-> LeaseWhere[c]] /\ LeaseWhere' = [c \in Conns |-> LeaseWhere'[c]]
  BY DEF LeaseWhere
<1> QED BY <1>1, <1>2

(* A caller in the stages of get before mark, or outside, works with none;  *)
(* the others have theirs to themselves.                                    *)
LEMMA WorksFacts ==
    ASSUME PoolInv
    PROVE  /\ \A k \in Callers : pc[k] \in HoldStages => cc[k] \in Conns /\ cc[k] \in Held
           /\ \A k, l \in Callers : cc[k] = cc[l] /\ cc[k] # NoConn => k = l
           /\ \A c \in Known : c \in Conns => ~Unborn(c)
  BY DEF PoolInv, StageInv, ExclusiveOwnership, StatusInv, Held, Known, Unborn

(* The step of l leaves what the lease sees of it alone.                    *)
Same(l) == /\ pc'[l] \in HoldStages <=> pc[l] \in HoldStages
           /\ pc[l] \in HoldStages => cc'[l] = cc[l]

(* A step the lease does not see.                                           *)
LEMMA LeaseKept ==
    ASSUME \A l \in Callers : Same(l), Known' = Known,
           \A c \in Conns : Unborn(c)' <=> Unborn(c)
    PROVE  UNCHANGED <<LeaseWhere, LeaseHolder>>
<1>1. \A l \in Callers : LeaseHolder'[l] = LeaseHolder[l]
  BY LeaseSees DEF Same
<1>2. \A c \in Conns : (\E k \in Callers : Works(k, c)') <=> (\E k \in Callers : Works(k, c))
  BY DEF Works, Same
<1>3. \A c \in Conns : LeaseWhere'[c] = LeaseWhere[c]
  BY <1>2, LeaseSees
<1> QED BY <1>1, <1>3, LeaseEqual

(* The warm-up dials.                                                       *)
LEMMA LeaseDials ==
    ASSUME PoolInv, NEW c \in Conns, \A l \in Callers : Same(l),
           Known' = Known \cup {c}, Unborn(c), ~Unborn(c)',
           \A d \in Conns : d # c => (Unborn(d)' <=> Unborn(d))
    PROVE  Lease!Dial(c)
<1>1. \A l \in Callers : LeaseHolder'[l] = LeaseHolder[l]
  BY LeaseSees DEF Same
<1>2. \A d \in Conns : (\E k \in Callers : Works(k, d)') <=> (\E k \in Callers : Works(k, d))
  BY DEF Works, Same
<1>3. ~ \E k \in Callers : Works(k, c)
  BY WorksFacts DEF Works, Known
<1>4. LeaseWhere[c] = "unborn" /\ LeaseWhere'[c] = "pool"
  BY <1>2, <1>3, LeaseSees
<1>5. \A d \in Conns : d # c => LeaseWhere'[d] = LeaseWhere[d]
  BY <1>2, LeaseSees
<1> QED BY <1>1, <1>4, <1>5, LeaseEqual DEF Lease!Dial

(* The pool gives up connections nobody works with.                         *)
LEMMA LeaseDrops ==
    ASSUME PoolInv, NEW S \in SUBSET Conns, \A l \in Callers : Same(l),
           S \subseteq Known, Known' = Known \ S,
           \A c \in S, k \in Callers : ~Works(k, c),
           \A c \in Conns : Unborn(c)' <=> Unborn(c)
    PROVE  Lease!Drop(S)
<1>1. \A l \in Callers : LeaseHolder'[l] = LeaseHolder[l]
  BY LeaseSees DEF Same
<1>2. \A d \in Conns : (\E k \in Callers : Works(k, d)') <=> (\E k \in Callers : Works(k, d))
  BY DEF Works, Same
<1>3. \A c \in S : LeaseWhere[c] = "pool" /\ LeaseWhere'[c] = "gone"
  BY <1>2, LeaseSees, WorksFacts
<1>4. \A d \in Conns : LeaseWhere'[d] = IF d \in S THEN "gone" ELSE LeaseWhere[d]
  BY <1>2, <1>3, LeaseSees
<1> QED BY <1>1, <1>3, <1>4, LeaseEqual DEF Lease!Drop

(* A caller begins to work with a connection.                               *)
LEMMA LeaseBegins ==
    ASSUME PoolInv, NEW k \in Callers, NEW c \in Conns,
           \A l \in Callers : l # k => Same(l) /\ ~Works(l, c),
           pc[k] \notin HoldStages, pc'[k] \in HoldStages, cc'[k] = c,
           Known' = Known \cup {c}, ~Unborn(c)', Unborn(c) \/ c \in Known,
           \A d \in Conns : d # c => (Unborn(d)' <=> Unborn(d))
    PROVE  Lease!Lease(k, c)
<1>1. LeaseHolder[k] = NoConn /\ LeaseHolder'[k] = c
  BY LeaseSees
<1>2. \A l \in Callers : l # k => LeaseHolder'[l] = LeaseHolder[l]
  BY LeaseSees DEF Same
<1>3. \A d \in Conns : d # c =>
         ((\E l \in Callers : Works(l, d)') <=> (\E l \in Callers : Works(l, d)))
  BY DEF Works, Same
<1>4. Works(k, c)' /\ ~ \E l \in Callers : Works(l, c)
  BY DEF Works
<1>5. LeaseWhere[c] \in {"unborn", "pool"} /\ LeaseWhere'[c] = "held"
  BY <1>4, LeaseSees
<1>6. \A d \in Conns : d # c => LeaseWhere'[d] = LeaseWhere[d]
  BY <1>3, LeaseSees
<1> QED BY <1>1, <1>2, <1>5, <1>6, LeaseEqual DEF Lease!Lease

(* A caller's work with a connection ends: it is back in the pool, or gone. *)
LEMMA LeaseEnds ==
    ASSUME PoolInv, NEW k \in Callers, NEW c \in Conns,
           \A l \in Callers : l # k => Same(l),
           pc[k] \in HoldStages, pc'[k] \notin HoldStages, cc[k] = c,
           Known' = Known \/ Known' = Known \ {c},
           \A d \in Conns : Unborn(d)' <=> Unborn(d)
    PROVE  Lease!Return(k) \/ Lease!Discard(k)
<1>1. LeaseHolder[k] = c /\ LeaseHolder'[k] = NoConn
  BY LeaseSees
<1>2. \A l \in Callers : l # k => LeaseHolder'[l] = LeaseHolder[l]
  BY LeaseSees DEF Same
<1>3. \A d \in Conns : d # c =>
         ((\E l \in Callers : Works(l, d)') <=> (\E l \in Callers : Works(l, d)))
  BY DEF Works, Same
<1>4. ~ \E l \in Callers : Works(l, c)'
  BY WorksFacts DEF Works, Same
<1>5. c \in Known /\ ~Unborn(c)
  BY WorksFacts DEF Known
<1>6. LeaseWhere'[c] = IF Known' = Known THEN "pool" ELSE "gone"
  BY <1>4, <1>5, LeaseSees
<1>7. \A d \in Conns : d # c => LeaseWhere'[d] = LeaseWhere[d]
  BY <1>3, LeaseSees
<1>8. LeaseHolder' = [LeaseHolder EXCEPT ![k] = NoConn]
  BY <1>1, <1>2, LeaseEqual
<1>9. CASE Known' = Known
  <2>1. LeaseWhere' = [LeaseWhere EXCEPT ![LeaseHolder[k]] = "pool"]
    BY <1>1, <1>6, <1>7, <1>9, LeaseEqual
  <2> QED BY <1>1, <1>8, <2>1 DEF Lease!Return
<1>10. CASE Known' # Known
  <2>1. LeaseWhere' = [LeaseWhere EXCEPT ![LeaseHolder[k]] = "gone"]
    BY <1>1, <1>6, <1>7, <1>10, LeaseEqual
  <2> QED BY <1>1, <1>8, <2>1 DEF Lease!Discard
<1> QED BY <1>9, <1>10

(* How a step moves connections between the queues and the callers.         *)
LEMMA QueueMoves ==
    ASSUME PoolInv
    PROVE  /\ hot # <<>> /\ hot' = Tail(hot) /\ cold' = cold =>
                 /\ Head(hot) \in Conns /\ Head(hot) \in Pooled
                 /\ Pooled' = Pooled \ {Head(hot)}
           /\ cold # <<>> /\ cold' = ColdPopped /\ hot' = hot =>
                 /\ cold[Len(cold)] \in Conns /\ cold[Len(cold)] \in Pooled
                 /\ Pooled' = Pooled \ {cold[Len(cold)]}
           /\ \A c \in Conns :
                 /\ hot' = Append(hot, c) /\ cold' = cold => Pooled' = Pooled \cup {c}
                 /\ hot' = hot /\ cold' = Append(cold, c) => Pooled' = Pooled \cup {c}
           /\ hot' = hot /\ cold' = cold => Pooled' = Pooled
<1>1. QueuesOK
  BY Queues
<1>2. ASSUME hot # <<>>, hot' = Tail(hot), cold' = cold
      PROVE  /\ Head(hot) \in Conns /\ Head(hot) \in Pooled
             /\ Pooled' = Pooled \ {Head(hot)}
  <2>1. /\ Head(hot) \in Conns /\ Head(hot) \in Range(hot)
        /\ Range(hot') = Range(hot) \ {Head(hot)}
    BY <1>1, <1>2, TailFacts DEF QueuesOK
  <2> HIDE <1>2
  <2>2. cold' = cold
    BY <1>2
  <2> QED BY <1>1, <2>1, <2>2 DEF QueuesOK, Pooled
<1>3. ASSUME cold # <<>>, cold' = ColdPopped, hot' = hot
      PROVE  /\ cold[Len(cold)] \in Conns /\ cold[Len(cold)] \in Pooled
             /\ Pooled' = Pooled \ {cold[Len(cold)]}
  <2>1. cold \in Seq(Conns) /\ IsInjective(cold) /\ cold' = SubSeq(cold, 1, Len(cold) - 1)
    BY <1>1, <1>3 DEF QueuesOK, ColdPopped
  <2>2. /\ cold[Len(cold)] \in Conns /\ cold[Len(cold)] \in Range(cold)
        /\ Range(cold') = Range(cold) \ {cold[Len(cold)]}
    BY <1>3, <2>1, PopFacts, Zenon
  <2>3. hot' = hot
    BY <1>3
  <2> HIDE <1>3
  <2> QED BY <1>1, <2>2, <2>3 DEF QueuesOK, Pooled
<1>4. ASSUME NEW c \in Conns
      PROVE  /\ hot' = Append(hot, c) /\ cold' = cold => Pooled' = Pooled \cup {c}
             /\ hot' = hot /\ cold' = Append(cold, c) => Pooled' = Pooled \cup {c}
  <2>1. /\ Range(Append(hot, c)) = Range(hot) \cup {c}
        /\ Range(Append(cold, c)) = Range(cold) \cup {c}
    BY <1>1, AppendFacts DEF QueuesOK
  <2> QED BY <2>1, Zenon DEF Pooled
<1>5. hot' = hot /\ cold' = cold => Pooled' = Pooled
  BY DEF Pooled
<1> QED BY <1>2, <1>3, <1>4, <1>5

LeaseStep == [Lease!Next]_<<LeaseWhere, LeaseHolder>>

(* The stages of get, up to the connection being marked.                    *)
LEMMA LeaseGet ==
    ASSUME PoolInv, NEW k \in Callers,
           Enter(k) \/ TryHot(k) \/ TryCold(k) \/ WaitHot(k)
    PROVE  LeaseStep
<1>1. /\ status' = status /\ wcc' = wcc /\ pc[k] \notin HoldStages /\ pc'[k] \notin HoldStages
      /\ \A l \in Callers : l # k => pc'[l] = pc[l] /\ cc'[l] = cc[l]
  BY AfterFacts DEF Enter, TryHot, TryCold, WaitHot, PoolInv, TypeOK, HoldStages
<1>2. \A l \in Callers : Same(l)
  BY <1>1, Zenon DEF Same
<1>3. \A c \in Conns : Unborn(c)' <=> Unborn(c)
  BY <1>1 DEF Unborn
<1>4. Known' = Known
  <2>1. Warming' = Warming
    BY <1>1, Zenon DEF Warming
  <2>2. CASE UNCHANGED <<hot, cold, cc>>
    BY <2>1, <2>2, HeldMoves, QueueMoves DEF Known
  <2>3. CASE hot # <<>> /\ Take(k, Head(hot)) /\ hot' = Tail(hot) /\ cold' = cold /\ cc[k] = NoConn
    <3>1. PICK c \in Conns : c = Head(hot) /\ c \in Pooled /\ Pooled' = Pooled \ {c}
      BY <2>3, QueueMoves
    <3>2. Held' = Held \cup {c}
      BY <2>3, <3>1, HeldMoves, Zenon
    <3> QED BY <2>1, <3>1, <3>2 DEF Known
  <2>4. CASE /\ cold # <<>> /\ Take(k, cold[Len(cold)]) /\ cold' = ColdPopped /\ hot' = hot
             /\ cc[k] = NoConn
    <3>1. PICK c \in Conns : c = cold[Len(cold)] /\ c \in Pooled /\ Pooled' = Pooled \ {c}
      BY <2>4, QueueMoves
    <3>2. Held' = Held \cup {c}
      BY <2>4, <3>1, HeldMoves, Zenon
    <3> QED BY <2>1, <3>1, <3>2 DEF Known
  <2> QED BY <2>2, <2>3, <2>4 DEF Enter, TryHot, TryCold, WaitHot
<1> QED BY <1>2, <1>3, <1>4, LeaseKept DEF LeaseStep

(* The stages that change only the stage or the status.                     *)
LEMMA LeaseMarks ==
    ASSUME PoolInv, NEW k \in Callers,
           MarkInUse(k) \/ EndUse(k) \/ HeartbeatFailed(k) \/ MarkIdle(k)
    PROVE  LeaseStep
<1>1. /\ UNCHANGED <<hot, cold, wcc, cc>> /\ pc[k] \in HoldStages /\ pc'[k] \in HoldStages
      /\ \A l \in Callers : l # k => pc'[l] = pc[l]
      /\ status' = status \/ \E s \in {"inuse", "idle", "closed"} :
                                status' = [status EXCEPT ![cc[k]] = s]
  BY DEF MarkInUse, EndUse, HeartbeatFailed, MarkIdle, PoolInv, TypeOK, HoldStages
<1>2. \A l \in Callers : Same(l)
  BY <1>1 DEF Same
<1>3. cc[k] \in Conns /\ ~Unborn(cc[k])
  BY <1>1, WorksFacts DEF Known
<1>4. \A c \in Conns : Unborn(c)' <=> Unborn(c)
  BY <1>1, <1>3 DEF Unborn, PoolInv, TypeOK
<1>5. Known' = Known
  BY <1>1, HeldMoves, QueueMoves, Zenon DEF Known, Warming
<1> QED BY <1>2, <1>4, <1>5, LeaseKept DEF LeaseStep

(* get dials for the caller.                                                *)
LEMMA LeaseCreates ==
    ASSUME PoolInv, NEW k \in Callers, CreateNewConn(k)
    PROVE  LeaseStep
<1>1. /\ UNCHANGED <<hot, cold, wcc>> /\ pc[k] \notin HoldStages /\ cc[k] = NoConn
      /\ \A l \in Callers : l # k => pc'[l] = pc[l] /\ cc'[l] = cc[l]
  BY DEF CreateNewConn, PoolInv, TypeOK, StageInv, HoldStages
<1>2. \A l \in Callers : l # k => Same(l)
  BY <1>1 DEF Same
<1>3. Pooled' = Pooled /\ Warming' = Warming
  BY <1>1, QueueMoves DEF Warming
<1>4. ASSUME NEW c \in Conns, newClientConn(c), Take(k, c), Goto(k, "mark")
      PROVE  LeaseStep
  <2>1. pc'[k] \in HoldStages /\ cc'[k] = c
    BY <1>4 DEF PoolInv, TypeOK, HoldStages
  <2>2. Unborn(c) /\ ~Unborn(c)' /\ \A d \in Conns : d # c => (Unborn(d)' <=> Unborn(d))
    BY <1>4 DEF Unborn, PoolInv, TypeOK
  <2>3. \A l \in Callers : ~Works(l, c)
    BY <2>2, WorksFacts DEF Works, Known
  <2>4. Known' = Known \cup {c}
    BY <1>1, <1>3, <1>4, HeldMoves, Zenon DEF Known
  <2>5. Lease!Lease(k, c)
    BY <1>1, <1>2, <2>1, <2>2, <2>3, <2>4, LeaseBegins, Zenon
  <2> QED BY <2>5 DEF LeaseStep, Lease!Next
<1>5. CASE Goto(k, After[pc[k]]) /\ UNCHANGED <<status, cc>>
  <2>1. pc'[k] \notin HoldStages
    BY <1>5, AfterFacts DEF CreateNewConn, PoolInv, TypeOK, HoldStages
  <2>2. \A l \in Callers : Same(l)
    BY <1>1, <1>2, <2>1 DEF Same
  <2>3. Known' = Known /\ \A c \in Conns : Unborn(c)' <=> Unborn(c)
    BY <1>3, <1>5, HeldMoves DEF Known, Unborn
  <2> QED BY <2>2, <2>3, LeaseKept DEF LeaseStep
<1> QED BY <1>4, <1>5 DEF CreateNewConn

(* The check of a connection popped: it is leased, or dropped.              *)
LEMMA LeaseVerifies ==
    ASSUME PoolInv, NEW k \in Callers, Verify(k)
    PROVE  LeaseStep
<1>1. /\ UNCHANGED <<hot, cold, wcc>> /\ pc[k] \notin HoldStages /\ cc[k] \in Conns
      /\ \A l \in Callers : l # k => pc'[l] = pc[l] /\ cc'[l] = cc[l]
  BY DEF Verify, PoolInv, TypeOK, HoldStages
<1>2. \A l \in Callers : l # k => Same(l)
  BY <1>1 DEF Same
<1>3. Pooled' = Pooled /\ Warming' = Warming
  BY <1>1, QueueMoves DEF Warming
<1>4. PICK c \in Conns : c = cc[k]
  BY <1>1
<1>5. /\ c \in Held /\ c \in Known /\ ~Unborn(c) /\ c \notin Pooled /\ c \notin Warming
  <2>1. c \in Held /\ c \in Known
    BY <1>4 DEF Held, Known
  <2> QED BY <2>1, WorksFacts DEF PoolInv, ExclusiveOwnership
<1>6. \A l \in Callers : ~Works(l, c)
  BY <1>1, <1>4, WorksFacts DEF Works
<1>7. CASE Goto(k, "mark") /\ UNCHANGED <<status, cc>>
  <2>1. pc'[k] \in HoldStages /\ cc'[k] = c
    BY <1>4, <1>7 DEF PoolInv, TypeOK, HoldStages
  <2>2. \A d \in Conns : Unborn(d)' <=> Unborn(d)
    BY <1>7 DEF Unborn
  <2>3. Known' = Known \cup {c}
    BY <1>3, <1>5, <1>7, HeldMoves DEF Known
  <2>4. Lease!Lease(k, c)
    BY <1>1, <1>2, <1>5, <1>6, <2>1, <2>2, <2>3, LeaseBegins
  <2> QED BY <2>4 DEF LeaseStep, Lease!Next
<1>8. CASE releaseConn(cc[k]) /\ LetGo(k) /\ Goto(k, After[pc[k]])
  <2>1. pc'[k] \notin HoldStages
    BY <1>8, AfterFacts DEF Verify, PoolInv, TypeOK, HoldStages
  <2>2. \A l \in Callers : Same(l)
    BY <1>1, <1>2, <2>1 DEF Same
  <2>3. \A d \in Conns : Unborn(d)' <=> Unborn(d)
    BY <1>4, <1>5, <1>8 DEF Unborn, releaseConn, PoolInv, TypeOK
  <2>4. Held' = Held \ {c}
    BY <1>1, <1>4, <1>8, HeldMoves, Zenon
  <2>5. Known' = Known \ {c}
    BY <1>3, <1>5, <2>4 DEF Known
  <2>6. Lease!Drop({c})
    BY <1>5, <1>6, <2>2, <2>3, <2>5, LeaseDrops
  <2> QED BY <2>6 DEF LeaseStep, Lease!Next
<1> QED BY <1>7, <1>8 DEF Verify

(* A connection that is closed by its holder, or found closed in put.       *)
LEMMA LeaseGivenUp ==
    ASSUME PoolInv, NEW k \in Callers, pc[k] \in HoldStages, LetGo(k), Goto(k, "idle"),
           UNCHANGED <<hot, cold, wcc>>,
           status' = status \/ status' = [status EXCEPT ![cc[k]] = "closed"]
    PROVE  LeaseStep
<1>1. PICK c \in Conns : c = cc[k] /\ c \in Held /\ ~Unborn(c)
  BY WorksFacts DEF Known
<1>2. /\ pc'[k] \notin HoldStages
      /\ \A l \in Callers : l # k => pc'[l] = pc[l] /\ cc'[l] = cc[l]
  BY DEF PoolInv, TypeOK, HoldStages
<1>3. \A l \in Callers : l # k => Same(l)
  BY <1>2 DEF Same
<1>4. \A d \in Conns : Unborn(d)' <=> Unborn(d)
  BY <1>1 DEF Unborn, PoolInv, TypeOK
<1>5. Held' = Held \ {c} /\ Pooled' = Pooled /\ Warming' = Warming
  BY <1>1, HeldMoves, QueueMoves, Zenon DEF Warming
<1>6. c \notin Pooled /\ c \notin Warming
  BY <1>1 DEF PoolInv, ExclusiveOwnership
<1>7. Known' = Known \ {c}
  BY <1>5, <1>6 DEF Known
<1>8. Lease!Return(k) \/ Lease!Discard(k)
  BY <1>1, <1>2, <1>3, <1>4, <1>7, LeaseEnds
<1> QED BY <1>8 DEF LeaseStep, Lease!Next

(* A connection that is put into a queue.                                   *)
LEMMA LeaseReturned ==
    ASSUME PoolInv, NEW k \in Callers, pc[k] \in HoldStages, LetGo(k), Goto(k, "idle"),
           UNCHANGED <<status, wcc>>,
           \/ hot' = Append(hot, cc[k]) /\ cold' = cold
           \/ cold' = Append(cold, cc[k]) /\ hot' = hot
    PROVE  LeaseStep
<1>1. PICK c \in Conns : c = cc[k] /\ c \in Held /\ ~Unborn(c)
  BY WorksFacts DEF Known
<1>2. /\ pc'[k] \notin HoldStages
      /\ \A l \in Callers : l # k => pc'[l] = pc[l] /\ cc'[l] = cc[l]
  BY DEF PoolInv, TypeOK, HoldStages
<1>3. \A l \in Callers : l # k => Same(l)
  BY <1>2 DEF Same
<1>4. \A d \in Conns : Unborn(d)' <=> Unborn(d)
  BY DEF Unborn
<1>5. Held' = Held \ {c} /\ Pooled' = Pooled \cup {c} /\ Warming' = Warming
  BY <1>1, HeldMoves, QueueMoves, Zenon DEF Warming
<1>6. Known' = Known
  BY <1>1, <1>5 DEF Known
<1>7. Lease!Return(k) \/ Lease!Discard(k)
  BY <1>1, <1>2, <1>3, <1>4, <1>6, LeaseEnds
<1> QED BY <1>7 DEF LeaseStep, Lease!Next

(* The stages of put, and a failed send.                                    *)
LEMMA LeasePuts ==
    ASSUME PoolInv, NEW k \in Callers,
           SendFailed(k) \/ PutCheck(k) \/ SendHot(k) \/ StoreCold(k)
    PROVE  LeaseStep
<1>1. pc[k] \in HoldStages /\ wcc' = wcc
  BY DEF SendFailed, PutCheck, SendHot, StoreCold, HoldStages
<1>2. ASSUME NEW s \in HoldStages, Goto(k, s), UNCHANGED <<hot, cold, cc, status>>
      PROVE  LeaseStep
  <2>1. \A l \in Callers : Same(l)
    BY <1>1, <1>2 DEF Same, PoolInv, TypeOK
  <2>2. Known' = Known /\ \A c \in Conns : Unborn(c)' <=> Unborn(c)
    BY <1>1, <1>2, HeldMoves, QueueMoves DEF Known, Warming, Unborn
  <2> QED BY <2>1, <2>2, LeaseKept DEF LeaseStep
<1>3. CASE SendFailed(k)
  BY <1>1, <1>3, LeaseGivenUp, Zenon DEF SendFailed
<1>4. CASE PutCheck(k)
  <2>1. "idling" \in HoldStages
    BY DEF HoldStages
  <2> QED BY <1>1, <1>2, <1>4, <2>1, LeaseGivenUp DEF PutCheck
<1>5. CASE SendHot(k)
  <2>1. "panic" \in HoldStages /\ "store" \in HoldStages
    BY DEF HoldStages
  <2> QED BY <1>1, <1>2, <1>5, <2>1, LeaseReturned DEF SendHot
<1>6. CASE StoreCold(k)
  BY <1>1, <1>6, LeaseGivenUp, LeaseReturned, Zenon DEF StoreCold, releaseConn
<1> QED BY <1>3, <1>4, <1>5, <1>6

(* The warm-up dials ahead, and queues what it dialled.                     *)
LEMMA LeaseWarms ==
    ASSUME PoolInv, Warm
    PROVE  LeaseStep
<1>1. UNCHANGED <<hot, pc, cc>>
  BY DEF Warm, WarmDial, WarmAdd
<1>2. \A l \in Callers : Same(l)
  BY <1>1 DEF Same
<1>3. Held' = Held
  BY <1>1 DEF Held
<1>4. CASE WarmDial
  <2>1. Pooled' = Pooled
    BY <1>1, <1>4, QueueMoves DEF WarmDial
  <2>2. CASE UNCHANGED <<status, wcc>>
    <3>1. Known' = Known /\ \A c \in Conns : Unborn(c)' <=> Unborn(c)
      BY <1>3, <2>1, <2>2 DEF Known, Warming, Unborn
    <3> QED BY <1>2, <3>1, LeaseKept DEF LeaseStep
  <2>3. ASSUME NEW c \in Conns, newClientConn(c), wcc' = c
        PROVE  LeaseStep
    <3>1. Warming = {} /\ Warming' = {c}
      BY <1>4, <2>3 DEF WarmDial, PoolInv, StageInv, Warming
    <3>2. Known' = Known \cup {c}
      BY <1>3, <2>1, <3>1 DEF Known
    <3>3. Unborn(c) /\ ~Unborn(c)' /\ \A d \in Conns : d # c => (Unborn(d)' <=> Unborn(d))
      BY <2>3 DEF Unborn, PoolInv, TypeOK
    <3>4. Lease!Dial(c)
      BY <1>2, <3>2, <3>3, LeaseDials
    <3> QED BY <3>4 DEF LeaseStep, Lease!Next
  <2> QED BY <1>4, <2>2, <2>3 DEF WarmDial
<1>5. CASE WarmAdd
  <2>1. wcc \in Conns /\ Warming = {wcc} /\ Warming' = {}
    BY <1>5 DEF WarmAdd, PoolInv, TypeOK, StageInv, Warming
  <2>2. Pooled' = Pooled \cup {wcc}
    BY <1>1, <1>5, <2>1, QueueMoves DEF WarmAdd
  <2>3. Known' = Known
    BY <1>3, <2>1, <2>2 DEF Known
  <2>4. \A c \in Conns : Unborn(c)' <=> Unborn(c)
    BY <1>5 DEF WarmAdd, Unborn
  <2> QED BY <1>2, <2>3, <2>4, LeaseKept DEF LeaseStep
<1> QED BY <1>4, <1>5 DEF Warm

(* Close drops the cold queue at once, the hot queue one by one, and closes *)
(* under their holders the connections that are held.                       *)
LEMMA LeaseCloses ==
    ASSUME PoolInv, CloseBegin \/ CloseStep
    PROVE  LeaseStep
<1>1. UNCHANGED <<pc, cc, wcc>>
  BY DEF CloseBegin, CloseStep, CloseOne, CloseHot, DrainHot
<1>2. \A l \in Callers : Same(l)
  BY <1>1 DEF Same
<1>3. Held' = Held /\ Warming' = Warming
  BY <1>1 DEF Held, Warming
<1>4. QueuesOK
  BY Queues
<1>5. \A c \in Pooled, k \in Callers : ~Works(k, c)
  BY WorksFacts, Zenon DEF Works, PoolInv, ExclusiveOwnership
<1>6. CASE CloseBegin
  <2>1. Range(cold') = {}
    BY <1>6, EmptyQueue DEF CloseBegin
  <2>2. Pooled' = Range(hot)
    BY <1>6, <2>1 DEF CloseBegin, Pooled
  <2>3. /\ Range(cold) \subseteq Pooled /\ Range(cold) \subseteq Conns
        /\ Known' = Known \ Range(cold)
    BY <1>3, <1>4, <2>2 DEF QueuesOK, Known, Pooled, PoolInv, ExclusiveOwnership
  <2>4. \A c \in Conns : Unborn(c)' <=> Unborn(c)
    BY <1>6 DEF CloseBegin, Unborn
  <2>5. Lease!Drop(Range(cold))
    BY <1>2, <1>5, <2>3, <2>4, LeaseDrops DEF Known
  <2> QED BY <2>3, <2>5 DEF LeaseStep, Lease!Next
<1>7. CASE CloseOne
  <2>1. PICK c \in kset : CloseConn(c)
    BY <1>7, Zenon DEF CloseOne
  <2>2. \A d \in Conns : Unborn(d)' <=> Unborn(d)
    BY <2>1 DEF Unborn, PoolInv, TypeOK, StatusInv
  <2>3. Known' = Known
    BY <1>3, <1>7, QueueMoves DEF CloseOne, Known
  <2> QED BY <1>2, <2>2, <2>3, LeaseKept DEF LeaseStep
<1>8. CASE UNCHANGED <<hot, cold, status>>
  <2>1. Known' = Known /\ \A d \in Conns : Unborn(d)' <=> Unborn(d)
    BY <1>3, <1>8, QueueMoves DEF Known, Unborn
  <2> QED BY <1>2, <2>1, LeaseKept DEF LeaseStep
<1>9. CASE CloseHot
  BY <1>8, <1>9 DEF CloseHot
<1>10. CASE DrainHot
  <2>1. CASE hot # <<>> /\ CloseConn(Head(hot)) /\ hot' = Tail(hot) /\ cold' = cold
    <3>1. PICK c \in Conns : c = Head(hot) /\ c \in Pooled /\ Pooled' = Pooled \ {c}
      BY <2>1, QueueMoves
    <3>2. ~Unborn(c) /\ c \notin Held /\ c \notin Warming
      BY <3>1, WorksFacts DEF Known, PoolInv, ExclusiveOwnership
    <3>3. \A d \in Conns : Unborn(d)' <=> Unborn(d)
      BY <2>1, <3>1, <3>2 DEF Unborn, PoolInv, TypeOK
    <3>4. Known' = Known \ {c} /\ c \in Known
      BY <1>3, <3>1, <3>2 DEF Known
    <3>5. Lease!Drop({c})
      BY <1>2, <1>5, <3>1, <3>3, <3>4, LeaseDrops
    <3> QED BY <3>5 DEF LeaseStep, Lease!Next
  <2>2. CASE UNCHANGED <<hot, cold, status>>
    BY <1>8, <2>2
  <2> QED BY <1>10, <2>1, <2>2 DEF DrainHot
<1> QED BY <1>6, <1>7, <1>9, <1>10 DEF CloseStep

(* Every step of the pool is a step of the lease, or unseen by it.          *)
LEMMA LeaseNext ==
    ASSUME PoolInv, [Next]_vars
    PROVE  LeaseStep
<1>1. ASSUME NEW k \in Callers, Enter(k) \/ GetStep(k) \/ UseStep(k) \/ PutStep(k)
      PROVE  LeaseStep
  BY <1>1, LeaseGet, LeaseMarks, LeaseCreates, LeaseVerifies, LeasePuts
     DEF GetStep, UseStep, PutStep
<1>2. CASE UNCHANGED vars
  <2>1. /\ \A l \in Callers : Same(l)
        /\ Known' = Known /\ \A d \in Conns : Unborn(d)' <=> Unborn(d)
    BY <1>2 DEF vars, Same, Known, Unborn, Pooled, Held, Warming
  <2> QED BY <2>1, LeaseKept DEF LeaseStep
<1> QED BY <1>1, <1>2, LeaseWarms, LeaseCloses DEF Next

(* The pool implements the lease its callers rely on: a connection has one  *)
(* holder at a time, passes between holders only through the pool, and is   *)
(* never handed out again once it is gone.                                  *)
THEOREM PoolImplementsLease == Spec => ImplementsLease
<1>1. Init => Lease!Init
  <2> SUFFICES ASSUME Init PROVE Lease!Init
    OBVIOUS
  <2>1. LeaseHolder = [k \in Callers |-> NoConn]
    BY DEF Init, LeaseHolder, HoldStages
  <2>2. LeaseWhere = [c \in Conns |-> "unborn"]
    BY DEF Init, LeaseWhere
  <2> QED BY <2>1, <2>2 DEF Lease!Init
<1>2. PoolInv /\ [Next]_vars => [Lease!Next]_(Lease!leaseVars)
  BY LeaseNext DEF LeaseStep, Lease!leaseVars
<1> QED BY <1>1, <1>2, Invariance, PTL DEF Spec, ImplementsLease, Lease!Spec

-----------------------------------------------------------------------------
(* The open sockets and the count of them.                                  *)

INSTANCE FiniteSetTheorems

(* SocketsCounted, with what makes the cardinality meaningful.              *)
SocketInv ==
    ~closed => /\ IsFiniteSet(open \ Warming)
               /\ Cardinality(open \ Warming) <= created

(* A step that opens no socket the pool has to count, and frees no slot.    *)
LEMMA SocketsShrink ==
    ASSUME PoolInv, SocketInv, closed' = closed, created' = created,
           open' \ Warming' \subseteq open \ Warming
    PROVE  SocketInv'
<1> SUFFICES ASSUME ~closed
             PROVE  /\ IsFiniteSet(open' \ Warming')
                    /\ Cardinality(open' \ Warming') <= created
  BY DEF SocketInv
<1>1. /\ IsFiniteSet(open \ Warming) /\ Cardinality(open \ Warming) <= created
      /\ created \in Int
  BY DEF SocketInv, PoolInv, TypeOK
<1>2. /\ IsFiniteSet(open' \ Warming')
      /\ Cardinality(open' \ Warming') <= Cardinality(open \ Warming)
  BY <1>1, FS_Subset
<1>3. Cardinality(open' \ Warming') \in Nat /\ Cardinality(open \ Warming) \in Nat
  BY <1>1, <1>2, FS_CardinalityType
<1> QED BY <1>1, <1>2, <1>3

(* A step that opens one socket and takes one slot.                         *)
LEMMA SocketOpens ==
    ASSUME PoolInv, SocketInv, closed' = closed, created' = created + 1, NEW c,
           open' \ Warming' = (open \ Warming) \cup {c}
    PROVE  SocketInv'
<1> SUFFICES ASSUME ~closed
             PROVE  /\ IsFiniteSet(open' \ Warming')
                    /\ Cardinality(open' \ Warming') <= created + 1
  BY DEF SocketInv
<1>1. /\ IsFiniteSet(open \ Warming) /\ Cardinality(open \ Warming) <= created
      /\ created \in Int
  BY DEF SocketInv, PoolInv, TypeOK
<1>2. /\ IsFiniteSet(open' \ Warming')
      /\ \/ Cardinality(open' \ Warming') = Cardinality(open \ Warming)
         \/ Cardinality(open' \ Warming') = Cardinality(open \ Warming) + 1
  BY <1>1, FS_AddElement
<1>3. Cardinality(open \ Warming) \in Nat
  BY <1>1, FS_CardinalityType
<1> QED BY <1>1, <1>2, <1>3

(* A step that closes one socket and frees its slot.                        *)
LEMMA SocketCloses ==
    ASSUME PoolInv, SocketInv, closed' = closed, created' = created - 1, NEW c,
           ~closed => c \in open \ Warming,
           open' \ Warming' = (open \ Warming) \ {c}
    PROVE  SocketInv'
<1> SUFFICES ASSUME ~closed
             PROVE  /\ IsFiniteSet(open' \ Warming')
                    /\ Cardinality(open' \ Warming') <= created - 1
  BY DEF SocketInv
<1>1. /\ IsFiniteSet(open \ Warming) /\ Cardinality(open \ Warming) <= created
      /\ created \in Int
  BY DEF SocketInv, PoolInv, TypeOK
<1>2. /\ IsFiniteSet(open' \ Warming')
      /\ Cardinality(open' \ Warming') = Cardinality(open \ Warming) - 1
  BY <1>1, FS_RemoveElement
<1>3. Cardinality(open \ Warming) \in Nat
  BY <1>1, FS_CardinalityType
<1> QED BY <1>1, <1>2, <1>3

(* Every step keeps the count: a slot is freed only with a socket that was  *)
(* open, and a socket is opened only with a slot or by the warm-up.         *)
LEMMA SocketNext ==
    ASSUME PoolInv, SocketInv, [Next]_vars
    PROVE  SocketInv'
<1>1. CASE UNCHANGED <<closed, created, open, wcc>>
  <2>1. Warming' = Warming
    BY <1>1 DEF Warming
  <2> QED BY <1>1, <2>1, SocketsShrink
<1>2. ASSUME NEW k \in Callers, CreateNewConn(k)
      PROVE  SocketInv'
  <2>1. CASE UNCHANGED <<created, connVars>>
    BY <1>1, <1>2, <2>1 DEF CreateNewConn
  <2>2. ASSUME NEW c \in Conns, newClientConn(c), created' = created + 1
        PROVE  SocketInv'
    <3>1. closed' = closed /\ Warming' = Warming
      BY <1>2 DEF CreateNewConn, Warming
    <3>2. c \notin Warming
      BY <2>2 DEF PoolInv, StatusInv
    <3>3. open' \ Warming' = (open \ Warming) \cup {c}
      BY <2>2, <3>1, <3>2
    <3> QED BY <2>2, <3>1, <3>3, SocketOpens
  <2> QED BY <1>2, <2>1, <2>2 DEF CreateNewConn
<1>3. ASSUME NEW k \in Callers, Verify(k)
      PROVE  SocketInv'
  <2>1. CASE UNCHANGED <<created, connVars>>
    BY <1>1, <1>3, <2>1 DEF Verify
  <2>2. CASE releaseConn(cc[k])
    <3>1. PICK c \in Conns : c = cc[k]
      BY <1>3 DEF Verify, PoolInv, TypeOK
    <3>2. closed' = closed /\ Warming' = Warming
      BY <1>3 DEF Verify, Warming
    <3>3. c \in Held /\ c \notin Warming
      BY <3>1 DEF PoolInv, ExclusiveOwnership, Held
    <3>4. ~closed => c \in open
      BY <1>3, <3>1 DEF Verify, PoolInv, LiveInv
    <3>5. created' = created - 1 /\ open' = open \ {c}
      BY <2>2, <3>1 DEF releaseConn, PoolInv, StatusInv
    <3>6. open' \ Warming' = (open \ Warming) \ {c}
      BY <3>2, <3>5
    <3> QED BY <3>2, <3>3, <3>4, <3>5, <3>6, SocketCloses
  <2> QED BY <1>3, <2>1, <2>2 DEF Verify
<1>4. ASSUME NEW k \in Callers, SendFailed(k) \/ HeartbeatFailed(k)
      PROVE  SocketInv'
  <2>1. closed' = closed /\ created' = created /\ Warming' = Warming
    BY <1>4 DEF SendFailed, HeartbeatFailed, Warming
  <2>2. open' \subseteq open
    BY <1>4 DEF SendFailed, HeartbeatFailed
  <2> QED BY <2>1, <2>2, SocketsShrink
<1>5. ASSUME NEW k \in Callers, StoreCold(k)
      PROVE  SocketInv'
  <2>1. CASE closed
    BY <1>5, <2>1 DEF StoreCold, SocketInv
  <2>2. CASE ~closed
    BY <1>1, <1>5, <2>2 DEF StoreCold
  <2> QED BY <2>1, <2>2
<1>6. CASE WarmDial
  <2>1. CASE UNCHANGED <<connVars, wcc>>
    BY <1>1, <1>6, <2>1 DEF WarmDial
  <2>2. ASSUME NEW c \in Conns, newClientConn(c), wcc' = c
        PROVE  SocketInv'
    <3>1. closed' = closed /\ created' = created
      BY <1>6 DEF WarmDial
    <3>2. Warming = {} /\ c \in Warming'
      BY <1>6, <2>2 DEF WarmDial, PoolInv, StageInv, Warming
    <3>3. open' \ Warming' \subseteq open \ Warming
      BY <2>2, <3>2
    <3> QED BY <3>1, <3>3, SocketsShrink
  <2> QED BY <1>6, <2>1, <2>2 DEF WarmDial
<1>7. CASE WarmAdd
  <2>1. closed' = closed /\ created' = created + 1 /\ open' = open
    BY <1>7 DEF WarmAdd
  <2>2. Warming = {wcc} /\ Warming' = {}
    BY <1>7 DEF WarmAdd, PoolInv, StageInv, Warming
  <2>3. CASE closed
    BY <2>1, <2>3 DEF SocketInv
  <2>4. CASE ~closed
    <3>1. wcc \in open
      BY <2>2, <2>4 DEF PoolInv, LiveInv
    <3>2. open' \ Warming' = (open \ Warming) \cup {wcc}
      BY <2>1, <2>2, <3>1
    <3> QED BY <2>1, <3>2, SocketOpens
  <2> QED BY <2>3, <2>4
<1>8. CASE CloseBegin
  BY <1>8 DEF CloseBegin, SocketInv
<1>9. CASE CloseStep
  <2>1. closed /\ closed' = closed
    BY <1>9 DEF CloseStep, CloseOne, CloseHot, DrainHot, PoolInv, StageInv
  <2> QED BY <2>1 DEF SocketInv
<1>10. ASSUME NEW k \in Callers,
              Enter(k) \/ TryHot(k) \/ TryCold(k) \/ WaitHot(k) \/ MarkInUse(k)
                \/ EndUse(k) \/ PutCheck(k) \/ MarkIdle(k) \/ SendHot(k)
       PROVE  SocketInv'
  BY <1>1, <1>10
     DEF Enter, TryHot, TryCold, WaitHot, MarkInUse, EndUse, PutCheck, MarkIdle, SendHot
<1>11. CASE UNCHANGED vars
  BY <1>1, <1>11 DEF vars
<1> QED
  BY <1>2, <1>3, <1>4, <1>5, <1>6, <1>7, <1>8, <1>9, <1>10, <1>11
     DEF Next, GetStep, UseStep, PutStep, Warm

(* Until Close, created never undercounts: every open socket but the one    *)
(* the warm-up is about to add occupies a slot of the pool.                 *)
THEOREM SocketsAreCounted == Spec => []SocketsCounted
<1>1. Init => SocketInv
  <2>1. Init => open \ Warming = {} /\ created = 0
    BY DEF Init
  <2> QED BY <2>1, FS_EmptySet DEF SocketInv
<1>2. PoolInv /\ SocketInv /\ [Next]_vars => SocketInv'
  BY SocketNext
<1>3. SocketInv => SocketsCounted
  BY DEF SocketInv, SocketsCounted
<1> QED BY <1>1, <1>2, <1>3, Invariance, PTL DEF Spec

=============================================================================

------------------------- MODULE ClientPoolsProofs --------------------------
(* The pools of a client and the round robin of a fixed list, for any set of *)
(* servers, goroutines and pools.                                            *)
EXTENDS ClientPools, FiniteSetTheorems, TLAPS

(* What the map of the pools rests on: whoever looks for a pool has an       *)
(* address, an open pool is in the map, and no two servers share a pool.     *)
PoolsDistinct ==
    \A a, b \in Addrs : pools[a] = pools[b] => a = b \/ pools[a] = NoPool

MapInv ==
    /\ \A g \in Users : pc[g] \in {"lookup", "create"} => target[g] \in Addrs
    /\ OpenIsReachable
    /\ PoolsDistinct

(* What the round robin rests on.  A fixed list is never fetched, so only    *)
(* UpdateServers replaces it, and the servers selected in this turn are      *)
(* those from where the turn began up to idx, going round at the end.        *)
Arc(s, i, n) ==
    {j \in 0..(n - 1) : IF s <= i THEN s <= j /\ j < i ELSE s <= j \/ j < i}

Passed(s) == {servers[j + 1] : j \in Arc(s, At(idx, Len(servers)), Len(servers))}

NoFetch ==
    kind = "direct" =>
        /\ \A g \in Users : pc[g] \notin {"fetch", "store", "pick"}
        /\ pc[Watcher] = "none"

TurnInv ==
    kind = "direct" /\ servers # <<>> =>
        \E s \in 0..(Len(servers) - 1) : seen = Passed(s)

PoolsInv == TypeOK /\ MapInv /\ NoFetch /\ TurnInv
-----------------------------------------------------------------------------
(* The lists of servers                                                      *)

(* A list of servers is a sequence that names each of its servers once.      *)
LEMMA ListFacts ==
    ASSUME NEW l \in Lists
    PROVE  /\ l \in Seq(Addrs) /\ Len(l) \in Nat /\ DOMAIN l = 1..Len(l)
           /\ Range(l) \subseteq Addrs /\ (l # <<>> => Len(l) > 0)
           /\ \A i \in 1..Len(l) : l[i] \in Range(l)
           /\ \A i, j \in 1..Len(l) : l[i] = l[j] => i = j
<1>1. PICK S \in SUBSET Addrs : l \in Orders(S)
  BY DEF Lists
<1>2. IsFiniteSet(S) /\ Cardinality(S) \in Nat
  BY FS_Subset, FS_CardinalityType, ClientPoolsAssumption
<1> DEFINE n == Cardinality(S)
<1>3. l \in [1..n -> S] /\ Range(l) = S
  BY <1>1 DEF Orders
<1>4. l \in Seq(Addrs) /\ Len(l) = n /\ DOMAIN l = 1..n
  BY <1>2, <1>3
<1>5. l \in Surjection(1..n, S)
  BY <1>3 DEF Surjection, Range
<1>6. IsFiniteSet(1..n) /\ Cardinality(1..n) = n
  BY <1>2, FS_Interval
<1>7. l \in Injection(1..n, S)
  BY <1>5, <1>6, FS_Surjection
<1>8. \A i, j \in 1..n : l[i] = l[j] => i = j
  BY <1>3, <1>7 DEF Injection, IsInjective
<1>9. \A i \in 1..n : l[i] \in Range(l)
  BY <1>3
<1>10. l # <<>> => n > 0
  BY <1>2, <1>4
<1> QED BY <1>2, <1>3, <1>4, <1>8, <1>9, <1>10

(* Every set of servers can be listed.                                       *)
LEMMA OrdersExist ==
    ASSUME NEW S \in SUBSET Addrs
    PROVE  Orders(S) # {} /\ Orders(S) \subseteq Lists
<1>1. IsFiniteSet(S)
  BY FS_Subset, ClientPoolsAssumption
<1>2. PICK l : l \in Bijection(1..Cardinality(S), S)
  BY <1>1, FS_CardinalityType DEF ExistsBijection
<1>3. l \in [1..Cardinality(S) -> S] /\ Range(l) = S
  BY <1>2 DEF Bijection, Surjection, Range
<1>4. l \in Orders(S)
  BY <1>3 DEF Orders
<1> QED BY <1>4 DEF Lists

(* A fetch answers with a list of servers.                                   *)
LEMMA AnswersAreLists ==
    ASSUME backend \subseteq Addrs
    PROVE  Answers \subseteq Lists
<1>1. Orders(backend) # {} /\ Orders(backend) \subseteq Lists
  BY OrdersExist
<1>2. (CHOOSE l \in Orders(backend) : TRUE) \in Orders(backend)
  BY <1>1
<1> QED BY <1>1, <1>2 DEF Answers

(* The lists a client may begin with besides those: none, and one server.    *)
LEMMA ShortLists == <<>> \in Lists /\ \A a \in Addrs : <<a>> \in Lists
<1>1. <<>> \in Lists
  <2>1. Cardinality({}) = 0
    BY FS_EmptySet
  <2>2. <<>> \in [1..0 -> {}] /\ Range(<<>>) = {}
    BY DEF Range
  <2>3. <<>> \in Orders({})
    BY <2>1, <2>2 DEF Orders
  <2> QED BY <2>3 DEF Lists
<1>2. ASSUME NEW a \in Addrs
      PROVE  <<a>> \in Lists
  <2>1. Cardinality({a}) = 1
    BY FS_Singleton
  <2>2. <<a>> \in [1..1 -> {a}] /\ Range(<<a>>) = {a}
    BY DEF Range
  <2>3. <<a>> \in Orders({a})
    BY <2>1, <2>2 DEF Orders
  <2> QED BY <2>3 DEF Lists
<1> QED BY <1>1, <1>2

-----------------------------------------------------------------------------
(* Going round                                                               *)

(* A number is what it is divided by times the quotient, and the rest; there *)
(* is one such quotient and one such rest.                                   *)
LEMMA RestUnique ==
    ASSUME NEW n \in Nat \ {0}, NEW q \in Int, NEW r \in 0..(n - 1)
    PROVE  (n * q + r) % n = r
<1> DEFINE x == n * q + r
           p == x \div n
           m == x % n
<1>1. x \in Int /\ p \in Int /\ m \in 0..(n - 1) /\ x = n * p + m
  OBVIOUS
<1>2. n * (q - p) = m - r /\ q - p \in Int
  BY <1>1
<1>3. q - p < 1
  <2>1. q - p >= 1 => n * (q - p) >= n
    BY <1>1
  <2> HIDE DEF p, m, x
  <2> QED BY <1>1, <1>2, <2>1
<1>4. q - p > -1
  <2>1. q - p <= -1 => n * (q - p) <= -n
    BY <1>1
  <2> HIDE DEF p, m, x
  <2> QED BY <1>1, <1>2, <2>1
<1>5. q - p = 0
  BY <1>1, <1>3, <1>4
<1>6. m = r
  BY <1>1, <1>2, <1>5
<1> QED BY <1>6

(* The place idx stands for, and the place after it.                         *)
Following(i, n) == IF i + 1 < n THEN i + 1 ELSE 0

(* At gives a place of the list, After the place that follows it.           *)
LEMMA Places ==
    ASSUME NEW i \in Nat, NEW n \in Nat \ {0}
    PROVE  /\ At(i, n) \in 0..(n - 1) /\ After(i, n) \in Nat
           /\ At(After(i, n), n) = Following(At(i, n), n)
<1> DEFINE q == i \div n
           r == i % n
<1>1. q \in Int /\ r \in 0..(n - 1) /\ i = n * q + r
  OBVIOUS
<1>2. (i + 1) % n = Following(r, n)
  <2>1. CASE r + 1 < n
    <3>1. i + 1 = n * q + (r + 1) /\ r + 1 \in 0..(n - 1)
      BY <1>1, <2>1
    <3> HIDE DEF q, r
    <3>2. (n * q + (r + 1)) % n = r + 1
      BY <1>1, <3>1, RestUnique
    <3> QED BY <2>1, <3>1, <3>2 DEF Following
  <2>2. CASE ~(r + 1 < n)
    <3>1. i + 1 = n * (q + 1) + 0 /\ q + 1 \in Int
      BY <1>1, <2>2
    <3> HIDE DEF q, r
    <3>2. (n * (q + 1) + 0) % n = 0
      BY <1>1, <3>1, RestUnique
    <3> QED BY <2>2, <3>1, <3>2 DEF Following
  <2> QED BY <2>1, <2>2
<1>3. Following(r, n) \in 0..(n - 1)
  BY <1>1 DEF Following
<1>4. Following(r, n) % n = Following(r, n)
  <2> HIDE DEF q, r
  <2>1. n * 0 + Following(r, n) = Following(r, n)
    BY <1>3
  <2>2. (n * 0 + Following(r, n)) % n = Following(r, n)
    BY <1>3, RestUnique
  <2> QED BY <2>1, <2>2
<1> QED BY <1>1, <1>2, <1>3, <1>4 DEF At, After

(* An arc from s up to i does not reach i; the place after i adds i to it,   *)
(* unless that is where the arc began: then it has gone all the way round.   *)
LEMMA ArcGrows ==
    ASSUME NEW n \in Nat \ {0}, NEW s \in 0..(n - 1), NEW i \in 0..(n - 1)
    PROVE  /\ Arc(i, i, n) = {} /\ Arc(s, i, n) \subseteq 0..(n - 1)
           /\ i \notin Arc(s, i, n) /\ Following(i, n) \in 0..(n - 1)
           /\ Following(i, n) # s => Arc(s, Following(i, n), n) = Arc(s, i, n) \cup {i}
           /\ Following(i, n) = s => Arc(s, i, n) \cup {i} = 0..(n - 1)
  BY DEF Arc, Following
-----------------------------------------------------------------------------
(* The invariant holds initially.                                            *)
LEMMA InitPools == Init => PoolsInv
<1> SUFFICES ASSUME Init
             PROVE  PoolsInv
  OBVIOUS
<1> USE ClientPoolsAssumption DEF Init, InitDiscovery
<1>1. backend \subseteq Addrs
  BY DEF InitDiscovery
<1>2. servers \in Lists
  BY <1>1, AnswersAreLists, ShortLists
<1>3. pc \in [Goroutines -> {"none", "idle"}] /\ target \in [Users -> {NoAddr}]
  OBVIOUS
<1>4. fetched \in [Goroutines -> Lists] /\ update \in [pending : BOOLEAN, list : Lists]
  BY ShortLists DEF NoUpdate
<1>5. TypeOK
  <2>1. idx \in Nat /\ kind \in Kinds
    OBVIOUS
  <2>4. event \in BOOLEAN /\ fresh \in BOOLEAN /\ closing \in BOOLEAN /\ done \in BOOLEAN
    BY Zenon
  <2>5. /\ pools \in [Addrs -> Pools \cup {NoPool}] /\ open \subseteq Pools
        /\ seen \subseteq Addrs /\ events \in 0..MaxEvents
    OBVIOUS
  <2>2. pc \in [Goroutines -> {"none", "idle", "fetch", "store", "pick",
                              "lookup", "create", "ended"}]
    BY <1>3
  <2>3. target \in [Users -> Addrs \cup {NoAddr}]
    BY <1>3
  <2> QED BY <1>1, <1>2, <1>4, <2>1, <2>2, <2>3, <2>4, <2>5, Zenon DEF TypeOK
<1>6. MapInv
  <2>1. \A g \in Users : pc[g] \in {"none", "idle"}
    BY <1>3 DEF Goroutines
  <2> QED BY <2>1 DEF MapInv, OpenIsReachable, PoolsDistinct
<1>7. NoFetch
  <2>1. \A g \in Users : pc[g] \in {"none", "idle"}
    BY <1>3 DEF Goroutines
  <2>2. kind = "direct" => pc[Watcher] = "none"
    BY DEF Goroutines
  <2> QED BY <2>1, <2>2 DEF NoFetch
<1>8. TurnInv
  <2> SUFFICES ASSUME servers # <<>>
               PROVE  \E s \in 0..(Len(servers) - 1) : seen = Passed(s)
    BY Zenon DEF TurnInv
  <2>1. Len(servers) \in Nat \ {0}
    BY <1>2, ListFacts
  <2>2. idx \in Nat
    BY <1>5 DEF TypeOK
  <2> DEFINE i == At(idx, Len(servers))
  <2>3. i \in 0..(Len(servers) - 1)
    BY <2>1, <2>2, Places, Zenon
  <2>4. Arc(i, i, Len(servers)) = {}
    BY <2>1, <2>3, ArcGrows
  <2>5. seen = Passed(i)
    BY <2>4 DEF Passed
  <2> QED BY <2>3, <2>5
<1> QED BY <1>5, <1>6, <1>7, <1>8 DEF PoolsInv

-----------------------------------------------------------------------------
(* The steps of discovery                                                    *)

PcValues == {"none", "idle", "fetch", "store", "pick", "lookup", "create", "ended"}

(* A step of one goroutine leaves the others where they are.                 *)
LEMMA Goes ==
    ASSUME pc \in [Goroutines -> PcValues], NEW g \in Goroutines,
           NEW place \in PcValues, GoTo(g, place)
    PROVE  /\ pc' \in [Goroutines -> PcValues] /\ pc'[g] = place
           /\ \A h \in Goroutines : h # g => pc'[h] = pc[h]
  BY DEF GoTo

(* Nothing that the map of the pools rests on has changed.                   *)
LEMMA MapKept ==
    ASSUME MapInv, UNCHANGED <<pools, open>>,
           \A g \in Users : pc'[g] \in {"lookup", "create"} => target'[g] \in Addrs
    PROVE  MapInv'
  BY DEF MapInv, OpenIsReachable, PoolsDistinct

(* Nothing that the round robin rests on has changed.                        *)
LEMMA TurnKept ==
    ASSUME TurnInv, UNCHANGED <<kind, servers, idx, seen>>
    PROVE  TurnInv'
  BY DEF TurnInv, Passed

(* A new list begins a new turn.                                             *)
LEMMA TurnBegins ==
    ASSUME servers' \in Lists, idx' \in Nat, seen' = {}
    PROVE  TurnInv'
<1> SUFFICES ASSUME servers' # <<>>
             PROVE  \E s \in 0..(Len(servers') - 1) : seen' = Passed(s)'
  BY Zenon DEF TurnInv
<1>1. Len(servers') \in Nat \ {0}
  BY ListFacts
<1> DEFINE i == At(idx', Len(servers'))
<1>2. i \in 0..(Len(servers') - 1)
  BY <1>1, Places
<1>3. Arc(i, i, Len(servers')) = {}
  BY <1>1, <1>2, ArcGrows
<1>4. seen' = {servers'[j + 1] : j \in Arc(i, At(idx', Len(servers')), Len(servers'))}
  BY <1>3
<1> QED BY <1>2, <1>4, Zenon DEF Passed
(* The parts of TypeOK that the steps of discovery change.                   *)
LEMMA TypeOfDiscovery ==
    ASSUME TypeOK, UNCHANGED poolVars,
           kind' = kind, event' \in BOOLEAN, fresh' \in BOOLEAN,
           backend' \subseteq Addrs, servers' \in Lists, seen' \subseteq Addrs,
           idx' \in Nat, pc' \in [Goroutines -> PcValues],
           target' \in [Users -> Addrs \cup {NoAddr}],
           fetched' \in [Goroutines -> Lists], events' \in 0..MaxEvents
    PROVE  TypeOK'
  BY Zenon DEF TypeOK, poolVars, PcValues

(* An event that is counted keeps to the bound.                              *)
LEMMA Counted ==
    ASSUME events \in 0..MaxEvents, Happens \/ UNCHANGED events
    PROVE  events' \in 0..MaxEvents
  BY ClientPoolsAssumption DEF Happens

(* Refresh and the beginning of Get change where a goroutine is, the list it *)
(* has fetched, or the list; a fixed list is not fetched.                    *)
LEMMA FetchInv ==
    ASSUME PoolsInv, UNCHANGED poolVars, NEW g \in Goroutines, Fetch(g)
    PROVE  PoolsInv'
<1> USE DEF PoolsInv, Fetch
<1>1. kind # "direct" /\ Goroutines = Users \cup {Watcher}
  BY DEF NoFetch, Goroutines
<1>2. pc \in [Goroutines -> PcValues] /\ fetched \in [Goroutines -> Lists]
  BY DEF TypeOK, PcValues
<1>3. /\ pc' \in [Goroutines -> PcValues] /\ pc'[g] = "store"
      /\ \A h \in Goroutines : h # g => pc'[h] = pc[h]
  BY <1>2, Goes DEF PcValues
<1>4. fetched' \in [Goroutines -> Lists]
  BY <1>2, AnswersAreLists DEF TypeOK
<1>5. TypeOK'
  BY <1>3, <1>4, TypeOfDiscovery DEF TypeOK
<1>6. MapInv'
  <2>1. \A h \in Users : pc'[h] \in {"lookup", "create"} => target'[h] \in Addrs
    BY <1>1, <1>3 DEF MapInv
  <2> QED BY <2>1, MapKept DEF poolVars
<1>7. NoFetch'
  BY <1>1 DEF NoFetch
<1>8. TurnInv'
  BY TurnKept
<1> QED BY <1>5, <1>6, <1>7, <1>8

(* A fetch that fails ends the Get.                                         *)
LEMMA FetchFailsInv ==
    ASSUME PoolsInv, UNCHANGED poolVars, NEW g \in Goroutines, FetchFails(g)
    PROVE  PoolsInv'
<1> USE DEF PoolsInv, FetchFails
<1>1. kind # "direct" /\ Goroutines = Users \cup {Watcher}
  BY DEF NoFetch, Goroutines
<1>2. pc \in [Goroutines -> PcValues]
  BY DEF TypeOK, PcValues
<1>3. /\ pc' \in [Goroutines -> PcValues] /\ pc'[g] = "idle"
      /\ \A h \in Goroutines : h # g => pc'[h] = pc[h]
  BY <1>2, Goes DEF PcValues
<1>4. events' \in 0..MaxEvents
  BY Counted DEF TypeOK
<1>5. TypeOK'
  BY <1>3, <1>4, TypeOfDiscovery DEF TypeOK
<1>6. MapInv'
  <2>1. \A h \in Users : pc'[h] \in {"lookup", "create"} => target'[h] \in Addrs
    BY <1>1, <1>3 DEF MapInv
  <2> QED BY <2>1, MapKept DEF poolVars
<1>7. NoFetch'
  BY <1>1 DEF NoFetch
<1>8. TurnInv'
  BY TurnKept
<1> QED BY <1>5, <1>6, <1>7, <1>8

(* A list that is stored begins a new turn.                                 *)
LEMMA StoreListInv ==
    ASSUME PoolsInv, UNCHANGED poolVars, NEW g \in Goroutines, StoreList(g)
    PROVE  PoolsInv'
<1> USE DEF PoolsInv, StoreList
<1>1. kind # "direct" /\ Goroutines = Users \cup {Watcher}
  BY DEF NoFetch, Goroutines
<1>2. pc \in [Goroutines -> PcValues] /\ fetched \in [Goroutines -> Lists]
  BY DEF TypeOK, PcValues
<1>3. /\ pc' \in [Goroutines -> PcValues] /\ pc'[g] \in {"idle", "pick"}
      /\ \A h \in Goroutines : h # g => pc'[h] = pc[h]
  <2>1. PICK place \in {"idle", "pick"} : GoTo(g, place)
    OBVIOUS
  <2> QED BY <1>2, <2>1, Goes DEF PcValues
<1>4. servers' \in Lists /\ fetched' \in [Goroutines -> Lists] /\ idx' \in Nat
  BY <1>2, ShortLists DEF TypeOK
<1>5. TypeOK'
  <2>1. fresh' \in BOOLEAN /\ seen' \subseteq Addrs
    OBVIOUS
  <2> QED BY <1>3, <1>4, <2>1, TypeOfDiscovery DEF TypeOK
<1>6. MapInv'
  <2>1. \A h \in Users : pc'[h] \in {"lookup", "create"} => target'[h] \in Addrs
    BY <1>1, <1>3 DEF MapInv
  <2> QED BY <2>1, MapKept DEF poolVars
<1>7. NoFetch'
  BY <1>1 DEF NoFetch
<1>8. TurnInv'
  BY <1>4, TurnBegins
<1> QED BY <1>5, <1>6, <1>7, <1>8

(* Only a list that is not fixed is refreshed.                              *)
LEMMA GetRefreshesInv ==
    ASSUME PoolsInv, UNCHANGED poolVars, NEW g \in Users, GetRefreshes(g)
    PROVE  PoolsInv'
<1> USE DEF PoolsInv, GetRefreshes
<1>1. kind # "direct" /\ g \in Goroutines /\ Users \subseteq Goroutines
  BY DEF NeedsRefresh, Goroutines
<1>2. pc \in [Goroutines -> PcValues]
  BY DEF TypeOK, PcValues
<1>3. /\ pc' \in [Goroutines -> PcValues] /\ pc'[g] = "fetch"
      /\ \A h \in Goroutines : h # g => pc'[h] = pc[h]
  BY <1>1, <1>2, Goes DEF PcValues
<1>5. TypeOK'
  BY <1>3, TypeOfDiscovery DEF TypeOK
<1>6. MapInv'
  <2>1. \A h \in Users : pc'[h] \in {"lookup", "create"} => target'[h] \in Addrs
    BY <1>1, <1>3 DEF MapInv
  <2> QED BY <2>1, MapKept DEF poolVars
<1>7. NoFetch'
  BY <1>1 DEF NoFetch
<1>8. TurnInv'
  BY TurnKept
<1> QED BY <1>5, <1>6, <1>7, <1>8
(* One selection: the server idx stands at was not selected in this turn.    *)
(* Either the turn goes on with it, or all have been selected and a new turn *)
(* begins after it.                                                          *)
LEMMA Selected ==
    ASSUME TypeOK, TurnInv, servers # <<>>, kind = "direct",
           idx' = After(idx, Len(servers)),
           seen' = Turn(servers[At(idx, Len(servers)) + 1])
    PROVE  /\ \E s \in 0..(Len(servers) - 1) :
                 seen' = {servers[j + 1] : j \in Arc(s, At(idx', Len(servers)), Len(servers))}
           /\ Len(servers) > 1 => seen' # seen
<1> DEFINE n == Len(servers)
           i == At(idx, n)
           k == Following(i, n)
           a == servers[i + 1]
           At2(s, x) == {servers[j + 1] : j \in Arc(s, x, n)}
<1>1. servers \in Lists /\ idx \in Nat
  BY DEF TypeOK
<1>2. n \in Nat \ {0}
  BY <1>1, ListFacts
<1>3. i \in 0..(n - 1) /\ At(idx', n) = k
  BY <1>1, <1>2, Places
<1>4. PICK s \in 0..(n - 1) : seen = At2(s, i)
  BY DEF TurnInv, Passed
<1>5. \A x, y \in 1..n : servers[x] = servers[y] => x = y
  BY <1>1, ListFacts
<1>6. /\ Arc(k, k, n) = {} /\ k \in 0..(n - 1) /\ i \notin Arc(s, i, n)
      /\ Arc(s, i, n) \subseteq 0..(n - 1)
      /\ k # s => Arc(s, k, n) = Arc(s, i, n) \cup {i}
      /\ k = s => Arc(s, i, n) \cup {i} = 0..(n - 1)
  <2> HIDE DEF n, i
  <2>0. n \in Nat \ {0} /\ i \in 0..(n - 1)
    BY <1>2, <1>3
  <2>1. /\ k \in 0..(n - 1) /\ i \notin Arc(s, i, n)
        /\ Arc(s, i, n) \subseteq 0..(n - 1)
        /\ k # s => Arc(s, k, n) = Arc(s, i, n) \cup {i}
        /\ k = s => Arc(s, i, n) \cup {i} = 0..(n - 1)
    <3>1. k \in 0..(n - 1)
      BY <2>0, ArcGrows
    <3>2. i \notin Arc(s, i, n)
      BY <2>0, ArcGrows
    <3>3. Arc(s, i, n) \subseteq 0..(n - 1)
      BY <2>0, ArcGrows
    <3>4. k # s => Arc(s, k, n) = Arc(s, i, n) \cup {i}
      BY <2>0, ArcGrows, ZenonT(60)
    <3>5. k = s => Arc(s, i, n) \cup {i} = 0..(n - 1)
      BY <2>0, ArcGrows, SMTT(30)
    <3> QED BY <3>1, <3>2, <3>3, <3>4, <3>5
  <2> HIDE DEF k
  <2>2. Arc(k, k, n) = {}
    BY <1>2, <2>1, ArcGrows
  <2> QED BY <2>1, <2>2
<1>7. Range(servers) = {servers[j + 1] : j \in 0..(n - 1)}
  <2>1. Range(servers) = {servers[x] : x \in 1..n}
    BY <1>1, ListFacts DEF Range
  <2>2. \A x \in 1..n : x - 1 \in 0..(n - 1) /\ (x - 1) + 1 = x
    BY <1>2
  <2>3. \A j \in 0..(n - 1) : j + 1 \in 1..n
    BY <1>2
  <2> HIDE DEF n
  <2> QED BY <2>1, <2>2, <2>3
<1>8. a \notin seen
  <2> SUFFICES ASSUME NEW j \in Arc(s, i, n), servers[j + 1] = a
               PROVE  FALSE
    BY <1>4
  <2>1. j \in 0..(n - 1) /\ j # i
    BY <1>6
  <2>2. j + 1 \in 1..n /\ i + 1 \in 1..n /\ j + 1 # i + 1
    BY <1>2, <1>3, <2>1
  <2> QED BY <1>5, <2>2
<1>9. seen' = IF seen \cup {a} = Range(servers) THEN {} ELSE seen \cup {a}
  BY DEF Turn
<1>10. CASE seen \cup {a} = Range(servers)
  <2>1. seen' = At2(k, k)
    BY <1>6, <1>9, <1>10
  <2>2. n > 1 => seen # {}
    <3>1. n > 1 => servers[1] # servers[2] /\ servers[1] \in Range(servers)
                   /\ servers[2] \in Range(servers)
      <4>1. n > 1 => 1 \in 1..n /\ 2 \in 1..n
        BY <1>2
      <4> QED BY <1>1, <1>5, <4>1, ListFacts
    <3> QED BY <1>10, <3>1
  <2>3. n > 1 => seen' # seen
    BY <1>9, <1>10, <2>2
  <2> QED BY <1>3, <1>6, <2>1, <2>3
<1>11. CASE seen \cup {a} # Range(servers)
  <2>1. At2(s, i) \cup {a} = {servers[j + 1] : j \in Arc(s, i, n) \cup {i}}
    OBVIOUS
  <2>2. k # s
    <3>1. k = s => At2(s, i) \cup {a} = Range(servers)
      BY <1>6, <1>7, <2>1, Zenon
    <3> QED BY <1>4, <1>11, <3>1
  <2>3. seen' = At2(s, k)
    BY <1>4, <1>6, <1>9, <1>11, <2>1, <2>2
  <2>4. seen' # seen
    BY <1>8, <1>9, <1>11
  <2> QED BY <1>3, <2>3, <2>4
<1> QED BY <1>10, <1>11

(* What a selection, by either of the two ways, leaves.                      *)
LEMMA Targets ==
    ASSUME TypeOK, TurnInv, NEW g \in Users, servers # <<>>,
           UNCHANGED <<kind, servers>>, Random(g) \/ RoundRobin(g)
    PROVE  /\ target' \in [Users -> Addrs \cup {NoAddr}] /\ target'[g] \in Addrs
           /\ \A h \in Users : h # g => target'[h] = target[h]
           /\ idx' \in Nat /\ seen' \subseteq Addrs /\ TurnInv'
<1> DEFINE n == Len(servers)
<1>1. /\ servers \in Lists /\ idx \in Nat /\ seen \subseteq Addrs
      /\ target \in [Users -> Addrs \cup {NoAddr}]
  BY DEF TypeOK
<1>2. /\ n \in Nat \ {0} /\ Range(servers) \subseteq Addrs
      /\ \A x \in 1..n : servers[x] \in Range(servers)
  BY <1>1, ListFacts
<1>3. CASE Random(g)
  <2>1. PICK a \in Range(servers) : target' = [target EXCEPT ![g] = a]
    BY <1>3, Zenon DEF Random
  <2>2. idx' = idx /\ seen' = seen
    BY <1>3 DEF Random
  <2>3. TurnInv'
    BY <2>2, TurnKept
  <2> QED BY <1>1, <1>2, <2>1, <2>2, <2>3
<1>4. CASE RoundRobin(g)
  <2> DEFINE a == servers[At(idx, n) + 1]
  <2>1. At(idx, n) \in 0..(n - 1) /\ After(idx, n) \in Nat
    BY <1>1, <1>2, Places, Zenon
  <2>2. a \in Addrs
    <3>1. At(idx, n) + 1 \in 1..n
      BY <1>2, <2>1
    <3> QED BY <1>2, <3>1
  <2>3. /\ target' = [target EXCEPT ![g] = a]
        /\ idx' \in IF kind = "direct" THEN {After(idx, n)} ELSE 0..(n - 1)
        /\ seen' = IF kind = "direct" THEN Turn(a) ELSE seen
    BY <1>4 DEF RoundRobin
  <2> HIDE DEF n, a
  <2>4. idx' \in Nat
    BY <1>2, <2>1, <2>3
  <2>5. seen' \subseteq Addrs
    BY <1>1, <2>2, <2>3 DEF Turn
  <2>6. TurnInv'
    <3>1. CASE kind = "direct"
      BY <2>3, <3>1, Selected DEF TurnInv, Passed, n, a
    <3>2. CASE kind # "direct"
      BY <3>2 DEF TurnInv
    <3> QED BY <3>1, <3>2
  <2>7. /\ target' \in [Users -> Addrs \cup {NoAddr}] /\ target'[g] \in Addrs
        /\ \A h \in Users : h # g => target'[h] = target[h]
    BY <1>1, <2>2, <2>3
  <2> QED BY <2>4, <2>5, <2>6, <2>7
<1> QED BY <1>3, <1>4

(* Select gives the goroutine an address, unless the list is empty.         *)
LEMMA SelectInv ==
    ASSUME PoolsInv, UNCHANGED poolVars, NEW g \in Users, Select(g)
    PROVE  PoolsInv'
<1> USE DEF PoolsInv, Select
<1>1. g \in Goroutines /\ Users \subseteq Goroutines /\ Watcher \in Goroutines /\ g # Watcher
  BY ClientPoolsAssumption DEF Goroutines
<1>2. pc \in [Goroutines -> PcValues]
  BY DEF TypeOK, PcValues
<1>3. /\ pc' \in [Goroutines -> PcValues] /\ pc'[g] \in {"idle", "lookup"}
      /\ \A h \in Goroutines : h # g => pc'[h] = pc[h]
  <2>1. PICK place \in {"idle", "lookup"} : GoTo(g, place)
    OBVIOUS
  <2> QED BY <1>1, <1>2, <2>1, Goes DEF PcValues
<1>4. NoFetch'
  BY <1>1, <1>3 DEF NoFetch
<1>5. CASE servers = <<>>
  <2>1. pc'[g] = "idle" /\ UNCHANGED <<target, idx, seen>>
    BY <1>1, <1>2, <1>5 DEF GoTo
  <2>2. TypeOK'
    BY <1>3, <2>1, TypeOfDiscovery DEF TypeOK
  <2>3. \A h \in Users : pc'[h] \in {"lookup", "create"} => target'[h] \in Addrs
    BY <1>1, <1>3, <2>1 DEF MapInv
  <2>4. MapInv' /\ TurnInv'
    BY <2>1, <2>3, MapKept, TurnKept DEF poolVars
  <2> QED BY <1>4, <2>2, <2>4
<1>6. CASE servers # <<>>
  <2>1. Random(g) \/ RoundRobin(g)
    BY <1>6
  <2>2. /\ target' \in [Users -> Addrs \cup {NoAddr}] /\ target'[g] \in Addrs
        /\ \A h \in Users : h # g => target'[h] = target[h]
        /\ idx' \in Nat /\ seen' \subseteq Addrs /\ TurnInv'
    BY <1>6, <2>1, Targets
  <2>3. TypeOK'
    BY <1>3, <2>2, TypeOfDiscovery DEF TypeOK
  <2>4. \A h \in Users : pc'[h] \in {"lookup", "create"} => target'[h] \in Addrs
    BY <1>1, <1>3, <2>2 DEF MapInv
  <2>5. MapInv'
    BY <2>4, MapKept DEF poolVars
  <2> QED BY <1>4, <2>2, <2>3, <2>5
<1> QED BY <1>5, <1>6
(* GetAll leaves everything but the goroutine's place.                      *)
LEMMA GetAllInv ==
    ASSUME PoolsInv, UNCHANGED poolVars, NEW g \in Users, GetAll(g)
    PROVE  PoolsInv'
<1> USE DEF PoolsInv, GetAll
<1>1. g \in Goroutines /\ Users \subseteq Goroutines /\ Watcher \in Goroutines /\ g # Watcher
  BY ClientPoolsAssumption DEF Goroutines
<1>2. pc \in [Goroutines -> PcValues]
  BY DEF TypeOK, PcValues
<1>3. /\ pc' \in [Goroutines -> PcValues] /\ pc'[g] = "idle"
      /\ \A h \in Goroutines : h # g => pc'[h] = pc[h]
  BY <1>1, <1>2, Goes DEF PcValues
<1>4. TypeOK'
  BY <1>3, TypeOfDiscovery DEF TypeOK
<1>5. MapInv'
  <2>1. \A h \in Users : pc'[h] \in {"lookup", "create"} => target'[h] \in Addrs
    BY <1>1, <1>3 DEF MapInv
  <2> QED BY <2>1, MapKept DEF poolVars
<1>6. NoFetch'
  BY <1>1, <1>3 DEF NoFetch
<1>7. TurnInv'
  BY TurnKept
<1> QED BY <1>4, <1>5, <1>6, <1>7

(* Only etcd has a watcher, and the watcher looks for no pool.              *)
LEMMA WatchInv ==
    ASSUME PoolsInv, UNCHANGED poolVars, Watch
    PROVE  PoolsInv'
<1> USE DEF PoolsInv, Watch
<1>1. Users \subseteq Goroutines /\ Watcher \in Goroutines /\ Watcher \notin Users
  BY ClientPoolsAssumption DEF Goroutines
<1>2. pc \in [Goroutines -> PcValues] /\ kind # "direct"
  BY DEF TypeOK, PcValues, NoFetch
<1>3. /\ pc' \in [Goroutines -> PcValues]
      /\ \A h \in Goroutines : h # Watcher => pc'[h] = pc[h]
  BY <1>1, <1>2, Goes DEF PcValues
<1>4. TypeOK'
  <2>1. event' \in BOOLEAN
    BY Zenon
  <2> QED BY <1>3, <2>1, TypeOfDiscovery DEF TypeOK
<1>5. MapInv'
  <2>1. \A h \in Users : pc'[h] \in {"lookup", "create"} => target'[h] \in Addrs
    BY <1>1, <1>3 DEF MapInv
  <2> QED BY <2>1, MapKept DEF poolVars
<1>6. NoFetch'
  BY <1>2 DEF NoFetch
<1>7. TurnInv'
  BY TurnKept
<1> QED BY <1>4, <1>5, <1>6, <1>7

(* Time passes, or the registered servers change.                            *)
LEMMA OutsideInv ==
    ASSUME PoolsInv, UNCHANGED poolVars, Expire \/ Change
    PROVE  PoolsInv'
<1> USE DEF PoolsInv
<1>1. UNCHANGED <<kind, servers, idx, seen, pc, target, fetched>>
  BY DEF Expire, Change
<1>2. /\ backend' \subseteq Addrs /\ events' \in 0..MaxEvents
  BY Counted DEF Expire, Change, TypeOK
<1>3. event' \in BOOLEAN /\ fresh' \in BOOLEAN
  <2>1. CASE Expire
    BY <2>1, Zenon DEF Expire, TypeOK
  <2>2. CASE Change
    BY <2>2, Zenon DEF Change, TypeOK
  <2> QED BY <2>1, <2>2
<1>4. TypeOK'
  <2>1. /\ pc' \in [Goroutines -> PcValues] /\ idx' \in Nat
        /\ target' \in [Users -> Addrs \cup {NoAddr}] /\ servers' \in Lists
        /\ seen' \subseteq Addrs /\ fetched' \in [Goroutines -> Lists]
    BY <1>1 DEF TypeOK, PcValues
  <2> QED BY <1>1, <1>2, <1>3, <2>1, TypeOfDiscovery
<1>5. MapInv'
  <2>1. \A h \in Users : pc'[h] \in {"lookup", "create"} => target'[h] \in Addrs
    BY <1>1 DEF MapInv
  <2> QED BY <2>1, MapKept DEF poolVars
<1>6. NoFetch'
  BY <1>1 DEF NoFetch
<1>7. TurnInv'
  BY <1>1, TurnKept
<1> QED BY <1>4, <1>5, <1>6, <1>7

-----------------------------------------------------------------------------
(* The steps of the client                                                   *)

(* The parts of TypeOK that the steps of the client change.                  *)
LEMMA TypeOfClient ==
    ASSUME TypeOK, UNCHANGED <<kind, backend, event, idx, fresh, fetched>>,
           servers' \in Lists, seen' \subseteq Addrs, events' \in 0..MaxEvents,
           pc' \in [Goroutines -> PcValues],
           target' \in [Users -> Addrs \cup {NoAddr}],
           pools' \in [Addrs -> Pools \cup {NoPool}], open' \subseteq Pools,
           closing' \in BOOLEAN, done' \in BOOLEAN,
           update' \in [pending : BOOLEAN, list : Lists]
    PROVE  TypeOK'
  BY Zenon DEF TypeOK, PcValues

(* A new pool is put into the map where there was none: all that was         *)
(* reachable still is, and the new pool was nobody's.                        *)
LEMMA MadeForOne ==
    ASSUME TypeOK, OpenIsReachable, PoolsDistinct, NEW a \in Addrs,
           pools[a] = NoPool, NewPool(a)
    PROVE  /\ pools' \in [Addrs -> Pools \cup {NoPool}] /\ open' \subseteq Pools
           /\ OpenIsReachable' /\ PoolsDistinct'
<1>1. pools \in [Addrs -> Pools \cup {NoPool}] /\ open \subseteq Pools
  BY DEF TypeOK
<1>2. PICK p \in Pools : /\ Unused(p)
                         /\ pools' = [pools EXCEPT ![a] = p]
                         /\ open' = open \cup {p}
  BY Zenon DEF NewPool
<1>3. \A b \in Addrs : pools[b] # p
  BY <1>1, <1>2 DEF Unused, Range
<1>4. \A b \in Addrs : pools'[b] = IF b = a THEN p ELSE pools[b]
  BY <1>1, <1>2
<1>5. NoPool \notin Pools
  BY ClientPoolsAssumption
<1>6. OpenIsReachable'
  <2> SUFFICES ASSUME NEW q \in open'
               PROVE  \E b \in Addrs : pools'[b] = q
    BY DEF OpenIsReachable
  <2>1. CASE q = p
    BY <1>4, <2>1
  <2>2. CASE q \in open
    <3>1. PICK b \in Addrs : pools[b] = q
      BY <2>2 DEF OpenIsReachable
    <3>2. b # a
      BY <1>1, <1>5, <2>2, <3>1
    <3> QED BY <1>4, <3>1, <3>2
  <2> QED BY <1>2, <2>1, <2>2
<1>7. PoolsDistinct'
  BY <1>3, <1>4 DEF PoolsDistinct
<1>8. pools' \in [Addrs -> Pools \cup {NoPool}] /\ open' \subseteq Pools
  BY <1>1, <1>2
<1> QED BY <1>6, <1>7, <1>8
(* The heartbeat ends.                                                      *)
LEMMA HeartbeatEndsInv ==
    ASSUME PoolsInv, HeartbeatEnds
    PROVE  PoolsInv'
<1> USE DEF PoolsInv, HeartbeatEnds
<1>1. /\ Users \subseteq Goroutines /\ Watcher \in Goroutines
      /\ Heartbeat \in Users /\ Heartbeat # Watcher
  BY ClientPoolsAssumption DEF Goroutines, Users
<1>2. pc \in [Goroutines -> PcValues]
  BY DEF TypeOK, PcValues
<1>3. /\ pc' \in [Goroutines -> PcValues] /\ pc'[Heartbeat] = "ended"
      /\ \A h \in Goroutines : h # Heartbeat => pc'[h] = pc[h]
  BY <1>1, <1>2, Goes DEF PcValues
<1>4. TypeOK'
  BY <1>3, TypeOfDiscovery DEF TypeOK
<1>5. MapInv'
  <2>1. \A h \in Users : pc'[h] \in {"lookup", "create"} => target'[h] \in Addrs
    BY <1>1, <1>3 DEF MapInv
  <2> QED BY <2>1, MapKept DEF poolVars
<1>6. NoFetch'
  BY <1>1, <1>3 DEF NoFetch
<1>7. TurnInv'
  BY TurnKept
<1> QED BY <1>4, <1>5, <1>6, <1>7

(* Looking for a pool: the map is looked at again before one is made.        *)
LEMMA FindPoolInv ==
    ASSUME PoolsInv, NEW g \in Users, FindPool(g)
    PROVE  PoolsInv'
<1> USE DEF PoolsInv
<1>1. g \in Goroutines /\ Users \subseteq Goroutines /\ Watcher \in Goroutines /\ g # Watcher
  BY ClientPoolsAssumption DEF Goroutines
<1>2. pc \in [Goroutines -> PcValues] /\ target \in [Users -> Addrs \cup {NoAddr}]
  BY DEF TypeOK, PcValues
<1>3. pc[g] \in {"lookup", "create"} /\ target[g] \in Addrs /\ Keep
  BY DEF FindPool, Lookup, Create, MapInv
<1>4. /\ UNCHANGED <<kind, backend, event, idx, fresh, fetched>>
      /\ servers' = servers /\ seen' = seen /\ events' = events
      /\ closing' = closing /\ done' = done /\ update' = update
  BY <1>3 DEF Keep
<1>5. \/ pc[g] = "lookup" /\ GoTo(g, "create") /\ UNCHANGED target
      \/ Proceed(g)
  BY DEF FindPool, Lookup, Create
<1>6. /\ pc' \in [Goroutines -> PcValues] /\ pc'[g] \in {"create", "idle"}
      /\ \A h \in Goroutines : h # g => pc'[h] = pc[h]
  <2>1. PICK place \in {"create", "idle"} : GoTo(g, place)
    BY <1>5 DEF Proceed
  <2> QED BY <1>1, <1>2, <2>1, Goes DEF PcValues
<1>7. /\ target' \in [Users -> Addrs \cup {NoAddr}]
      /\ \A h \in Users : h # g => target'[h] = target[h]
      /\ pc'[g] = "create" => target'[g] \in Addrs
  <2>1. CASE GoTo(g, "create") /\ UNCHANGED target
    BY <1>2, <1>3, <2>1
  <2>2. CASE Proceed(g)
    BY <1>1, <1>2, <2>2 DEF Proceed, GoTo
  <2> QED BY <1>5, <2>1, <2>2
<1>8. /\ pools' \in [Addrs -> Pools \cup {NoPool}] /\ open' \subseteq Pools
      /\ OpenIsReachable' /\ PoolsDistinct'
  <2>1. CASE UNCHANGED <<pools, open>>
    BY <2>1 DEF TypeOK, MapInv, OpenIsReachable, PoolsDistinct
  <2>2. CASE pools[target[g]] = NoPool /\ NewPool(target[g])
    BY <1>3, <2>2, MadeForOne DEF MapInv
  <2> QED BY <2>1, <2>2 DEF FindPool, Lookup, Create
<1>9. TypeOK'
  <2>1. closing' \in BOOLEAN /\ done' \in BOOLEAN
    BY <1>4, Zenon DEF TypeOK
  <2>2. /\ servers' \in Lists /\ seen' \subseteq Addrs /\ events' \in 0..MaxEvents
        /\ update' \in [pending : BOOLEAN, list : Lists]
    BY <1>4 DEF TypeOK
  <2> QED BY <1>4, <1>6, <1>7, <1>8, <2>1, <2>2, TypeOfClient
<1>10. MapInv'
  <2>1. \A h \in Users : pc'[h] \in {"lookup", "create"} => target'[h] \in Addrs
    BY <1>1, <1>6, <1>7 DEF MapInv
  <2> QED BY <1>8, <2>1 DEF MapInv
<1>11. NoFetch'
  BY <1>1, <1>4, <1>6 DEF NoFetch
<1>12. TurnInv'
  BY <1>4, TurnKept
<1> QED BY <1>9, <1>10, <1>11, <1>12

(* Pools are closed, and leave the map, together.                            *)
LEMMA CloseInv ==
    ASSUME PoolsInv, Close
    PROVE  PoolsInv'
<1> USE DEF PoolsInv, Close
<1>1. open' \subseteq Pools /\ closing' \in BOOLEAN /\ done' \in BOOLEAN
  BY Zenon DEF TypeOK
<1>2. UNCHANGED <<kind, servers, idx, seen, pc, target, pools>>
  BY DEF discoveryVars
<1>3. TypeOK'
  <2>1. UNCHANGED <<kind, backend, event, idx, fresh, fetched>>
    BY DEF discoveryVars
  <2>2. /\ servers' \in Lists /\ seen' \subseteq Addrs /\ events' \in 0..MaxEvents
        /\ update' \in [pending : BOOLEAN, list : Lists]
    BY DEF discoveryVars, TypeOK
  <2>3. /\ pc' \in [Goroutines -> PcValues]
        /\ target' \in [Users -> Addrs \cup {NoAddr}]
        /\ pools' \in [Addrs -> Pools \cup {NoPool}]
    BY <1>2 DEF TypeOK, PcValues
  <2> QED BY <1>1, <2>1, <2>2, <2>3, TypeOfClient
<1>4. MapInv'
  BY <1>2 DEF MapInv, OpenIsReachable, PoolsDistinct
<1>5. NoFetch'
  BY <1>2 DEF NoFetch
<1>6. TurnInv'
  BY <1>2, TurnKept
<1> QED BY <1>3, <1>4, <1>5, <1>6

(* UpdateServers replaces the list and begins a new turn.                   *)
LEMMA UpdateServersInv ==
    ASSUME PoolsInv, UpdateServers
    PROVE  PoolsInv'
<1> USE DEF PoolsInv, UpdateServers
<1>1. PICK l \in Lists : /\ servers' = l /\ seen' = {}
                         /\ update' = [pending |-> TRUE, list |-> l]
  BY Zenon DEF Update
<1>2. /\ UNCHANGED <<kind, backend, event, idx, fresh, fetched>>
      /\ UNCHANGED <<pc, target, pools, open, closing, done>>
  OBVIOUS
<1>3. update' \in [pending : BOOLEAN, list : Lists]
  BY <1>1
<1>4. events' \in 0..MaxEvents
  BY Counted DEF TypeOK
<1>5. TypeOK'
  <2>1. closing' \in BOOLEAN /\ done' \in BOOLEAN
    BY <1>2, Zenon DEF TypeOK
  <2>2. /\ pc' \in [Goroutines -> PcValues]
        /\ target' \in [Users -> Addrs \cup {NoAddr}]
        /\ pools' \in [Addrs -> Pools \cup {NoPool}] /\ open' \subseteq Pools
    BY <1>2 DEF TypeOK, PcValues
  <2>3. servers' \in Lists /\ seen' \subseteq Addrs
    BY <1>1
  <2> QED BY <1>2, <1>3, <1>4, <2>1, <2>2, <2>3, TypeOfClient
<1>6. MapInv'
  BY <1>2 DEF MapInv, OpenIsReachable, PoolsDistinct
<1>7. NoFetch'
  BY <1>2 DEF NoFetch
<1>8. TurnInv'
  <2>1. servers' \in Lists /\ idx' \in Nat /\ seen' = {}
    BY <1>1, <1>2 DEF TypeOK
  <2> QED BY <2>1, TurnBegins
<1> QED BY <1>5, <1>6, <1>7, <1>8

(* A pool that is closed leaves the map, and no other pool does.            *)
LEMMA PrunePoolsInv ==
    ASSUME PoolsInv, PrunePools
    PROVE  PoolsInv'
<1> USE DEF PoolsInv
<1> DEFINE gone == Addrs \ Range(update.list)
<1>1. /\ open' = open \ {pools[a] : a \in gone}
      /\ pools' = [a \in Addrs |-> IF a \in gone THEN NoPool ELSE pools[a]]
      /\ update' = NoUpdate
  BY SMTT(30) DEF PrunePools
<1>2. /\ UNCHANGED <<kind, backend, event, idx, fresh, fetched>>
      /\ UNCHANGED <<servers, seen, events, pc, target, closing, done>>
  BY DEF PrunePools, discoveryVars
<1> HIDE DEF gone
<1>3. pools \in [Addrs -> Pools \cup {NoPool}] /\ open \subseteq Pools
  BY DEF TypeOK
<1>4. pools' \in [Addrs -> Pools \cup {NoPool}] /\ open' \subseteq Pools
  BY <1>1, <1>3
<1>5. TypeOK'
  <2>1. closing' \in BOOLEAN /\ done' \in BOOLEAN
    BY <1>2, Zenon DEF TypeOK
  <2>2. /\ servers' \in Lists /\ seen' \subseteq Addrs /\ events' \in 0..MaxEvents
        /\ pc' \in [Goroutines -> PcValues]
        /\ target' \in [Users -> Addrs \cup {NoAddr}]
    BY <1>2 DEF TypeOK, PcValues
  <2>3. update' \in [pending : BOOLEAN, list : Lists]
    BY <1>1, ShortLists DEF NoUpdate
  <2> QED BY <1>2, <1>4, <2>1, <2>2, <2>3, TypeOfClient
<1>6. OpenIsReachable'
  <2> SUFFICES ASSUME NEW p \in open'
               PROVE  \E a \in Addrs : pools'[a] = p
    BY DEF OpenIsReachable
  <2>1. PICK a \in Addrs : pools[a] = p
    BY <1>1 DEF MapInv, OpenIsReachable
  <2>2. a \notin gone
    BY <1>1, <2>1
  <2> QED BY <1>1, <2>1, <2>2
<1>7. PoolsDistinct'
  BY <1>1 DEF MapInv, PoolsDistinct
<1>8. MapInv'
  BY <1>2, <1>6, <1>7 DEF MapInv
<1>9. NoFetch'
  BY <1>2 DEF NoFetch
<1>10. TurnInv'
  BY <1>2, TurnKept
<1> QED BY <1>5, <1>8, <1>9, <1>10
-----------------------------------------------------------------------------
(* One step per action of Next.                                              *)
LEMMA NextPools == PoolsInv /\ [Next]_vars => PoolsInv'
<1> SUFFICES ASSUME PoolsInv, [Next]_vars
             PROVE  PoolsInv'
  OBVIOUS
<1>1. Users \subseteq Goroutines /\ Watcher \in Goroutines
  BY DEF Goroutines
<1>2. ASSUME NEW g \in Goroutines, Discover(Refresh(g))
      PROVE  PoolsInv'
  BY <1>2, FetchInv, FetchFailsInv, StoreListInv DEF Discover, Refresh
<1>3. ASSUME NEW g \in Users, User(g) \/ Discover(GetAll(g))
      PROVE  PoolsInv'
  <2>1. CASE Discover(Refresh(g))
    BY <1>1, <1>2, <2>1
  <2>2. CASE Discover(Get(g))
    BY <2>2, GetRefreshesInv, SelectInv DEF Discover, Get
  <2>3. CASE FindPool(g)
    BY <2>3, FindPoolInv
  <2>4. CASE Discover(GetAll(g))
    BY <2>4, GetAllInv DEF Discover
  <2> QED BY <1>3, <2>1, <2>2, <2>3, <2>4 DEF User, Discover
<1>4. CASE HeartbeatEnds
  BY <1>4, HeartbeatEndsInv
<1>5. CASE Watching
  <2>1. CASE Discover(Refresh(Watcher))
    BY <1>1, <1>2, <2>1
  <2>2. CASE Discover(Watch)
    BY <2>2, WatchInv DEF Discover
  <2> QED BY <1>5, <2>1, <2>2 DEF Watching, Discover
<1>6. CASE Discover(Expire) \/ Discover(Change)
  BY <1>6, OutsideInv DEF Discover
<1>7. CASE Close
  BY <1>7, CloseInv
<1>8. CASE UpdateServers
  BY <1>8, UpdateServersInv
<1>9. CASE PrunePools
  BY <1>9, PrunePoolsInv
<1>10. CASE UNCHANGED vars
  <2>1. /\ UNCHANGED <<kind, backend, event, servers, idx, fresh, seen, pc, target>>
        /\ UNCHANGED <<fetched, events>> /\ UNCHANGED <<pools, open>> /\ UNCHANGED poolVars
    BY <1>10 DEF vars, discoveryVars, poolVars
  <2>2. TypeOK'
    BY <2>1, Zenon DEF PoolsInv, TypeOK, poolVars
  <2>3. MapInv'
    BY <2>1, MapKept DEF PoolsInv, MapInv
  <2>4. NoFetch' /\ TurnInv'
    BY <2>1, TurnKept DEF PoolsInv, NoFetch
  <2> QED BY <2>2, <2>3, <2>4 DEF PoolsInv
<1> QED BY <1>3, <1>4, <1>5, <1>6, <1>7, <1>8, <1>9, <1>10 DEF Next

(* The invariant holds in every reachable state.                             *)
THEOREM PoolsInvariance == Spec => []PoolsInv
<1> QED BY InitPools, NextPools, PTL DEF Spec

(* Every variable has its type, whatever Lookup, Create, Refresh and Update  *)
(* interleave to.                                                            *)
THEOREM PoolsTypeCorrect == Spec => []TypeOK
<1>1. PoolsInv => TypeOK
  BY DEF PoolsInv
<1> QED BY <1>1, PoolsInvariance, PTL

(* An open pool is in c.pools: no pool is lost by two goroutines that both   *)
(* found none for a server, or by UpdateServers between a look and a look.   *)
THEOREM PoolsReachable == Spec => []OpenIsReachable
<1>1. PoolsInv => OpenIsReachable
  BY DEF PoolsInv, MapInv
<1> QED BY <1>1, PoolsInvariance, PTL

(* No two servers share a pool: the pool UpdateServers closes for a server   *)
(* that left the list is no other server's.                                  *)
THEOREM PoolsNotShared == Spec => []PoolsDistinct
<1>1. PoolsInv => PoolsDistinct
  BY DEF PoolsInv, MapInv
<1> QED BY <1>1, PoolsInvariance, PTL

-----------------------------------------------------------------------------
(* Who begins to look a pool up has just selected a server.                  *)
LEMMA LookupFollowsSelect ==
    ASSUME PoolsInv, Next, NEW g \in Invokers, pc[g] = "idle", pc'[g] = "lookup"
    PROVE  Select(g)
<1>1. /\ pc \in [Goroutines -> PcValues] /\ g \in Goroutines /\ g \in Users
      /\ Users \subseteq Goroutines /\ Watcher \in Goroutines /\ Heartbeat \in Goroutines
  BY DEF PoolsInv, TypeOK, PcValues, Goroutines, Users
<1>2. \A h \in Goroutines, place \in PcValues :
          GoTo(h, place) => pc'[g] = pc[g] \/ (h = g /\ pc'[g] = place)
  BY <1>1 DEF GoTo
<1>3. "lookup" # "idle"
  OBVIOUS
<1>4. ASSUME NEW h \in Goroutines, NEW place \in PcValues, GoTo(h, place)
      PROVE  h = g /\ place = "lookup"
  BY <1>2, <1>3, <1>4
<1>5. ~UNCHANGED pc
  BY <1>3
<1>6. ASSUME NEW h \in Goroutines, Refresh(h)
      PROVE  FALSE
  <2>1. PICK place \in {"store", "idle", "pick"} : GoTo(h, place)
    BY <1>6 DEF Refresh, Fetch, FetchFails, StoreList
  <2> QED BY <1>4, <2>1 DEF PcValues
<1>7. ASSUME NEW h \in Users, GetRefreshes(h) \/ GetAll(h) \/ FindPool(h)
      PROVE  FALSE
  <2>1. PICK place \in {"fetch", "idle", "create"} : GoTo(h, place)
    BY <1>7 DEF GetRefreshes, GetAll, FindPool, Lookup, Create, Proceed
  <2> QED BY <1>1, <1>4, <2>1 DEF PcValues
<1>8. ASSUME NEW h \in Users, Select(h)
      PROVE  h = g
  <2>1. PICK place \in {"idle", "lookup"} : GoTo(h, place)
    BY <1>8 DEF Select
  <2> QED BY <1>1, <1>4, <2>1 DEF PcValues
<1>9. ~HeartbeatEnds
  BY <1>1, <1>4 DEF HeartbeatEnds, PcValues
<1>10. ~Watching
  <2>1. ~Watch
    BY <1>1, <1>4 DEF Watch, PcValues
  <2> QED BY <1>1, <1>6, <2>1 DEF Watching, Discover
<1>11. ~Discover(Expire) /\ ~Discover(Change) /\ ~UpdateServers
  BY <1>5, SMTT(30) DEF Discover, Expire, Change, UpdateServers
<1>12. ~Close /\ ~PrunePools
  BY <1>5 DEF Close, PrunePools, discoveryVars
<1>13. PICK h \in Users : User(h) \/ Discover(GetAll(h))
  BY <1>9, <1>10, <1>11, <1>12 DEF Next
<1>14. Select(h)
  BY <1>1, <1>6, <1>7, <1>13 DEF User, Discover, Get
<1> QED BY <1>8, <1>14

(* In a fixed list each server gets its turn: Get never selects a server a   *)
(* second time before the others, also after an Update that left idx beyond  *)
(* the end of the list, and however many goroutines select.                  *)
THEOREM ServersInTurn == Spec => EachInTurn
<1>1. ASSUME PoolsInv, [Next]_vars, NEW g \in Invokers,
             pc[g] = "idle", pc'[g] = "lookup", kind = "direct", Len(servers) > 1
      PROVE  seen' # seen
  <2>1. Next
    BY <1>1 DEF vars, discoveryVars
  <2>2. Select(g) /\ g # Heartbeat
    BY <1>1, <2>1, LookupFollowsSelect, ClientPoolsAssumption
  <2>3. servers # <<>>
    BY <1>1
  <2>4. RoundRobin(g)
    BY <2>2, <2>3 DEF Select
  <2>5. /\ idx' = After(idx, Len(servers))
        /\ seen' = Turn(servers[At(idx, Len(servers)) + 1])
    BY <1>1, <2>4 DEF RoundRobin
  <2> QED BY <1>1, <2>3, <2>5, Selected DEF PoolsInv
<1>2. PoolsInv /\ [Next]_vars =>
        [\A g \in Invokers :
           (pc[g] = "idle" /\ pc'[g] = "lookup" /\ kind = "direct"
              /\ Len(servers) > 1) => seen' # seen]_vars
  BY <1>1
<1> QED BY <1>2, PoolsInvariance, PTL DEF Spec, EachInTurn
=============================================================================

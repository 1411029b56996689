---------------------------- MODULE MemoryLemmas -----------------------------
(* What the operators of the memory model do: the pool and its references,   *)
(* sequences of buffers and the Reader's rounds, the metadata and payload of *)
(* messages, and the timeout header.  Nothing here depends on a behaviour.   *)
EXTENDS BufferSlices, Message, Timeout, FiniteSetTheorems, TLAPS

(* Zenon proves what needs no arithmetic; the other leaves name SMT.         *)
USE Zenon

-----------------------------------------------------------------------------
(* Loops.                                                                    *)

(* Induction up to n, from the pigeonhole principle: if n were missing, the  *)
(* successor would map the part of T below n into itself without 0.          *)
LEMMA Reaches ==
    ASSUME NEW n \in Nat, NEW T, 0 \in T, \A i \in 0..(n - 1) : i \in T => i + 1 \in T
    PROVE  n \in T
<1> SUFFICES ASSUME n \notin T
             PROVE  FALSE
  OBVIOUS
<1> DEFINE U == T \cap (0..n)
           next == [i \in U |-> i + 1]
<1>1. IsFiniteSet(U)
  <2>1. 0 \in Int /\ n \in Int
    BY SMT
  <2>2. IsFiniteSet(0..n)
    BY <2>1, FS_Interval
  <2>3. U \in SUBSET (0..n)
    OBVIOUS
  <2> HIDE DEF U
  <2> QED BY <2>2, <2>3, FS_Subset
<1>2. ASSUME NEW i \in U
      PROVE  i + 1 \in U \ {0} /\ next[i] = i + 1 /\ i \in Nat
  BY <1>2, SMT
<1>3. next \in Injection(U, U \ {0})
  <2>1. next \in [U -> U \ {0}]
    BY <1>2
  <2>2. \A i, j \in U : next[i] = next[j] => i = j
    <3> HIDE DEF next, U
    <3> QED BY <1>2, SMT
  <2> HIDE DEF next, U
  <2> QED BY <2>1, <2>2 DEF Injection, IsInjective
<1>4. 0 \in U
  BY SMT
<1> HIDE DEF U, next
<1>5. IsFiniteSet(U \ {0}) /\ Cardinality(U \ {0}) = Cardinality(U) - 1
  BY <1>1, <1>4, FS_RemoveElement
<1>6. Cardinality(U) <= Cardinality(U \ {0})
  BY <1>3, <1>5, FS_Injection
<1>7. Cardinality(U) \in Nat
  BY <1>1, FS_CardinalityType
<1> QED BY <1>5, <1>6, <1>7, SMT

(* A round after the i-th of n.                                              *)
LEMMA Successor ==
    ASSUME NEW n \in Nat, NEW i \in 0..(n - 1)
    PROVE  i + 1 \in 1..n /\ i + 1 \in 0..n /\ (i + 1) - 1 = i
BY SMT

(* The states f of a loop of n rounds F from b.                              *)
Follows(f, F, b, n) == f[0] = b /\ \A i \in 1..n : f[i] = F[<<i, f[i - 1]>>]

(* A loop with n rounds has a sequence of states, if its rounds stay in S.   *)
LEMMA Iterates ==
    ASSUME NEW n \in Nat, NEW S, NEW b \in S, NEW F \in [(1..n) \X S -> S]
    PROVE  \E f \in [0..n -> S] : Follows(f, F, b, n)
<1> DEFINE Run(f, m) == f[0] = b /\ \A i \in 1..m : f[i] = F[<<i, f[i - 1]>>]
           T == {m \in 0..n : \E f \in [0..m -> S] : Run(f, m)}
<1>1. 0 \in T
  <2> DEFINE f == [i \in 0..0 |-> b]
  <2>1. f \in [0..0 -> S] /\ Run(f, 0)
    BY SMT
  <2>2. 0 \in 0..n
    BY SMT
  <2> HIDE DEF f, Run
  <2> QED BY <2>1, <2>2
<1>2. ASSUME NEW m \in 0..(n - 1), m \in T
      PROVE  m + 1 \in T
  <2>1. PICK f \in [0..m -> S] : Run(f, m)
    BY <1>2
  <2> DEFINE last == F[<<m + 1, f[m]>>]
             g == [i \in 0..(m + 1) |-> IF i = m + 1 THEN last ELSE f[i]]
  <2>2. last \in S
    BY SMT
  <2> HIDE DEF last
  <2>3. g \in [0..(m + 1) -> S]
    BY <2>2, SMT
  <2>4. g[m + 1] = last /\ \A i \in 0..m : g[i] = f[i]
    BY SMT
  <2> HIDE DEF g
  <2>5. g[m] = f[m] /\ g[m + 1] = F[<<m + 1, f[m]>>]
    BY <2>4, SMT DEF last
  <2>6. g[0] = b /\ \A i \in 1..m : g[i] = F[<<i, g[i - 1]>>]
    BY <2>1, <2>4, SMT
  <2>7. Run(g, m + 1)
    <3>1. ASSUME NEW i \in 1..(m + 1)
          PROVE  g[i] = F[<<i, g[i - 1]>>]
      <4>1. CASE i = m + 1
        <5>1. i - 1 = m
          BY <4>1, SMT
        <5> QED BY <4>1, <5>1, <2>5
      <4>2. CASE i \in 1..m
        BY <4>2, <2>6
      <4> QED BY <4>1, <4>2, SMT
    <3> QED BY <3>1, <2>6
  <2>8. m + 1 \in 0..n
    BY SMT
  <2> HIDE DEF Run
  <2> QED BY <2>3, <2>7, <2>8
<1>3. n \in T
  <2> HIDE DEF T
  <2> QED BY <1>1, <1>2, Reaches
<1> QED BY <1>3 DEF Follows

-----------------------------------------------------------------------------
(* The pool.                                                                 *)

Heaps(D) ==
    [cap : [Slices -> Nat], class : [Slices -> 0..Len(ClassSizes)],
     refs : [Slices -> Int], data : [Slices -> D]]

(* What every call of the package keeps of the heap: a slice that is not     *)
(* there is not counted and not pooled, none is smaller than the smallest    *)
(* class, and a slice in the pool has no reference and fits its class.       *)
Sound(h) ==
    \A s \in Slices :
        /\ h.refs[s] >= 0
        /\ h.cap[s] = 0 => h.refs[s] = 0 /\ h.class[s] = 0
        /\ h.cap[s] > 0 => h.cap[s] >= ClassSizes[1]
        /\ h.class[s] > 0 => h.refs[s] = 0 /\ h.cap[s] >= ClassSizes[h.class[s]]

\* g differs from h at most at s.
SameBut(g, h, s) ==
    \A x \in Slices \ {s} : /\ g.cap[x] = h.cap[x] /\ g.class[x] = h.class[x]
                            /\ g.refs[x] = h.refs[x] /\ g.data[x] = h.data[x]

(* Sizes of classes.                                                         *)
LEMMA ClassFacts ==
    /\ Len(ClassSizes) \in Nat \ {0} /\ 1 \in Classes /\ Len(ClassSizes) \in Classes
    /\ \A c \in Classes : ClassSizes[c] \in Nat \ {0}
    /\ \A c \in Classes : ClassSizes[1] <= ClassSizes[c] /\ ClassSizes[c] <= MaxSize
    /\ MaxSize \in Nat \ {0}
<1>1. Len(ClassSizes) \in Nat \ {0}
  BY BuffersAssumption, SMT
<1>2. 1 \in Classes /\ Len(ClassSizes) \in Classes
  BY <1>1, SMT DEF Classes
<1>3. \A c \in Classes : ClassSizes[c] \in Nat \ {0}
  BY BuffersAssumption, SMT DEF Classes
<1>4. \A c \in Classes : ClassSizes[1] <= ClassSizes[c] /\ ClassSizes[c] <= MaxSize
  <2> SUFFICES ASSUME NEW c \in Classes
               PROVE  ClassSizes[1] <= ClassSizes[c] /\ ClassSizes[c] <= MaxSize
    OBVIOUS
  <2>1. c = 1 \/ 1 < c
    BY SMT DEF Classes
  <2>2. c = Len(ClassSizes) \/ c < Len(ClassSizes)
    BY <1>1, SMT DEF Classes
  <2>3. 1 < c => ClassSizes[1] < ClassSizes[c]
    BY <1>2, BuffersAssumption DEF Classes
  <2>4. c < Len(ClassSizes) => ClassSizes[c] < ClassSizes[Len(ClassSizes)]
    BY <1>2, BuffersAssumption DEF Classes
  <2> QED BY <2>1, <2>2, <2>3, <2>4, <1>2, <1>3, SMT DEF MaxSize
<1> QED BY <1>1, <1>2, <1>3, <1>4 DEF MaxSize

(* Get asks a class whose slices are large enough, or none.                  *)
LEMMA BestFit ==
    ASSUME NEW size \in Nat
    PROVE  \/ FindBestFit(size) = 0 /\ size > MaxSize
           \/ FindBestFit(size) \in Classes /\ size <= ClassSizes[FindBestFit(size)]
<1>1. CASE size > MaxSize
  BY <1>1 DEF FindBestFit
<1>2. CASE ~(size > MaxSize)
  <2> DEFINE n == Len(ClassSizes)
             Best(c) == size <= ClassSizes[c] /\ \A e \in 1..(c - 1) : ClassSizes[e] < size
             T == {i \in 0..n : \A e \in 1..i : ClassSizes[e] < size}
  <2>1. \E c \in Classes : Best(c)
    <3> SUFFICES ASSUME \A c \in Classes : ~Best(c)
                 PROVE  FALSE
      OBVIOUS
    <3>1. 0 \in T
      BY ClassFacts, SMT
    <3>2. ASSUME NEW i \in 0..(n - 1), i \in T
          PROVE  i + 1 \in T
      <4>1. i + 1 \in Classes /\ (i + 1) - 1 = i /\ ClassSizes[i + 1] \in Nat
        BY ClassFacts, SMT DEF Classes
      <4>2. ClassSizes[i + 1] < size
        BY <4>1, <3>2, SMT
      <4>3. \A e \in 1..(i + 1) : e = i + 1 \/ e \in 1..i
        BY SMT
      <4> QED BY <4>1, <4>2, <4>3, <3>2, ClassFacts, SMT
    <3>3. n \in T
      <4> HIDE DEF T
      <4> QED BY <3>1, <3>2, ClassFacts, Reaches
    <3>4. ClassSizes[n] < size
      BY <3>3, ClassFacts, SMT
    <3> QED BY <3>4, <1>2, ClassFacts DEF MaxSize
  <2> QED BY <1>2, <2>1 DEF FindBestFit
<1> QED BY <1>1, <1>2

(* Put finds a class that is not larger than the slice.                      *)
LEMMA Closest ==
    ASSUME NEW size \in Nat, size >= ClassSizes[1]
    PROVE  FindClosest(size) \in Classes /\ ClassSizes[FindClosest(size)] <= size
<1> DEFINE n == Len(ClassSizes)
           Best(c) == /\ ClassSizes[c] <= size
                      /\ \A e \in (c + 1)..n : size < ClassSizes[e]
           T == {i \in 0..n : \A e \in (n - i + 1)..n : size < ClassSizes[e]}
<1>1. \E c \in Classes : Best(c)
  <2> SUFFICES ASSUME \A c \in Classes : ~Best(c)
               PROVE  FALSE
    OBVIOUS
  <2>1. 0 \in T
    BY ClassFacts, SMT
  <2>2. ASSUME NEW i \in 0..(n - 1), i \in T
        PROVE  i + 1 \in T
    <3> DEFINE c == n - i
    <3>1. c \in Classes /\ n - (i + 1) + 1 = c /\ ClassSizes[c] \in Nat
      BY ClassFacts, SMT DEF Classes
    <3>2. \A e \in (c + 1)..n : size < ClassSizes[e]
      BY <2>2
    <3>3. size < ClassSizes[c]
      BY <3>1, <3>2, SMT
    <3>4. \A e \in c..n : e = c \/ e \in (c + 1)..n
      <4>1. c \in Int /\ n \in Int
        BY ClassFacts, SMT
      <4> HIDE DEF c, n
      <4> QED BY <4>1, SMT
    <3>5. i + 1 \in 0..n
      BY ClassFacts, SMT
    <3> HIDE DEF c
    <3> QED BY <3>1, <3>2, <3>3, <3>4, <3>5
  <2>3. n \in T
    <3> HIDE DEF T
    <3> QED BY <2>1, <2>2, ClassFacts, Reaches
  <2>4. \A e \in (n - n + 1)..n : size < ClassSizes[e]
    BY <2>3
  <2>5. size < ClassSizes[1]
    BY <2>4, ClassFacts, SMT
  <2> QED BY <2>5, ClassFacts, SMT
<1>2. FindClosest(size) = CHOOSE c \in Classes : Best(c)
  BY ClassFacts, SMT DEF FindClosest
<1> QED BY <1>1, <1>2

(* Updates of a heap.                                                        *)
LEMMA HeapParts ==
    ASSUME NEW D, NEW h \in Heaps(D), NEW s \in Slices
    PROVE  /\ \A n \in Nat : [h EXCEPT !.cap[s] = n] \in Heaps(D)
           /\ \A c \in 0..Len(ClassSizes) : [h EXCEPT !.class[s] = c] \in Heaps(D)
           /\ \A n \in Int : [h EXCEPT !.refs[s] = n] \in Heaps(D)
           /\ \A e \in D : [h EXCEPT !.data[s] = e] \in Heaps(D)
           /\ \A e \in D : [h EXCEPT !.cap[s] = 0, !.class[s] = 0, !.data[s] = e] \in Heaps(D)
<1> DEFINE A == Nat
           B == 0..Len(ClassSizes)
           C == Int
<1>1. 0 \in A /\ 0 \in B
  BY ClassFacts, SMT
<1>2. Heaps(D) = [cap : [Slices -> A], class : [Slices -> B], refs : [Slices -> C], data : [Slices -> D]]
  BY DEF Heaps
<1> HIDE DEF A, B, C
<1>3. \A n \in A : [h EXCEPT !.cap[s] = n] \in Heaps(D)
  BY <1>2
<1>4. \A c \in B : [h EXCEPT !.class[s] = c] \in Heaps(D)
  BY <1>2
<1>5. \A n \in C : [h EXCEPT !.refs[s] = n] \in Heaps(D)
  BY <1>2
<1>6. \A e \in D : [h EXCEPT !.data[s] = e] \in Heaps(D)
  BY <1>2
<1>7. \A e \in D : [h EXCEPT !.cap[s] = 0, !.class[s] = 0, !.data[s] = e] \in Heaps(D)
  BY <1>1, <1>2
<1> QED BY <1>3, <1>4, <1>5, <1>6, <1>7 DEF A, B, C

(* Put: the slice is in a class it fits, or gone.                            *)
LEMMA PutSound ==
    ASSUME NEW D, Blank \in D, NEW h \in Heaps(D), Sound(h),
           NEW s \in Slices, h.refs[s] = 0, h.cap[s] > 0
    PROVE  /\ Put(h, s) \in Heaps(D) /\ Sound(Put(h, s))
           /\ Put(h, s).refs = h.refs
           /\ SameBut(Put(h, s), h, s)
<1>1. CASE h.cap[s] > MaxSize
  <2> DEFINE g == [h EXCEPT !.cap[s] = 0, !.class[s] = 0, !.data[s] = Blank]
  <2>1. Put(h, s) = g
    BY <1>1 DEF Put, Drop
  <2>2. g \in Heaps(D)
    BY HeapParts
  <2>3. /\ g.refs = h.refs /\ g.cap[s] = 0 /\ g.class[s] = 0
        /\ \A x \in Slices \ {s} : /\ g.cap[x] = h.cap[x] /\ g.class[x] = h.class[x]
                                  /\ g.data[x] = h.data[x]
    BY DEF Heaps
  <2> HIDE DEF g
  <2>4. Sound(g)
    <3> SUFFICES ASSUME NEW x \in Slices
                 PROVE  /\ g.refs[x] >= 0
                        /\ g.cap[x] = 0 => g.refs[x] = 0 /\ g.class[x] = 0
                        /\ g.cap[x] > 0 => g.cap[x] >= ClassSizes[1]
                        /\ g.class[x] > 0 => g.refs[x] = 0 /\ g.cap[x] >= ClassSizes[g.class[x]]
      BY DEF Sound
    <3>1. CASE x = s
      BY <3>1, <2>3, SMT
    <3>2. CASE x # s
      BY <3>2, <2>3 DEF Sound
    <3> QED BY <3>1, <3>2
  <2> QED BY <2>1, <2>2, <2>3, <2>4 DEF SameBut
<1>2. CASE ~(h.cap[s] > MaxSize)
  <2> DEFINE c == FindClosest(h.cap[s])
             g == [h EXCEPT !.class[s] = c]
  <2>1. Put(h, s) = g
    BY <1>2 DEF Put
  <2>2. c \in Classes /\ ClassSizes[c] <= h.cap[s]
    <3>1. h.cap[s] \in Nat /\ h.cap[s] >= ClassSizes[1]
      BY DEF Heaps, Sound
    <3> QED BY <3>1, Closest
  <2> HIDE DEF c
  <2>3. g \in Heaps(D)
    <3>1. c \in 0..Len(ClassSizes)
      BY <2>2, ClassFacts, SMT DEF Classes
    <3> QED BY <3>1, HeapParts
  <2>4. /\ g.refs = h.refs /\ g.cap = h.cap /\ g.data = h.data /\ g.class[s] = c
        /\ \A x \in Slices \ {s} : g.class[x] = h.class[x]
    BY DEF Heaps
  <2> HIDE DEF g
  <2>5. Sound(g)
    <3> SUFFICES ASSUME NEW x \in Slices
                 PROVE  /\ g.refs[x] >= 0
                        /\ g.cap[x] = 0 => g.refs[x] = 0 /\ g.class[x] = 0
                        /\ g.cap[x] > 0 => g.cap[x] >= ClassSizes[1]
                        /\ g.class[x] > 0 => g.refs[x] = 0 /\ g.cap[x] >= ClassSizes[g.class[x]]
      BY DEF Sound
    <3>1. CASE x = s
      <4>1. h.cap[s] \in Nat /\ h.cap[s] # 0 /\ ClassSizes[c] \in Nat
        BY <2>2, ClassFacts, SMT DEF Heaps
      <4> QED BY <3>1, <4>1, <2>2, <2>4 DEF Sound
    <3>2. CASE x # s
      BY <3>2, <2>4 DEF Sound
    <3> QED BY <3>1, <3>2
  <2> QED BY <2>1, <2>3, <2>4, <2>5 DEF SameBut
<1> QED BY <1>1, <1>2

(* Get gives a slice nobody has, which is as large as was asked for.         *)
LEMMA GetSound ==
    ASSUME NEW D, NEW h \in Heaps(D), Sound(h), NEW size \in Nat, NEW g \in Get(h, size)
    PROVE  /\ g.slice \in Slices /\ g.heap \in Heaps(D) /\ Sound(g.heap)
           /\ h.refs[g.slice] = 0 /\ (h.class[g.slice] > 0 \/ h.cap[g.slice] = 0)
           /\ g.heap.refs = h.refs /\ g.heap.data = h.data
           /\ g.heap.class[g.slice] = 0
           /\ g.heap.cap[g.slice] > 0 /\ g.heap.cap[g.slice] >= size
           /\ SameBut(g.heap, h, g.slice)
<1> DEFINE c == FindBestFit(size)
<1>1. ASSUME NEW n \in Nat \ {0}, n >= ClassSizes[1], n >= size, g \in Make(h, n)
      PROVE  /\ g.slice \in Slices /\ h.cap[g.slice] = 0
             /\ g.heap = [h EXCEPT !.cap[g.slice] = n]
  <2>1. ~\A s \in Slices : h.cap[s] > 0
    BY <1>1 DEF Make
  <2>2. \E x \in Slices : h.cap[x] = 0
    BY <2>1, SMT DEF Heaps
  <2> DEFINE s == CHOOSE x \in Slices : h.cap[x] = 0
  <2>3. s \in Slices /\ h.cap[s] = 0
    BY <2>2
  <2>4. g = [slice |-> s, heap |-> [h EXCEPT !.cap[s] = n]]
    BY <2>1, <1>1 DEF Make
  <2> HIDE DEF s
  <2> QED BY <2>3, <2>4
<1>2. ASSUME NEW n \in Nat \ {0}, n >= ClassSizes[1], n >= size, g \in Make(h, n)
      PROVE  /\ g.slice \in Slices /\ g.heap \in Heaps(D) /\ Sound(g.heap)
             /\ h.refs[g.slice] = 0 /\ (h.class[g.slice] > 0 \/ h.cap[g.slice] = 0)
             /\ g.heap.refs = h.refs /\ g.heap.data = h.data
             /\ g.heap.class[g.slice] = 0
             /\ g.heap.cap[g.slice] > 0 /\ g.heap.cap[g.slice] >= size
             /\ SameBut(g.heap, h, g.slice)
  <2> DEFINE s == g.slice
             f == g.heap
  <2>1. s \in Slices /\ h.cap[s] = 0 /\ f = [h EXCEPT !.cap[s] = n]
    BY <1>1, <1>2
  <2> HIDE DEF s, f
  <2>2. f \in Heaps(D)
    BY <2>1 DEF Heaps
  <2>3. /\ f.refs = h.refs /\ f.class = h.class /\ f.data = h.data /\ f.cap[s] = n
        /\ \A x \in Slices \ {s} : f.cap[x] = h.cap[x]
    BY <2>1 DEF Heaps
  <2>4. h.refs[s] = 0 /\ h.class[s] = 0
    BY <2>1 DEF Sound
  <2>5. Sound(f)
    <3> SUFFICES ASSUME NEW x \in Slices
                 PROVE  /\ f.refs[x] >= 0
                        /\ f.cap[x] = 0 => f.refs[x] = 0 /\ f.class[x] = 0
                        /\ f.cap[x] > 0 => f.cap[x] >= ClassSizes[1]
                        /\ f.class[x] > 0 => f.refs[x] = 0 /\ f.cap[x] >= ClassSizes[f.class[x]]
      BY DEF Sound
    <3>1. CASE x = s
      BY <3>1, <1>2, <2>3, <2>4, SMT
    <3>2. CASE x # s
      BY <3>2, <2>3 DEF Sound
    <3> QED BY <3>1, <3>2
  <2>6. SameBut(f, h, s)
    BY <2>3 DEF SameBut
  <2> QED BY <1>2, <2>1, <2>2, <2>3, <2>4, <2>5, <2>6, SMT DEF s, f
<1>3. CASE c = 0
  <2>1. g \in Make(h, size) /\ size > MaxSize
    BY <1>3, BestFit, ClassFacts, SMT DEF Get, Classes
  <2>2. size \in Nat \ {0} /\ size >= ClassSizes[1] /\ size >= size
    BY <2>1, ClassFacts, SMT
  <2> QED BY <2>1, <2>2, <1>2
<1>4. CASE c # 0
  <2>1. c \in Classes /\ size <= ClassSizes[c]
    BY <1>4, BestFit
  <2>2. CASE g \in Make(h, ClassSizes[c])
    <3>1. ClassSizes[c] \in Nat \ {0} /\ ClassSizes[c] >= ClassSizes[1] /\ ClassSizes[c] >= size
      BY <2>1, ClassFacts
    <3> HIDE DEF c
    <3> QED BY <2>2, <3>1, <1>2
  <2>3. CASE g \notin Make(h, ClassSizes[c])
    <3>1. PICK s \in Slices : h.class[s] = c /\ g = [slice |-> s, heap |-> [h EXCEPT !.class[s] = 0]]
      BY <2>3, <1>4 DEF Get
    <3> DEFINE f == g.heap
    <3>2. g.slice = s /\ f = [h EXCEPT !.class[s] = 0]
      BY <3>1
    <3> HIDE DEF f
    <3>3. f \in Heaps(D)
      <4>1. 0 \in 0..Len(ClassSizes)
        BY ClassFacts, SMT
      <4> QED BY <3>2, <4>1, HeapParts
    <3>4. /\ f.refs = h.refs /\ f.cap = h.cap /\ f.data = h.data /\ f.class[s] = 0
          /\ \A x \in Slices \ {s} : f.class[x] = h.class[x]
      BY <3>2 DEF Heaps
    <3>5. h.class[s] > 0 /\ h.refs[s] = 0 /\ h.cap[s] >= ClassSizes[c] /\ h.cap[s] \in Nat
      BY <3>1, <2>1, SMT DEF Sound, Heaps, Classes
    <3>6. h.cap[s] > 0 /\ h.cap[s] >= size
      BY <3>5, <2>1, ClassFacts, SMT
    <3>7. Sound(f)
      <4> SUFFICES ASSUME NEW x \in Slices
                   PROVE  /\ f.refs[x] >= 0
                          /\ f.cap[x] = 0 => f.refs[x] = 0 /\ f.class[x] = 0
                          /\ f.cap[x] > 0 => f.cap[x] >= ClassSizes[1]
                          /\ f.class[x] > 0 => f.refs[x] = 0 /\ f.cap[x] >= ClassSizes[f.class[x]]
        BY DEF Sound
      <4>1. CASE x = s
        BY <4>1, <3>4, <3>5, <3>6, SMT DEF Sound
      <4>2. CASE x # s
        BY <4>2, <3>4 DEF Sound
      <4> QED BY <4>1, <4>2
    <3>8. SameBut(f, h, s)
      BY <3>4 DEF SameBut
    <3> QED BY <3>2, <3>3, <3>4, <3>5, <3>6, <3>7, <3>8 DEF f
  <2> QED BY <2>2, <2>3
<1> QED BY <1>3, <1>4

(* One more reference to a slice in use.                                     *)
LEMMA NewBufferSound ==
    ASSUME NEW D, NEW h \in Heaps(D), Sound(h), NEW s \in Slices, h.class[s] = 0, h.cap[s] > 0,
           NEW g, g = NewBuffer(h, s)
    PROVE  /\ g \in Heaps(D) /\ Sound(g)
           /\ \A x \in Slices : g.refs[x] = h.refs[x] + (IF x = s THEN 1 ELSE 0)
           /\ g.cap = h.cap /\ g.class = h.class /\ g.data = h.data
<1>1. g = [h EXCEPT !.refs[s] = h.refs[s] + 1] /\ h.refs[s] + 1 \in Int
  BY SMT DEF NewBuffer, Heaps
<1>2. g \in Heaps(D)
  <2>1. \A n \in Int : [h EXCEPT !.refs[s] = n] \in Heaps(D)
    BY HeapParts
  <2> QED BY <1>1, <2>1
<1>3. /\ g.refs = [h.refs EXCEPT ![s] = @ + 1]
      /\ g.cap = h.cap /\ g.class = h.class /\ g.data = h.data
  BY DEF NewBuffer, Heaps
<1>4. Sound(g)
  <2> SUFFICES ASSUME NEW x \in Slices
               PROVE  /\ g.refs[x] >= 0
                      /\ g.cap[x] = 0 => g.refs[x] = 0 /\ g.class[x] = 0
                      /\ g.cap[x] > 0 => g.cap[x] >= ClassSizes[1]
                      /\ g.class[x] > 0 => g.refs[x] = 0 /\ g.cap[x] >= ClassSizes[g.class[x]]
    BY DEF Sound
  <2>1. h.refs \in [Slices -> Int]
    BY DEF Heaps
  <2>2. CASE x = s
    BY <2>1, <2>2, <1>3, SMT DEF Sound
  <2>3. CASE x # s
    BY <2>1, <2>3, <1>3 DEF Sound
  <2> QED BY <2>2, <2>3
<1>5. \A x \in Slices : g.refs[x] = h.refs[x] + (IF x = s THEN 1 ELSE 0)
  <2>1. h.refs \in [Slices -> Int]
    BY DEF Heaps
  <2> QED BY <1>3, <2>1, SMT
<1> QED BY <1>2, <1>3, <1>4, <1>5

(* Bytes written to a slice.                                                 *)
LEMMA WriteSound ==
    ASSUME NEW D, NEW h \in Heaps(D), Sound(h), NEW s \in Slices, NEW e \in D
    PROVE  /\ [h EXCEPT !.data[s] = e] \in Heaps(D) /\ Sound([h EXCEPT !.data[s] = e])
           /\ [h EXCEPT !.data[s] = e].refs = h.refs
           /\ [h EXCEPT !.data[s] = e].cap = h.cap
           /\ [h EXCEPT !.data[s] = e].class = h.class
           /\ [h EXCEPT !.data[s] = e].data = [h.data EXCEPT ![s] = e]
<1> DEFINE g == [h EXCEPT !.data[s] = e]
<1>1. g \in Heaps(D)
  BY HeapParts
<1>2. /\ g.refs = h.refs /\ g.cap = h.cap /\ g.class = h.class
      /\ g.data = [h.data EXCEPT ![s] = e]
  BY DEF Heaps
<1> HIDE DEF g
<1>3. Sound(g)
  BY <1>2 DEF Sound
<1> QED BY <1>1, <1>2, <1>3 DEF g

(* The collector and a slice nobody has.                                     *)
LEMMA DropSound ==
    ASSUME NEW D, Blank \in D, NEW h \in Heaps(D), Sound(h), NEW s \in Slices, h.refs[s] = 0
    PROVE  /\ Drop(h, s) \in Heaps(D) /\ Sound(Drop(h, s))
           /\ Drop(h, s).refs = h.refs /\ SameBut(Drop(h, s), h, s)
<1> DEFINE g == Drop(h, s)
<1>1. g \in Heaps(D)
  BY HeapParts DEF Drop
<1>2. /\ g.refs = h.refs /\ g.cap[s] = 0 /\ g.class[s] = 0
      /\ \A x \in Slices \ {s} : /\ g.cap[x] = h.cap[x] /\ g.class[x] = h.class[x]
                                /\ g.data[x] = h.data[x]
  BY DEF Drop, Heaps
<1> HIDE DEF g
<1>3. Sound(g)
  <2> SUFFICES ASSUME NEW x \in Slices
               PROVE  /\ g.refs[x] >= 0
                      /\ g.cap[x] = 0 => g.refs[x] = 0 /\ g.class[x] = 0
                      /\ g.cap[x] > 0 => g.cap[x] >= ClassSizes[1]
                      /\ g.class[x] > 0 => g.refs[x] = 0 /\ g.cap[x] >= ClassSizes[g.class[x]]
    BY DEF Sound
  <2>1. CASE x = s
    BY <2>1, <1>2, SMT
  <2>2. CASE x # s
    BY <2>2, <1>2 DEF Sound
  <2> QED BY <2>1, <2>2
<1> QED BY <1>1, <1>2, <1>3 DEF g, SameBut

(* Free takes one reference, and gives the slice back with the last one.     *)
LEMMA FreeSound ==
    ASSUME NEW D, Blank \in D, NEW h \in Heaps(D), Sound(h), NEW s \in Slices, h.refs[s] > 0
    PROVE  /\ Free(h, s) \in Heaps(D) /\ Sound(Free(h, s))
           /\ Free(h, s).refs = [h.refs EXCEPT ![s] = @ - 1]
           /\ SameBut(Free(h, s), h, s)
           /\ h.refs[s] > 1 => Free(h, s).data[s] = h.data[s]
<1> DEFINE g == [h EXCEPT !.refs[s] = @ - 1]
<1>1. g = [h EXCEPT !.refs[s] = h.refs[s] - 1] /\ h.refs[s] - 1 \in Int /\ s # NoSlice
  BY BuffersAssumption, SMT DEF Heaps
<1>2. g \in Heaps(D)
  BY <1>1, HeapParts
<1>3. /\ g.refs = [h.refs EXCEPT ![s] = @ - 1]
      /\ g.cap = h.cap /\ g.class = h.class /\ g.data = h.data
  BY DEF Heaps
<1>4. Free(h, s) = IF g.refs[s] > 0 THEN g ELSE Put(g, s)
  BY <1>1 DEF Free
<1> HIDE DEF g
<1>5. h.refs \in [Slices -> Int] /\ h.refs[s] \in Int /\ h.cap[s] \in Nat
      /\ h.class[s] \in 0..Len(ClassSizes) /\ g.refs[s] = h.refs[s] - 1
  BY <1>3 DEF Heaps
<1>6. h.cap[s] > 0 /\ h.class[s] = 0
  BY <1>5, ClassFacts, SMT DEF Sound
<1>7. Sound(g)
  <2> SUFFICES ASSUME NEW x \in Slices
               PROVE  /\ g.refs[x] >= 0
                      /\ g.cap[x] = 0 => g.refs[x] = 0 /\ g.class[x] = 0
                      /\ g.cap[x] > 0 => g.cap[x] >= ClassSizes[1]
                      /\ g.class[x] > 0 => g.refs[x] = 0 /\ g.cap[x] >= ClassSizes[g.class[x]]
    BY DEF Sound
  <2>1. CASE x = s
    BY <2>1, <1>3, <1>5, <1>6, SMT DEF Sound
  <2>2. CASE x # s
    BY <2>2, <1>3, <1>5 DEF Sound
  <2> QED BY <2>1, <2>2
<1>8. SameBut(g, h, s)
  BY <1>3, <1>5 DEF SameBut
<1>9. CASE g.refs[s] > 0
  BY <1>9, <1>2, <1>3, <1>4, <1>7, <1>8
<1>10. CASE ~(g.refs[s] > 0)
  <2>1. g.refs[s] = 0 /\ g.cap[s] > 0 /\ ~(h.refs[s] > 1)
    BY <1>10, <1>3, <1>5, <1>6, SMT
  <2>2. /\ Put(g, s) \in Heaps(D) /\ Sound(Put(g, s))
        /\ Put(g, s).refs = g.refs /\ SameBut(Put(g, s), g, s)
    BY <2>1, <1>2, <1>7, PutSound
  <2>3. SameBut(Put(g, s), h, s)
    BY <2>2, <1>8, ZenonT(60) DEF SameBut
  <2> QED BY <1>10, <2>1, <2>2, <2>3, <1>3, <1>4
<1> QED BY <1>9, <1>10

(* Free of a heap is a heap, whatever it counts.                             *)
LEMMA FreeType ==
    ASSUME NEW D, Blank \in D, NEW h \in Heaps(D), NEW s \in Slices \cup {NoSlice}
    PROVE  Free(h, s) \in Heaps(D) /\ Ref(h, s) \in Heaps(D)
<1>1. CASE s = NoSlice
  BY <1>1 DEF Free, Ref
<1>2. CASE s # NoSlice
  <2> DEFINE g == [h EXCEPT !.refs[s] = @ - 1]
  <2>1. s \in Slices /\ h.refs[s] - 1 \in Int /\ h.refs[s] + 1 \in Int
    BY <1>2, SMT DEF Heaps
  <2>2. g = [h EXCEPT !.refs[s] = h.refs[s] - 1]
        /\ [h EXCEPT !.refs[s] = @ + 1] = [h EXCEPT !.refs[s] = h.refs[s] + 1]
    BY <2>1 DEF Heaps
  <2>3. g \in Heaps(D) /\ [h EXCEPT !.refs[s] = @ + 1] \in Heaps(D)
    BY <2>1, <2>2, HeapParts
  <2>4. Free(h, s) = (IF g.refs[s] > 0 THEN g ELSE Put(g, s)) /\ Ref(h, s) = [h EXCEPT !.refs[s] = @ + 1]
    BY <1>2 DEF Free, Ref
  <2> HIDE DEF g
  <2>5. Put(g, s) \in Heaps(D)
    <3>1. CASE g.cap[s] > MaxSize
      BY <3>1, <2>1, <2>3, HeapParts DEF Put, Drop
    <3>2. CASE ~(g.cap[s] > MaxSize)
      <4>1. g.cap[s] \in Nat
        BY <2>1, <2>3 DEF Heaps
      <4>2. FindClosest(g.cap[s]) \in 0..Len(ClassSizes)
        <5>1. CASE g.cap[s] < ClassSizes[1]
          BY <5>1, ClassFacts, SMT DEF FindClosest
        <5>2. CASE ~(g.cap[s] < ClassSizes[1])
          <6>1. FindClosest(g.cap[s]) \in Classes
            BY <5>2, <4>1, ClassFacts, Closest, SMT
          <6> QED BY <6>1, ClassFacts, SMT DEF Classes
        <5> QED BY <5>1, <5>2
      <4> QED BY <3>2, <4>2, <2>1, <2>3, HeapParts DEF Put
    <3> QED BY <3>1, <3>2
  <2> QED BY <2>3, <2>4, <2>5
<1> QED BY <1>1, <1>2

(* A heap with more kinds of data is still a heap.                           *)
LEMMA HeapWiden ==
    ASSUME NEW D, NEW E, D \subseteq E, NEW h \in Heaps(D)
    PROVE  h \in Heaps(E)
BY DEF Heaps

(* A slice that is got, written and counted once.                            *)
LEMMA TakenSound ==
    ASSUME NEW D, NEW h \in Heaps(D), Sound(h), NEW size \in Nat, NEW e \in D,
           NEW g \in Get(h, size), NEW f,
           f = NewBuffer([g.heap EXCEPT !.data[g.slice] = e], g.slice)
    PROVE  /\ g.slice \in Slices /\ f \in Heaps(D) /\ Sound(f)
           /\ h.refs[g.slice] = 0 /\ (h.class[g.slice] > 0 \/ h.cap[g.slice] = 0)
           /\ \A x \in Slices : f.refs[x] = h.refs[x] + (IF x = g.slice THEN 1 ELSE 0)
           /\ f.data[g.slice] = e
           /\ SameBut(f, h, g.slice)
<1> DEFINE s == g.slice
           a == g.heap
           b == [a EXCEPT !.data[s] = e]
<1>1. /\ s \in Slices /\ a \in Heaps(D) /\ Sound(a)
      /\ h.refs[s] = 0 /\ (h.class[s] > 0 \/ h.cap[s] = 0)
      /\ a.refs = h.refs /\ a.data = h.data /\ a.class[s] = 0 /\ a.cap[s] > 0
      /\ SameBut(a, h, s)
  BY GetSound
<1>2. f = NewBuffer(b, s)
  OBVIOUS
<1> HIDE DEF s, a
<1>3. /\ b \in Heaps(D) /\ Sound(b) /\ b.refs = a.refs /\ b.cap = a.cap /\ b.class = a.class
      /\ b.data = [a.data EXCEPT ![s] = e]
  BY <1>1, WriteSound, SMT
<1> HIDE DEF b
<1>4. /\ f \in Heaps(D) /\ Sound(f)
      /\ \A x \in Slices : f.refs[x] = b.refs[x] + (IF x = s THEN 1 ELSE 0)
      /\ f.cap = b.cap /\ f.class = b.class /\ f.data = b.data
  <2>1. b.class[s] = 0 /\ b.cap[s] > 0 /\ s \in Slices /\ b \in Heaps(D) /\ Sound(b)
    BY <1>1, <1>3
  <2> QED BY <1>2, <2>1, NewBufferSound, SMT
<1>5. a.data \in [Slices -> D] /\ h.refs \in [Slices -> Int]
  BY <1>1 DEF Heaps
<1>6. /\ f.data[s] = e
      /\ \A x \in Slices : f.refs[x] = h.refs[x] + (IF x = s THEN 1 ELSE 0)
  BY <1>1, <1>3, <1>4, <1>5
<1>7. SameBut(f, h, s)
  <2> SUFFICES ASSUME NEW x \in Slices, x # s
               PROVE  /\ f.cap[x] = h.cap[x] /\ f.class[x] = h.class[x]
                      /\ f.refs[x] = h.refs[x] /\ f.data[x] = h.data[x]
    BY DEF SameBut
  <2>1. f.data[x] = h.data[x]
    BY <1>1, <1>3, <1>4, <1>5
  <2>2. f.refs[x] = h.refs[x]
    BY <1>5, <1>6, SMT
  <2>3. f.cap[x] = a.cap[x] /\ f.class[x] = a.class[x]
    BY <1>3, <1>4
  <2> QED BY <2>1, <2>2, <2>3, <1>1 DEF SameBut
<1> QED BY <1>1, <1>4, <1>6, <1>7 DEF s

(* Free and Ref of a buffer that may be a plain slice.                       *)
LEMMA FreeCounts ==
    ASSUME NEW D, Blank \in D, NEW h \in Heaps(D), Sound(h), NEW s \in Slices \cup {NoSlice},
           s \in Slices => h.refs[s] > 0
    PROVE  /\ Free(h, s) \in Heaps(D) /\ Sound(Free(h, s))
           /\ \A x \in Slices : Free(h, s).refs[x] = h.refs[x] - (IF x = s THEN 1 ELSE 0)
           /\ \A x \in Slices : Free(h, s).refs[x] > 0 => Free(h, s).data[x] = h.data[x]
           /\ SameBut(Free(h, s), h, s)
<1>0. h.refs \in [Slices -> Int]
  BY DEF Heaps
<1>1. CASE s = NoSlice
  <2>1. Free(h, s) = h
    BY <1>1 DEF Free
  <2>2. \A x \in Slices : x # s
    BY <1>1, BuffersAssumption
  <2> QED BY <1>0, <2>1, <2>2, SMT DEF SameBut
<1>2. CASE s # NoSlice
  <2>1. s \in Slices /\ h.refs[s] > 0
    BY <1>2
  <2> DEFINE g == Free(h, s)
  <2>2. /\ g \in Heaps(D) /\ Sound(g) /\ g.refs = [h.refs EXCEPT ![s] = @ - 1]
        /\ SameBut(g, h, s)
        /\ h.refs[s] > 1 => g.data[s] = h.data[s]
    BY <2>1, FreeSound, SMT
  <2> HIDE DEF g
  <2>3. ASSUME NEW x \in Slices
        PROVE  /\ g.refs[x] = h.refs[x] - (IF x = s THEN 1 ELSE 0)
               /\ g.refs[x] > 0 => g.data[x] = h.data[x]
    <3>1. CASE x = s
      BY <1>0, <2>2, <3>1, SMT
    <3>2. CASE x # s
      BY <1>0, <2>2, <3>2, SMT DEF SameBut
    <3> QED BY <3>1, <3>2
  <2> QED BY <2>2, <2>3 DEF g
<1> QED BY <1>1, <1>2

(* Ref of a buffer adds one to the counter of its slice and nothing else.    *)
LEMMA RefCounts ==
    ASSUME NEW D, NEW h \in Heaps(D), Sound(h), NEW s \in Slices \cup {NoSlice},
           s \in Slices => h.refs[s] > 0
    PROVE  /\ Ref(h, s) \in Heaps(D) /\ Sound(Ref(h, s))
           /\ \A x \in Slices : Ref(h, s).refs[x] = h.refs[x] + (IF x = s THEN 1 ELSE 0)
           /\ Ref(h, s).cap = h.cap /\ Ref(h, s).class = h.class /\ Ref(h, s).data = h.data
<1>0. h.refs \in [Slices -> Int]
  BY DEF Heaps
<1>1. CASE s = NoSlice
  <2>1. Ref(h, s) = h
    BY <1>1 DEF Ref
  <2>2. \A x \in Slices : x # s
    BY <1>1, BuffersAssumption
  <2> QED BY <1>0, <2>1, <2>2, SMT
<1>2. CASE s # NoSlice
  <2>1. s \in Slices /\ h.refs[s] > 0
    BY <1>2
  <2>2. h.class[s] = 0 /\ h.cap[s] > 0
    <3>1. h.cap[s] \in Nat /\ h.class[s] \in 0..Len(ClassSizes) /\ h.refs[s] \in Int
      BY <2>1 DEF Heaps
    <3> QED BY <2>1, <3>1, ClassFacts, SMT DEF Sound
  <2>3. Ref(h, s) = NewBuffer(h, s)
    BY <1>2 DEF Ref, NewBuffer
  <2> QED BY <2>1, <2>2, <2>3, NewBufferSound, SMT
<1> QED BY <1>1, <1>2

\* A slice some worker has from Get and not yet counted.
Fresh(h, s) == h.refs[s] = 0 /\ h.class[s] = 0 /\ h.cap[s] > 0

(* Marshal: a plain slice, or a slice of the pool with one reference.        *)
LEMMA AllocSound ==
    ASSUME NEW D, NEW h \in Heaps(D), Sound(h), NEW size \in Nat, NEW e \in D,
           NEW m \in Alloc(h, size, e)
    PROVE  /\ m.slice \in Slices \cup {NoSlice} /\ m.heap \in Heaps(D) /\ Sound(m.heap)
           /\ \A x \in Slices : m.heap.refs[x] = h.refs[x] + (IF x = m.slice THEN 1 ELSE 0)
           /\ \A x \in Slices : h.refs[x] > 0 => m.heap.data[x] = h.data[x]
           /\ \A x \in Slices : Fresh(h, x) => Fresh(m.heap, x)
<1>0. h.refs \in [Slices -> Int]
  BY DEF Heaps
<1>1. CASE size <= PoolingThreshold
  <2>1. m.slice = NoSlice /\ m.heap = h
    BY <1>1, SMT DEF Alloc
  <2>2. \A x \in Slices : x # m.slice
    BY <2>1, BuffersAssumption
  <2> QED BY <1>0, <2>1, <2>2, SMT
<1>2. CASE ~(size <= PoolingThreshold)
  <2>1. PICK g \in Get(h, size) :
           m = [slice |-> g.slice, heap |-> NewBuffer([g.heap EXCEPT !.data[g.slice] = e], g.slice)]
    BY <1>2 DEF Alloc
  <2>2. m.slice = g.slice /\ m.heap = NewBuffer([g.heap EXCEPT !.data[g.slice] = e], g.slice)
    BY <2>1
  <2>3. /\ g.slice \in Slices /\ m.heap \in Heaps(D) /\ Sound(m.heap)
        /\ h.refs[g.slice] = 0 /\ (h.class[g.slice] > 0 \/ h.cap[g.slice] = 0)
        /\ \A x \in Slices : m.heap.refs[x] = h.refs[x] + (IF x = g.slice THEN 1 ELSE 0)
        /\ SameBut(m.heap, h, g.slice)
    BY <2>2, TakenSound, SMT
  <2> DEFINE s == g.slice
             f == m.heap
  <2> HIDE DEF s, f
  <2>4. /\ s \in Slices /\ h.refs[s] = 0 /\ (h.class[s] > 0 \/ h.cap[s] = 0)
        /\ SameBut(f, h, s)
    BY <2>3 DEF s, f
  <2>5. \A x \in Slices : h.refs[x] > 0 => f.data[x] = h.data[x]
    BY <2>4, SMT DEF SameBut
  <2>6. \A x \in Slices : Fresh(h, x) => Fresh(f, x)
    BY <2>4, SMT DEF SameBut, Fresh
  <2> QED BY <2>2, <2>3, <2>5, <2>6 DEF f
<1> QED BY <1>1, <1>2

(* A sound heap has the type of TypeOK.                                      *)
LEMMA HeapTypes ==
    ASSUME NEW D, NEW h \in Heaps(D), Sound(h)
    PROVE  h \in [cap : [Slices -> Nat], class : [Slices -> 0..Len(ClassSizes)],
                  refs : [Slices -> Nat], data : [Slices -> {h.data[s] : s \in Slices}]]
<1>1. h.refs \in [Slices -> Nat]
  BY SMT DEF Heaps, Sound
<1>2. h.data \in [Slices -> {h.data[s] : s \in Slices}]
  BY DEF Heaps
<1> QED BY <1>1, <1>2 DEF Heaps

-----------------------------------------------------------------------------
(* Counting.                                                                 *)

(* Two sets that differ at most at p differ in size as they do at p.         *)
LEMMA CountAt ==
    ASSUME NEW W, IsFiniteSet(W), NEW A \in SUBSET W, NEW B \in SUBSET W, NEW p,
           \A q \in W \ {p} : q \in A <=> q \in B
    PROVE  /\ Cardinality(A) \in Nat /\ Cardinality(B) \in Nat
           /\ Cardinality(B) - (IF p \in B THEN 1 ELSE 0)
                = Cardinality(A) - (IF p \in A THEN 1 ELSE 0)
           /\ Cardinality(A) >= (IF p \in A THEN 1 ELSE 0)
<1>1. IsFiniteSet(A) /\ IsFiniteSet(B)
  BY FS_Subset
<1>2. A \ {p} = B \ {p}
  OBVIOUS
<1>3. ASSUME NEW C, IsFiniteSet(C)
      PROVE  /\ Cardinality(C) \in Nat
             /\ Cardinality(C \ {p}) = Cardinality(C) - (IF p \in C THEN 1 ELSE 0)
             /\ Cardinality(C \ {p}) \in Nat
  <2>1. Cardinality(C) \in Nat
    BY <1>3, FS_CardinalityType
  <2>2. IsFiniteSet(C \ {p})
    <3>1. (C \ {p}) \in SUBSET C
      OBVIOUS
    <3> QED BY <1>3, <3>1, FS_Subset
  <2>3. Cardinality(C \ {p}) \in Nat
    BY <2>2, FS_CardinalityType
  <2>4. CASE p \in C
    <3>1. Cardinality(C \ {p}) = Cardinality(C) - 1
      BY <2>4, <1>3, FS_RemoveElement
    <3> QED BY <2>1, <2>3, <2>4, <3>1
  <2>5. CASE p \notin C
    <3>1. C \ {p} = C
      BY <2>5
    <3>2. Cardinality(C \ {p}) = Cardinality(C)
      BY <3>1
    <3> QED BY <2>1, <2>5, <3>2, SMT
  <2> QED BY <2>4, <2>5
<1>4. /\ Cardinality(A) \in Nat
      /\ Cardinality(A \ {p}) = Cardinality(A) - (IF p \in A THEN 1 ELSE 0)
      /\ Cardinality(A \ {p}) \in Nat
  BY <1>1, <1>3
<1>5. /\ Cardinality(B) \in Nat
      /\ Cardinality(B \ {p}) = Cardinality(B) - (IF p \in B THEN 1 ELSE 0)
      /\ Cardinality(B \ {p}) \in Nat
  BY <1>1, <1>3
<1>6. Cardinality(A \ {p}) = Cardinality(B \ {p})
  BY <1>2
<1> QED BY <1>4, <1>5, <1>6, SMT

(* References in a sequence of buffers.                                      *)
LEMMA InNat ==
    ASSUME NEW s, NEW q, Len(q) \in Nat
    PROVE  In(s, q) \in Nat
<1> DEFINE A == {i \in 1..Len(q) : q[i].slice = s}
<1>1. IsFiniteSet(1..Len(q))
  BY FS_Interval, SMT
<1>2. A \in SUBSET (1..Len(q))
  OBVIOUS
<1>3. IsFiniteSet(A)
  <2> HIDE DEF A
  <2> QED BY <1>1, <1>2, FS_Subset
<1> QED BY <1>3, FS_CardinalityType DEF In

(* No buffers, no references.                                                *)
LEMMA InEmpty ==
    ASSUME NEW s
    PROVE  In(s, <<>>) = 0
<1>1. {i \in 1..Len(<<>>) : <<>>[i].slice = s} = {}
  BY SMT
<1> QED BY <1>1, FS_EmptySet DEF In

(* An empty set has no members to count.                                     *)
LEMMA NoneCounted == Cardinality({}) = 0
BY FS_EmptySet

-----------------------------------------------------------------------------
(* Sequences of buffers.                                                     *)

Bufs == Seq([slice : Slices \cup {NoSlice}, len : Nat])

(* Cutting and joining sequences.                                            *)
LEMMA TailFacts ==
    ASSUME NEW S, NEW q \in Seq(S), q # <<>>
    PROVE  /\ Tail(q) \in Seq(S) /\ Len(Tail(q)) = Len(q) - 1 /\ Len(q) \in Nat \ {0} /\ q[1] \in S
           /\ \A j \in 1..(Len(q) - 1) : Tail(q)[j] = q[j + 1]
<1>1. Len(q) \in Nat \ {0}
  BY SMT
<1>2. q[1] \in S /\ Tail(q) \in Seq(S)
  BY <1>1, SMT
<1>3. Len(Tail(q)) = Len(q) - 1
  BY SMT
<1>4. \A j \in 1..(Len(q) - 1) : Tail(q)[j] = q[j + 1]
  BY <1>1, SMT
<1> QED BY <1>1, <1>2, <1>3, <1>4

(* What is before and after a place in a sequence.                           *)
LEMMA CutFacts ==
    ASSUME NEW S, NEW q \in Seq(S), NEW i \in 1..Len(q)
    PROVE  /\ SubSeq(q, 1, i - 1) \in Seq(S) /\ Len(SubSeq(q, 1, i - 1)) = i - 1
           /\ SubSeq(q, i + 1, Len(q)) \in Seq(S) /\ Len(SubSeq(q, i + 1, Len(q))) = Len(q) - i
           /\ \A j \in 1..(i - 1) : SubSeq(q, 1, i - 1)[j] = q[j]
           /\ \A j \in 1..(Len(q) - i) : SubSeq(q, i + 1, Len(q))[j] = q[i + j]
           /\ Len(q) \in Nat /\ q[i] \in S
<1>1. Len(q) \in Nat /\ q[i] \in S
  BY SMT
<1>2. SubSeq(q, 1, i - 1) \in Seq(S)
  BY <1>1, SMT
<1>3. Len(SubSeq(q, 1, i - 1)) = i - 1
  BY <1>1, SMT
<1>4. SubSeq(q, i + 1, Len(q)) \in Seq(S)
  BY <1>1, SMT
<1>5. Len(SubSeq(q, i + 1, Len(q))) = Len(q) - i
  BY <1>1, SMT
<1>6. \A j \in 1..(i - 1) : SubSeq(q, 1, i - 1)[j] = q[j]
  BY <1>1, SMT
<1>7. \A j \in 1..(Len(q) - i) : SubSeq(q, i + 1, Len(q))[j] = q[i + j]
  BY <1>1, SMT
<1> QED BY <1>1, <1>2, <1>3, <1>4, <1>5, <1>6, <1>7

Joined(w, a, b) ==
    /\ Len(w) = Len(a) + Len(b)
    /\ \A j \in 1..Len(a) : w[j] = a[j]
    /\ \A j \in 1..Len(b) : w[Len(a) + j] = b[j]

(* Append of Go, for two slices.                                             *)
LEMMA JoinFacts ==
    ASSUME NEW S, NEW a \in Seq(S), NEW b \in Seq(S)
    PROVE  a \o b \in Seq(S) /\ Joined(a \o b, a, b)
<1> DEFINE w == a \o b
<1>1. w \in Seq(S) /\ Len(w) = Len(a) + Len(b)
  BY SMT
<1>2. \A j \in 1..Len(a) : w[j] = a[j]
  BY SMT
<1>3. \A j \in 1..Len(b) : w[Len(a) + j] = b[j]
  BY SMT
<1> QED BY <1>1, <1>2, <1>3 DEF Joined

\* The slices of w are those of q, which has n, without the one of element i.
Removed(w, q, n, i) ==
    /\ Len(q) = n /\ Len(w) = n - 1
    /\ \A j \in 1..(n - 1) : w[j].slice = q[IF j < i THEN j ELSE j + 1].slice

(* References in a sequence and in it without one element.                   *)
LEMMA InRemoved ==
    ASSUME NEW s, NEW q, NEW w, NEW n \in Nat, NEW i \in 1..n, Removed(w, q, n, i)
    PROVE  In(s, w) = In(s, q) - (IF q[i].slice = s THEN 1 ELSE 0) /\ In(s, q) \in Nat
<1> USE DEF Removed
<1> DEFINE A == {j \in 1..n : q[j].slice = s}
           B == {j \in 1..(n - 1) : w[j].slice = s}
           up == [j \in B |-> IF j < i THEN j ELSE j + 1]
<1>1. In(s, q) = Cardinality(A) /\ In(s, w) = Cardinality(B)
  BY DEF In
<1>2. IsFiniteSet(1..n) /\ IsFiniteSet(1..(n - 1)) /\ A \in SUBSET (1..n) /\ B \in SUBSET (1..(n - 1))
  <2>1. 1 \in Int /\ n \in Int /\ n - 1 \in Int
    BY SMT
  <2>2. IsFiniteSet(1..n) /\ IsFiniteSet(1..(n - 1))
    BY <2>1, FS_Interval
  <2> QED BY <2>2
<1>3. ASSUME NEW j \in B
      PROVE  up[j] \in A \ {i} /\ up[j] = (IF j < i THEN j ELSE j + 1) /\ j \in 1..(n - 1)
  <2>1. (IF j < i THEN j ELSE j + 1) \in 1..n /\ (IF j < i THEN j ELSE j + 1) # i
    BY SMT
  <2> QED BY <2>1
<1>4. \A j, k \in B : up[j] = up[k] => j = k
  BY <1>3, SMT
<1>5. ASSUME NEW k \in A \ {i}
      PROVE  \E j \in B : up[j] = k
  <2> DEFINE j == IF k < i THEN k ELSE k - 1
  <2>1. j \in 1..(n - 1) /\ (IF j < i THEN j ELSE j + 1) = k
    BY SMT
  <2>2. j \in B
    BY <2>1
  <2>3. up[j] = k
    BY <2>1, <2>2
  <2> HIDE DEF j
  <2> QED BY <2>2, <2>3
<1>6. up \in Bijection(B, A \ {i})
  <2>1. up \in [B -> A \ {i}]
    BY <1>3
  <2> HIDE DEF up, A, B
  <2>2. up \in Injection(B, A \ {i})
    BY <2>1, <1>4 DEF Injection, IsInjective
  <2>3. up \in Surjection(B, A \ {i})
    BY <2>1, <1>5 DEF Surjection
  <2> QED BY <2>2, <2>3 DEF Bijection
<1> HIDE DEF A, B, up
<1>7. IsFiniteSet(A) /\ IsFiniteSet(B)
  BY <1>2, FS_Subset
<1>8. Cardinality(A \ {i}) = Cardinality(B)
  BY <1>6, <1>7, FS_Bijection DEF ExistsBijection
<1>9. /\ Cardinality(A) \in Nat
      /\ Cardinality(A \ {i}) = Cardinality(A) - (IF i \in A THEN 1 ELSE 0)
  <2>1. Cardinality(A) \in Nat
    BY <1>7, FS_CardinalityType
  <2>2. i \in A => Cardinality(A \ {i}) = Cardinality(A) - 1
    BY <1>7, FS_RemoveElement
  <2>3. i \notin A => Cardinality(A \ {i}) = Cardinality(A)
    <3>1. i \notin A => A \ {i} = A
      OBVIOUS
    <3> QED BY <3>1
  <2> QED BY <2>1, <2>2, <2>3, SMT
<1>10. i \in A <=> q[i].slice = s
  BY DEF A
<1> QED BY <1>1, <1>8, <1>9, <1>10

(* The operations on sequences of buffers.                                   *)
LEMMA InAppend ==
    ASSUME NEW s, NEW q \in Bufs, NEW b \in [slice : Slices \cup {NoSlice}, len : Nat]
    PROVE  /\ Append(q, b) \in Bufs
           /\ In(s, Append(q, b)) = In(s, q) + (IF b.slice = s THEN 1 ELSE 0)
<1> DEFINE w == Append(q, b)
           n == Len(q) + 1
<1>1. /\ w \in Bufs /\ n \in Nat /\ Len(w) = n /\ Len(q) = n - 1 /\ n \in 1..n /\ w[n] = b
      /\ \A j \in 1..(n - 1) : q[j] = w[j]
  BY SMT DEF Bufs
<1> HIDE DEF w, n
<1>2. \A j \in 1..(n - 1) : q[j].slice = w[IF j < n THEN j ELSE j + 1].slice
  BY <1>1, SMT
<1>3. In(s, q) = In(s, w) - (IF w[n].slice = s THEN 1 ELSE 0) /\ In(s, w) \in Nat
  <2>1. n \in Nat /\ n \in 1..n /\ Removed(q, w, n, n)
    BY <1>1, <1>2 DEF Removed
  <2> QED BY <2>1, InRemoved
<1>4. In(s, w) = In(s, q) + (IF b.slice = s THEN 1 ELSE 0)
  BY <1>1, <1>3, SMT
<1> QED BY <1>1, <1>4 DEF w

(* Without its first buffer a slice of buffers has one reference less.       *)
LEMMA InTail ==
    ASSUME NEW q \in Bufs, q # <<>>
    PROVE  /\ Tail(q) \in Bufs /\ Len(Tail(q)) = Len(q) - 1 /\ Len(q) \in Nat \ {0}
           /\ q[1] \in [slice : Slices \cup {NoSlice}, len : Nat]
           /\ \A j \in 1..(Len(q) - 1) : Tail(q)[j] = q[j + 1]
           /\ \A s : /\ In(s, Tail(q)) = In(s, q) - (IF q[1].slice = s THEN 1 ELSE 0)
                    /\ In(s, q) \in Nat
<1> DEFINE w == Tail(q)
           n == Len(q)
<1>1. /\ w \in Bufs /\ n \in Nat \ {0} /\ Len(w) = n - 1 /\ 1 \in 1..n
      /\ q[1] \in [slice : Slices \cup {NoSlice}, len : Nat]
      /\ \A j \in 1..(n - 1) : w[j] = q[j + 1]
  <2> DEFINE S == [slice : Slices \cup {NoSlice}, len : Nat]
  <2>1. q \in Seq(S)
    BY DEF Bufs
  <2> HIDE DEF S
  <2>2. /\ w \in Seq(S) /\ n \in Nat \ {0} /\ Len(w) = n - 1 /\ q[1] \in S
        /\ \A j \in 1..(n - 1) : w[j] = q[j + 1]
    BY <2>1, TailFacts
  <2> QED BY <2>2, SMT DEF S, Bufs
<1> HIDE DEF w
<1>2. \A j \in 1..(n - 1) : w[j].slice = q[IF j < 1 THEN j ELSE j + 1].slice
  BY <1>1, SMT
<1>3. ASSUME NEW s
      PROVE  In(s, w) = In(s, q) - (IF q[1].slice = s THEN 1 ELSE 0) /\ In(s, q) \in Nat
  <2>1. n \in Nat /\ 1 \in 1..n /\ Removed(w, q, n, 1)
    BY <1>1, <1>2 DEF Removed
  <2> QED BY <2>1, InRemoved
<1> QED BY <1>1, <1>3 DEF w

(* Without its i-th buffer a slice of buffers has one reference less.        *)
LEMMA InWithout ==
    ASSUME NEW q \in Bufs, NEW i \in 1..Len(q)
    PROVE  /\ Without(q, i) \in Bufs
           /\ \A s : /\ In(s, Without(q, i)) = In(s, q) - (IF q[i].slice = s THEN 1 ELSE 0)
                    /\ In(s, q) \in Nat
<1> DEFINE w == Without(q, i)
           n == Len(q)
           a == SubSeq(q, 1, i - 1)
           b == SubSeq(q, i + 1, n)
           S == [slice : Slices \cup {NoSlice}, len : Nat]
<1>0. q \in Seq(S) /\ Bufs = Seq(S)
  BY DEF Bufs
<1> HIDE DEF S
<1>1. /\ a \in Seq(S) /\ Len(a) = i - 1 /\ \A j \in 1..(i - 1) : a[j] = q[j]
      /\ b \in Seq(S) /\ Len(b) = n - i /\ \A j \in 1..(n - i) : b[j] = q[i + j]
      /\ n \in Nat
  BY <1>0, CutFacts, SMT
<1>2. w = a \o b /\ Len(q) = n /\ i \in 1..n
  BY DEF Without
<1> HIDE DEF a, b, w, n
<1>3. w \in Seq(S) /\ Joined(w, a, b)
  BY <1>1, <1>2, JoinFacts
<1>4. Len(w) = n - 1
  BY <1>1, <1>2, <1>3, SMT DEF Joined
<1>5. ASSUME NEW j \in 1..(n - 1)
      PROVE  w[j] = q[IF j < i THEN j ELSE j + 1]
  <2>1. CASE j < i
    BY <1>1, <1>2, <1>3, <2>1, SMT DEF Joined
  <2>2. CASE ~(j < i)
    <3> DEFINE k == j - (i - 1)
    <3>1. k \in 1..(n - i) /\ i + k = j + 1 /\ (i - 1) + k = j
      BY <1>1, <1>2, <2>2, SMT
    <3> HIDE DEF k
    <3>2. w[j] = b[k]
      BY <1>1, <1>3, <3>1 DEF Joined
    <3>3. b[k] = q[j + 1]
      BY <1>1, <3>1
    <3> QED BY <2>2, <3>2, <3>3
  <2> QED BY <2>1, <2>2
<1>6. ASSUME NEW s
      PROVE  In(s, w) = In(s, q) - (IF q[i].slice = s THEN 1 ELSE 0) /\ In(s, q) \in Nat
  <2>1. \A j \in 1..(n - 1) : w[j].slice = q[IF j < i THEN j ELSE j + 1].slice
    BY <1>5
  <2>2. n \in Nat /\ i \in 1..n /\ Removed(w, q, n, i)
    BY <1>1, <1>2, <1>4, <2>1 DEF Removed
  <2> QED BY <2>2, InRemoved
<1> QED BY <1>0, <1>3, <1>6 DEF w

\* w is q with the two elements of m in the place of element i.
InPlace(w, q, i, m) ==
    /\ Len(w) = Len(q) + 1
    /\ \A j \in 1..Len(q) : j < i => w[j] = q[j]
    /\ w[i] = m[1] /\ w[i + 1] = m[2]
    /\ \A j \in 1..Len(q) : j > i => w[j + 1] = q[j]

(* Two elements in the place of one.                                         *)
LEMMA SplitFacts ==
    ASSUME NEW S, NEW q \in Seq(S), NEW i \in 1..Len(q), NEW m \in Seq(S), Len(m) = 2
    PROVE  LET w == SubSeq(q, 1, i - 1) \o m \o SubSeq(q, i + 1, Len(q))
           IN  w \in Seq(S) /\ InPlace(w, q, i, m)
<1> DEFINE n == Len(q)
           a == SubSeq(q, 1, i - 1)
           b == SubSeq(q, i + 1, n)
           c == a \o m
           w == c \o b
<1>1. /\ a \in Seq(S) /\ Len(a) = i - 1
      /\ \A j \in 1..(i - 1) : a[j] = q[j]
      /\ b \in Seq(S) /\ Len(b) = n - i
      /\ \A j \in 1..(n - i) : b[j] = q[i + j]
      /\ n \in Nat
  BY CutFacts
<1>2. i \in 1..n /\ Len(q) = n
  OBVIOUS
<1> HIDE DEF a, b, n
<1>3. c \in Seq(S) /\ Joined(c, a, m)
  BY <1>1, JoinFacts
<1> HIDE DEF c
<1>4. w \in Seq(S) /\ Joined(w, c, b)
  BY <1>1, <1>3, JoinFacts
<1> HIDE DEF w
<1>5. Len(c) = i + 1 /\ Len(w) = n + 1
  BY <1>1, <1>2, <1>3, <1>4, SMT DEF Joined
<1>6. \A j \in 1..(i + 1) : w[j] = c[j]
  BY <1>4, <1>5 DEF Joined
<1>7. \A j \in 1..(i - 1) : c[j] = q[j]
  BY <1>1, <1>3 DEF Joined
<1>8. c[i] = m[1] /\ c[i + 1] = m[2]
  <2>1. Len(a) + 1 = i /\ Len(a) + 2 = i + 1 /\ 1 \in 1..Len(m) /\ 2 \in 1..Len(m)
    BY <1>1, <1>2, SMT
  <2> QED BY <1>3, <2>1 DEF Joined
<1>9. ASSUME NEW j \in 1..n, j > i PROVE w[j + 1] = q[j]
  <2> DEFINE k == j - i
  <2>1. k \in 1..(n - i) /\ i + k = j /\ (i + 1) + k = j + 1
    BY <1>1, <1>2, <1>9, SMT
  <2> HIDE DEF k
  <2>2. w[j + 1] = b[k]
    BY <1>1, <1>4, <1>5, <2>1 DEF Joined
  <2> QED BY <1>1, <2>1, <2>2
<1>10. /\ \A j \in 1..n : j < i => w[j] = q[j]
       /\ w[i] = m[1] /\ w[i + 1] = m[2]
  BY <1>1, <1>2, <1>6, <1>7, <1>8, SMT
<1>11. w = SubSeq(q, 1, i - 1) \o m \o SubSeq(q, i + 1, Len(q))
  BY DEF w, c, a, b, n
<1> QED BY <1>2, <1>4, <1>5, <1>9, <1>10, <1>11 DEF InPlace

(* A buffer that split makes two of counts twice.                            *)
LEMMA InSplit ==
    ASSUME NEW q \in Bufs, NEW i \in 1..Len(q), NEW w, Len(w) = Len(q) + 1,
           \A j \in 1..Len(q) : j < i => w[j] = q[j],
           \A j \in 1..Len(q) : j > i => w[j + 1] = q[j],
           w[i].slice = q[i].slice, w[i + 1].slice = q[i].slice,
           NEW s
    PROVE  In(s, w) = In(s, q) + (IF q[i].slice = s THEN 1 ELSE 0)
<1> DEFINE n == Len(q) + 1
           k == i + 1
<1>1. n \in Nat /\ k \in 1..n /\ Len(w) = n /\ Len(q) = n - 1
  BY SMT DEF Bufs
<1>2. ASSUME NEW j \in 1..(n - 1)
      PROVE  q[j].slice = w[IF j < k THEN j ELSE j + 1].slice
  <2>1. j \in 1..Len(q) /\ Len(q) \in Nat
    BY SMT DEF Bufs
  <2>2. CASE j < i
    BY <2>1, <2>2, SMT
  <2>3. CASE j = i
    BY <2>1, <2>3
  <2>4. CASE j > i
    BY <2>1, <2>4, SMT
  <2> QED BY <2>1, <2>2, <2>3, <2>4, SMT
<1>3. w[k].slice = q[i].slice
  OBVIOUS
<1> HIDE DEF n, k
<1>4. In(s, q) = In(s, w) - (IF w[k].slice = s THEN 1 ELSE 0) /\ In(s, w) \in Nat
  <2>1. n \in Nat /\ k \in 1..n /\ Removed(q, w, n, k)
    BY <1>1, <1>2 DEF Removed
  <2> QED BY <2>1, InRemoved
<1> QED BY <1>3, <1>4, SMT

(* Only lengths change.                                                      *)
LEMMA InSame ==
    ASSUME NEW s, NEW q, NEW w, Len(w) = Len(q), \A j \in 1..Len(q) : w[j].slice = q[j].slice
    PROVE  In(s, w) = In(s, q)
<1>1. {i \in 1..Len(w) : w[i].slice = s} = {i \in 1..Len(q) : q[i].slice = s}
  OBVIOUS
<1> QED BY <1>1 DEF In

-----------------------------------------------------------------------------
(* The loops over buffers.                                                   *)

\* References among the first i buffers.
InFirst(s, q, i) == Cardinality({j \in 1..i : q[j].slice = s})

(* InFirst goes from 0 to In, and by one when it meets the slice.            *)
LEMMA InFirstFacts ==
    ASSUME NEW s, NEW q \in Bufs
    PROVE  /\ InFirst(s, q, 0) = 0 /\ InFirst(s, q, Len(q)) = In(s, q) /\ In(s, q) \in Nat
           /\ \A i \in 0..(Len(q) - 1) :
                 /\ InFirst(s, q, i) \in Nat
                 /\ InFirst(s, q, i + 1) = InFirst(s, q, i) + (IF q[i + 1].slice = s THEN 1 ELSE 0)
                 /\ InFirst(s, q, i + 1) <= In(s, q)
<1> DEFINE n == Len(q)
           A(i) == {j \in 1..i : q[j].slice = s}
<1>1. n \in Nat /\ IsFiniteSet(1..n)
  <2>1. n \in Nat
    BY SMT DEF Bufs
  <2> QED BY <2>1, FS_Interval, SMT
<1>2. A(0) = {}
  BY SMT
<1>3. InFirst(s, q, 0) = 0
  BY <1>2, FS_EmptySet DEF InFirst
<1>4. InFirst(s, q, n) = In(s, q) /\ In(s, q) \in Nat
  BY <1>1, InNat DEF InFirst, In
<1>5. ASSUME NEW i \in 0..(n - 1)
      PROVE  /\ InFirst(s, q, i) \in Nat
             /\ InFirst(s, q, i + 1) = InFirst(s, q, i) + (IF q[i + 1].slice = s THEN 1 ELSE 0)
             /\ InFirst(s, q, i + 1) <= In(s, q)
  <2>1. A(i) \in SUBSET (1..n) /\ A(i + 1) \in SUBSET (1..n) /\ A(n) \in SUBSET (1..n)
    BY <1>1, SMT
  <2>2. \A j \in (1..n) \ {i + 1} : j \in A(i) <=> j \in A(i + 1)
    BY <1>1, SMT
  <2>3. i + 1 \notin A(i) /\ (i + 1 \in A(i + 1) <=> q[i + 1].slice = s)
    BY <1>1, SMT
  <2>4. A(i + 1) \subseteq A(n)
    BY <1>1, SMT
  <2>5. InFirst(s, q, i) = Cardinality(A(i)) /\ InFirst(s, q, i + 1) = Cardinality(A(i + 1))
        /\ In(s, q) = Cardinality(A(n))
    BY DEF InFirst, In
  <2> HIDE DEF A, n
  <2>6. /\ Cardinality(A(i)) \in Nat /\ Cardinality(A(i + 1)) \in Nat
        /\ Cardinality(A(i + 1)) - (IF i + 1 \in A(i + 1) THEN 1 ELSE 0)
              = Cardinality(A(i)) - (IF i + 1 \in A(i) THEN 1 ELSE 0)
    BY <1>1, <2>1, <2>2, CountAt, SMT
  <2>7. Cardinality(A(i + 1)) <= Cardinality(A(n))
    <3>1. IsFiniteSet(A(n))
      BY <1>1, <2>1, FS_Subset
    <3> QED BY <2>4, <3>1, FS_Subset
  <2> QED BY <2>3, <2>5, <2>6, <2>7, SMT
<1> QED BY <1>3, <1>4, <1>5

(* The elements of a slice of buffers.                                       *)
LEMMA BufsFacts ==
    ASSUME NEW q \in Bufs
    PROVE  /\ Len(q) \in Nat
           /\ \A i \in 1..Len(q) : /\ q[i] \in [slice : Slices \cup {NoSlice}, len : Nat]
                                   /\ q[i].slice \in Slices \cup {NoSlice} /\ q[i].len \in Nat
<1> DEFINE S == [slice : Slices \cup {NoSlice}, len : Nat]
<1>1. q \in Seq(S)
  BY DEF Bufs
<1> HIDE DEF S
<1>2. Len(q) \in Nat /\ \A i \in 1..Len(q) : q[i] \in S
  BY <1>1, SMT
<1> USE DEF S
<1>3. ASSUME NEW b \in [slice : Slices \cup {NoSlice}, len : Nat]
      PROVE  b.slice \in Slices \cup {NoSlice} /\ b.len \in Nat
  OBVIOUS
<1> QED BY <1>1, <1>2, <1>3

(* The rounds of BufferSlice.Free.                                           *)
LEMMA FreeAllRuns ==
    ASSUME NEW D, Blank \in D, NEW h \in Heaps(D), NEW q \in Bufs
    PROVE  \E f : /\ FreeAll(h, q) = f[Len(q)] /\ f[0] = h
                 /\ \A i \in 1..Len(q) : f[i] = Free(f[i - 1], q[i].slice)
<1> DEFINE n == Len(q)
           S == Heaps(D)
           F == [p \in (1..n) \X S |-> Free(p[2], q[p[1]].slice)]
           Is(f) == f = [i \in 0..n |-> IF i = 0 THEN h ELSE Free(f[i - 1], q[i].slice)]
           G == CHOOSE f : Is(f)
<1>1. n \in Nat /\ \A i \in 1..n : q[i].slice \in Slices \cup {NoSlice}
  BY BufsFacts
<1>2. ASSUME NEW i \in 1..n, NEW g \in S
      PROVE  Free(g, q[i].slice) \in S /\ F[<<i, g>>] = Free(g, q[i].slice)
  <2>1. Free(g, q[i].slice) \in Heaps(D)
    BY <1>1, FreeType
  <2> QED BY <2>1
<1>3. F \in [(1..n) \X S -> S]
  BY <1>2
<1>4. FreeAll(h, q) = G[n] /\ n = Len(q)
  BY DEF FreeAll
<1>10. h \in S
  OBVIOUS
<1> HIDE DEF n, S, F, Is, G
<1>5. PICK f \in [0..n -> S] : Follows(f, F, h, n)
  BY <1>1, <1>3, <1>10, Iterates
<1>6. ASSUME NEW i \in 0..n
      PROVE  f[i] = IF i = 0 THEN h ELSE Free(f[i - 1], q[i].slice)
  <2>1. CASE i = 0
    BY <1>5, <2>1 DEF Follows
  <2>2. CASE i # 0
    <3>1. i \in 1..n /\ i - 1 \in 0..n
      BY <1>1, <2>2, SMT
    <3>2. f[i - 1] \in S
      BY <3>1
    <3> QED BY <1>2, <1>5, <2>2, <3>1, <3>2 DEF Follows
  <2> QED BY <2>1, <2>2
<1>7. Is(f)
  <2>1. f = [i \in 0..n |-> f[i]]
    OBVIOUS
  <2> QED BY <1>6, <2>1 DEF Is
<1>8. Is(G)
  BY <1>7 DEF G
<1>9. G[0] = h /\ \A i \in 1..n : G[i] = Free(G[i - 1], q[i].slice)
  BY <1>1, <1>8, SMT DEF Is
<1> QED BY <1>4, <1>9

(* The rounds of BufferSlice.Ref.                                            *)
LEMMA RefAllRuns ==
    ASSUME NEW D, Blank \in D, NEW h \in Heaps(D), NEW q \in Bufs
    PROVE  \E f : /\ RefAll(h, q) = f[Len(q)] /\ f[0] = h
                 /\ \A i \in 1..Len(q) : f[i] = Ref(f[i - 1], q[i].slice)
<1> DEFINE n == Len(q)
           S == Heaps(D)
           F == [p \in (1..n) \X S |-> Ref(p[2], q[p[1]].slice)]
           Is(f) == f = [i \in 0..n |-> IF i = 0 THEN h ELSE Ref(f[i - 1], q[i].slice)]
           G == CHOOSE f : Is(f)
<1>1. n \in Nat /\ \A i \in 1..n : q[i].slice \in Slices \cup {NoSlice}
  BY BufsFacts
<1>2. ASSUME NEW i \in 1..n, NEW g \in S
      PROVE  Ref(g, q[i].slice) \in S /\ F[<<i, g>>] = Ref(g, q[i].slice)
  <2>1. Ref(g, q[i].slice) \in Heaps(D)
    BY <1>1, FreeType
  <2> QED BY <2>1
<1>3. F \in [(1..n) \X S -> S]
  BY <1>2
<1>4. RefAll(h, q) = G[n] /\ n = Len(q)
  BY DEF RefAll
<1>10. h \in S
  OBVIOUS
<1> HIDE DEF n, S, F, Is, G
<1>5. PICK f \in [0..n -> S] : Follows(f, F, h, n)
  BY <1>1, <1>3, <1>10, Iterates
<1>6. ASSUME NEW i \in 0..n
      PROVE  f[i] = IF i = 0 THEN h ELSE Ref(f[i - 1], q[i].slice)
  <2>1. CASE i = 0
    BY <1>5, <2>1 DEF Follows
  <2>2. CASE i # 0
    <3>1. i \in 1..n /\ i - 1 \in 0..n
      BY <1>1, <2>2, SMT
    <3>2. f[i - 1] \in S
      BY <3>1
    <3> QED BY <1>2, <1>5, <2>2, <3>1, <3>2 DEF Follows
  <2> QED BY <2>1, <2>2
<1>7. Is(f)
  <2>1. f = [i \in 0..n |-> f[i]]
    OBVIOUS
  <2> QED BY <1>6, <2>1 DEF Is
<1>8. Is(G)
  BY <1>7 DEF G
<1>9. G[0] = h /\ \A i \in 1..n : G[i] = Ref(G[i - 1], q[i].slice)
  BY <1>1, <1>8, SMT DEF Is
<1> QED BY <1>4, <1>9

(* Freeing a sequence of buffers takes their references off the counters.    *)
LEMMA FreeAllCounts ==
    ASSUME NEW D, Blank \in D, NEW h \in Heaps(D), Sound(h), NEW q \in Bufs,
           \A x \in Slices : h.refs[x] >= In(x, q)
    PROVE  /\ FreeAll(h, q) \in Heaps(D) /\ Sound(FreeAll(h, q))
           /\ \A x \in Slices : FreeAll(h, q).refs[x] = h.refs[x] - In(x, q)
<1> DEFINE n == Len(q)
           Done(g, i) == /\ g \in Heaps(D) /\ Sound(g)
                         /\ \A x \in Slices : g.refs[x] = h.refs[x] - InFirst(x, q, i)
<1>1. PICK f : /\ FreeAll(h, q) = f[n] /\ f[0] = h
               /\ \A i \in 1..n : f[i] = Free(f[i - 1], q[i].slice)
  BY FreeAllRuns, SMT
<1> DEFINE T == {i \in 0..n : Done(f[i], i)}
<1>2. n \in Nat /\ \A i \in 1..n : q[i].slice \in Slices \cup {NoSlice}
  BY BufsFacts
<1>3. \A x \in Slices : h.refs[x] \in Int
  BY DEF Heaps
<1>4. 0 \in T
  <2>1. \A x \in Slices : InFirst(x, q, 0) = 0
    BY InFirstFacts
  <2> QED BY <1>1, <1>2, <1>3, <2>1, SMT
<1>5. ASSUME NEW i \in 0..(n - 1), i \in T
      PROVE  i + 1 \in T
  <2> DEFINE g == f[i]
             s == q[i + 1].slice
  <2>1. Done(g, i) /\ i + 1 \in 1..n /\ i + 1 \in 0..n /\ (i + 1) - 1 = i
    BY <1>2, <1>5, Successor
  <2>2. f[i + 1] = Free(g, s) /\ s \in Slices \cup {NoSlice}
    BY <1>1, <1>2, <2>1
  <2>3. ASSUME NEW x \in Slices
        PROVE  /\ InFirst(x, q, i) \in Nat /\ In(x, q) \in Nat
               /\ InFirst(x, q, i + 1) = InFirst(x, q, i) + (IF s = x THEN 1 ELSE 0)
               /\ InFirst(x, q, i + 1) <= In(x, q)
    BY InFirstFacts
  <2> HIDE DEF g, s
  <2>4. s \in Slices => g.refs[s] > 0
    BY <1>3, <2>1, <2>3, SMT
  <2>5. /\ Free(g, s) \in Heaps(D) /\ Sound(Free(g, s))
        /\ \A x \in Slices : Free(g, s).refs[x] = g.refs[x] - (IF x = s THEN 1 ELSE 0)
    BY <2>1, <2>2, <2>4, FreeCounts
  <2>6. ASSUME NEW x \in Slices
        PROVE  f[i + 1].refs[x] = h.refs[x] - InFirst(x, q, i + 1)
    <3>1. f[i + 1].refs[x] = g.refs[x] - (IF x = s THEN 1 ELSE 0)
      BY <2>2, <2>5
    <3> QED BY <1>3, <2>1, <2>3, <3>1, SMT
  <2> QED BY <2>1, <2>2, <2>5, <2>6
<1>6. n \in T
  <2> HIDE DEF T
  <2> QED BY <1>2, <1>4, <1>5, Reaches
<1>7. \A x \in Slices : InFirst(x, q, n) = In(x, q)
  BY InFirstFacts
<1> QED BY <1>1, <1>6, <1>7

(* Referencing a sequence of buffers adds its references.                    *)
LEMMA RefAllCounts ==
    ASSUME NEW D, Blank \in D, NEW h \in Heaps(D), Sound(h), NEW q \in Bufs,
           \A x \in Slices : In(x, q) > 0 => h.refs[x] > 0
    PROVE  /\ RefAll(h, q) \in Heaps(D) /\ Sound(RefAll(h, q))
           /\ \A x \in Slices : RefAll(h, q).refs[x] = h.refs[x] + In(x, q)
<1> DEFINE n == Len(q)
           Done(g, i) == /\ g \in Heaps(D) /\ Sound(g)
                         /\ \A x \in Slices : g.refs[x] = h.refs[x] + InFirst(x, q, i)
<1>1. PICK f : /\ RefAll(h, q) = f[n] /\ f[0] = h
               /\ \A i \in 1..n : f[i] = Ref(f[i - 1], q[i].slice)
  BY RefAllRuns, SMT
<1> DEFINE T == {i \in 0..n : Done(f[i], i)}
<1>2. n \in Nat /\ \A i \in 1..n : q[i].slice \in Slices \cup {NoSlice}
  BY BufsFacts
<1>3. \A x \in Slices : h.refs[x] \in Int
  BY DEF Heaps
<1>4. 0 \in T
  <2>1. \A x \in Slices : InFirst(x, q, 0) = 0
    BY InFirstFacts
  <2> QED BY <1>1, <1>2, <1>3, <2>1, SMT
<1>5. ASSUME NEW i \in 0..(n - 1), i \in T
      PROVE  i + 1 \in T
  <2> DEFINE g == f[i]
             s == q[i + 1].slice
  <2>1. Done(g, i) /\ i + 1 \in 1..n /\ i + 1 \in 0..n /\ (i + 1) - 1 = i
    BY <1>2, <1>5, Successor
  <2>2. f[i + 1] = Ref(g, s) /\ s \in Slices \cup {NoSlice}
    BY <1>1, <1>2, <2>1
  <2>3. ASSUME NEW x \in Slices
        PROVE  /\ InFirst(x, q, i) \in Nat /\ In(x, q) \in Nat
               /\ InFirst(x, q, i + 1) = InFirst(x, q, i) + (IF s = x THEN 1 ELSE 0)
               /\ InFirst(x, q, i + 1) <= In(x, q)
    BY InFirstFacts
  <2> HIDE DEF g, s
  <2>4. s \in Slices => g.refs[s] > 0
    BY <1>3, <2>1, <2>3, SMT
  <2>5. /\ Ref(g, s) \in Heaps(D) /\ Sound(Ref(g, s))
        /\ \A x \in Slices : Ref(g, s).refs[x] = g.refs[x] + (IF x = s THEN 1 ELSE 0)
    BY <2>1, <2>2, <2>4, RefCounts
  <2>6. ASSUME NEW x \in Slices
        PROVE  f[i + 1].refs[x] = h.refs[x] + InFirst(x, q, i + 1)
    <3>1. f[i + 1].refs[x] = g.refs[x] + (IF x = s THEN 1 ELSE 0)
      BY <2>2, <2>5
    <3> QED BY <1>3, <2>1, <2>3, <3>1, SMT
  <2> QED BY <2>1, <2>2, <2>5, <2>6
<1>6. n \in T
  <2> HIDE DEF T
  <2> QED BY <1>2, <1>4, <1>5, Reaches
<1>7. \A x \in Slices : InFirst(x, q, n) = In(x, q)
  BY InFirstFacts
<1> QED BY <1>1, <1>6, <1>7

(* The total length, from the front.                                         *)
LEMMA TotalRuns ==
    ASSUME NEW q \in Bufs
    PROVE  \E f \in [0..Len(q) -> Nat] :
              /\ TotalLen(q) = f[Len(q)] /\ f[0] = 0
              /\ \A i \in 1..Len(q) : f[i] = f[i - 1] + q[i].len
<1> DEFINE n == Len(q)
           F == [p \in (1..n) \X Nat |-> p[2] + q[p[1]].len]
           Is(f) == f = [i \in 0..n |-> IF i = 0 THEN 0 ELSE f[i - 1] + q[i].len]
           G == CHOOSE f : Is(f)
<1>1. n \in Nat /\ \A i \in 1..n : q[i].len \in Nat
  BY BufsFacts
<1>2. ASSUME NEW i \in 1..n, NEW g \in Nat
      PROVE  g + q[i].len \in Nat /\ F[<<i, g>>] = g + q[i].len
  BY <1>1, SMT
<1>3. F \in [(1..n) \X Nat -> Nat] /\ 0 \in Nat
  BY <1>2
<1>4. TotalLen(q) = G[n] /\ n = Len(q)
  BY DEF TotalLen
<1> HIDE DEF n, F, Is, G
<1>5. PICK f \in [0..n -> Nat] : Follows(f, F, 0, n)
  BY <1>1, <1>3, Iterates
<1>6. ASSUME NEW i \in 0..n
      PROVE  f[i] = IF i = 0 THEN 0 ELSE f[i - 1] + q[i].len
  <2>1. CASE i = 0
    BY <1>5, <2>1 DEF Follows
  <2>2. CASE i # 0
    <3>1. i \in 1..n /\ i - 1 \in 0..n
      BY <1>1, <2>2, SMT
    <3>2. f[i - 1] \in Nat
      BY <3>1
    <3> QED BY <1>2, <1>5, <2>2, <3>1, <3>2 DEF Follows
  <2> QED BY <2>1, <2>2
<1>7. Is(f)
  <2>1. f = [i \in 0..n |-> f[i]]
    OBVIOUS
  <2> QED BY <1>6, <2>1 DEF Is
<1>8. Is(G)
  BY <1>7 DEF G
<1>9. G[0] = 0 /\ \A i \in 1..n : G[i] = G[i - 1] + q[i].len
  BY <1>1, <1>8, SMT DEF Is
<1>10. \A i \in 0..n : G[i] \in Nat
  <2> DEFINE T(m) == {i \in 0..m : G[i] \in Nat}
  <2>1. ASSUME NEW m \in 0..n PROVE m \in T(m)
    <3>1. 0 \in T(m)
      BY <1>9, <2>1, SMT
    <3>2. ASSUME NEW i \in 0..(m - 1), i \in T(m) PROVE i + 1 \in T(m)
      <4>0. m \in Nat /\ m <= n /\ n \in Nat
        BY <1>1, <2>1, SMT
      <4> HIDE DEF n
      <4>1. i + 1 \in 1..n /\ (i + 1) - 1 = i /\ i + 1 \in 0..m /\ G[i] \in Nat
        <5>1. i + 1 \in 1..n /\ (i + 1) - 1 = i /\ i + 1 \in 0..m
          BY <4>0, SMT
        <5> QED BY <3>2, <5>1
      <4>2. G[i + 1] = G[i] + q[i + 1].len /\ q[i + 1].len \in Nat
        BY <1>1, <1>9, <4>1
      <4> QED BY <4>1, <4>2, SMT
    <3>3. m \in Nat
      BY <1>1, SMT
    <3> HIDE DEF T
    <3> QED BY <3>1, <3>2, <3>3, Reaches
  <2> QED BY <2>1
<1>11. G \in [0..n -> Nat]
  <2>1. G = [i \in 0..n |-> G[i]]
    BY <1>8 DEF Is
  <2> QED BY <1>10, <2>1
<1> QED BY <1>4, <1>9, <1>11

(* The length of a slice of buffers is that of the first and of the others.  *)
LEMMA TotalFacts ==
    ASSUME NEW q \in Bufs
    PROVE  /\ TotalLen(q) \in Nat
           /\ q = <<>> => TotalLen(q) = 0
           /\ q # <<>> => TotalLen(q) = q[1].len + TotalLen(Tail(q))
<1> DEFINE n == Len(q)
           w == Tail(q)
<1>1. PICK f \in [0..n -> Nat] :
              /\ TotalLen(q) = f[n] /\ f[0] = 0
              /\ \A i \in 1..n : f[i] = f[i - 1] + q[i].len
  BY TotalRuns
<1>2. n \in Nat /\ \A i \in 1..n : q[i].len \in Nat
  BY BufsFacts
<1>3. TotalLen(q) \in Nat
  BY <1>1, <1>2, SMT
<1>4. q = <<>> => TotalLen(q) = 0
  BY <1>1
<1>5. ASSUME q # <<>>
      PROVE  TotalLen(q) = q[1].len + TotalLen(w)
  <2>1. w \in Bufs /\ Len(w) = n - 1 /\ n \in Nat \ {0} /\ \A j \in 1..(n - 1) : w[j] = q[j + 1]
    BY <1>5, InTail
  <2> HIDE DEF n, w
  <2>2. PICK g \in [0..(n - 1) -> Nat] :
              /\ TotalLen(w) = g[n - 1] /\ g[0] = 0
              /\ \A i \in 1..(n - 1) : g[i] = g[i - 1] + w[i].len
    <3> DEFINE l == n - 1
    <3>1. Len(w) = l
      BY <2>1
    <3> HIDE DEF l
    <3>2. PICK g \in [0..l -> Nat] :
                /\ TotalLen(w) = g[l] /\ g[0] = 0
                /\ \A i \in 1..l : g[i] = g[i - 1] + w[i].len
      BY <2>1, <3>1, TotalRuns
    <3> QED BY <3>2 DEF l
  <2> DEFINE T == {i \in 0..(n - 1) : f[i + 1] = q[1].len + g[i]}
  <2>3. 0 \in T
    <3>1. f[1] = f[0] + q[1].len /\ q[1].len \in Nat /\ 0 \in 0..(n - 1)
      BY <1>1, <1>2, <2>1, SMT
    <3> QED BY <1>1, <2>2, <3>1, SMT
  <2>4. ASSUME NEW i \in 0..((n - 1) - 1), i \in T
        PROVE  i + 1 \in T
    <3>1. /\ i + 1 \in 1..(n - 1) /\ (i + 1) + 1 \in 1..n /\ (i + 1) - 1 = i
          /\ ((i + 1) + 1) - 1 = i + 1 /\ 1 \in 1..n /\ i \in 0..(n - 1) /\ i + 1 \in 0..(n - 1)
      BY <2>1, <2>4, SMT
    <3>2. /\ f[(i + 1) + 1] = f[i + 1] + q[(i + 1) + 1].len
          /\ g[i + 1] = g[i] + q[(i + 1) + 1].len
          /\ f[i + 1] = q[1].len + g[i]
      BY <1>1, <2>1, <2>2, <2>4, <3>1
    <3>3. q[1].len \in Nat /\ q[(i + 1) + 1].len \in Nat /\ g[i] \in Nat
      BY <1>2, <3>1
    <3>4. f[(i + 1) + 1] = q[1].len + g[i + 1]
      BY <3>2, <3>3, SMT
    <3> QED BY <3>1, <3>4
  <2>5. n - 1 \in T
    <3>1. n - 1 \in Nat
      BY <2>1, SMT
    <3> HIDE DEF T
    <3> QED BY <2>3, <2>4, <3>1, Reaches
  <2>6. (n - 1) + 1 = n
    BY <2>1, SMT
  <2> QED BY <1>1, <2>2, <2>5, <2>6
<1> QED BY <1>3, <1>4, <1>5

(* A slice with a buffer has a reference.                                    *)
LEMMA InPositive ==
    ASSUME NEW q \in Bufs, NEW i \in 1..Len(q)
    PROVE  In(q[i].slice, q) > 0
<1> DEFINE w == Without(q, i)
           s == q[i].slice
<1>1. w \in Bufs /\ In(s, w) = In(s, q) - (IF q[i].slice = s THEN 1 ELSE 0) /\ In(s, q) \in Nat
  BY InWithout
<1> HIDE DEF w
<1>2. In(s, w) \in Nat
  BY <1>1, BufsFacts, InNat
<1> QED BY <1>1, <1>2, SMT

(* A sequence of one buffer.                                                 *)
LEMMA InOne ==
    ASSUME NEW b \in [slice : Slices \cup {NoSlice}, len : Nat]
    PROVE  <<b>> \in Bufs /\ \A s : In(s, <<b>>) = (IF b.slice = s THEN 1 ELSE 0)
<1> DEFINE q == <<>>
<1>1. q \in Bufs /\ Append(q, b) = <<b>>
  BY SMT DEF Bufs
<1>2. \A s : In(s, q) = 0
  BY InEmpty
<1> HIDE DEF q
<1>3. ASSUME NEW s
      PROVE  /\ Append(q, b) \in Bufs
             /\ In(s, Append(q, b)) = In(s, q) + (IF b.slice = s THEN 1 ELSE 0)
  BY <1>1, InAppend
<1>4. ASSUME NEW s PROVE In(s, <<b>>) = (IF b.slice = s THEN 1 ELSE 0)
  BY <1>1, <1>2, <1>3, SMT
<1> QED BY <1>1, <1>3, <1>4

-----------------------------------------------------------------------------
(* The Reader: its states, with references of others, base, to the slices.   *)
Readers(D, base) ==
    {r \in [heap : Heaps(D), data : Bufs, len : Nat, idx : Nat] :
        /\ Sound(r.heap)
        /\ r.len = TotalLen(r.data) - r.idx
        /\ r.data # <<>> => r.idx <= r.data[1].len
        /\ \A x \in Slices : r.heap.refs[x] = base[x] + In(x, r.data)}

(* What is known of a reader that accounts for the references it has.        *)
LEMMA ReaderFacts ==
    ASSUME NEW D, NEW base \in [Slices -> Nat], NEW r \in Readers(D, base)
    PROVE  /\ r.heap \in Heaps(D) /\ r.data \in Bufs /\ r.len \in Nat /\ r.idx \in Nat
           /\ r = [heap |-> r.heap, data |-> r.data, len |-> r.len, idx |-> r.idx]
           /\ Sound(r.heap)
           /\ r.len = TotalLen(r.data) - r.idx
           /\ r.data # <<>> => r.idx <= r.data[1].len
           /\ \A x \in Slices : r.heap.refs[x] = base[x] + In(x, r.data)
           /\ r.data = <<>> => r.len = 0 /\ r.idx = 0
<1>1. /\ r.heap \in Heaps(D) /\ r.data \in Bufs /\ r.len \in Nat /\ r.idx \in Nat
      /\ r = [heap |-> r.heap, data |-> r.data, len |-> r.len, idx |-> r.idx]
  BY DEF Readers
<1>2. /\ Sound(r.heap)
      /\ r.len = TotalLen(r.data) - r.idx
      /\ r.data # <<>> => r.idx <= r.data[1].len
      /\ \A x \in Slices : r.heap.refs[x] = base[x] + In(x, r.data)
  BY DEF Readers
<1>3. r.data = <<>> => r.len = 0 /\ r.idx = 0
  <2>1. r.data = <<>> => TotalLen(r.data) = 0
    BY <1>1, TotalFacts
  <2> QED BY <1>1, <1>2, <2>1, SMT
<1> QED BY <1>1, <1>2, <1>3

(* The fields of a reader after the assignments of its methods.              *)
LEMMA ReaderUpdates ==
    ASSUME NEW A, NEW B, NEW C, NEW E, NEW r \in [heap : A, data : B, len : C, idx : E],
           NEW x \in A, NEW y \in B, NEW l \in C, NEW i \in E
    PROVE  /\ LET g == [r EXCEPT !.heap = x, !.data = y, !.idx = i]
              IN  /\ g \in [heap : A, data : B, len : C, idx : E]
                  /\ g.heap = x /\ g.data = y /\ g.len = r.len /\ g.idx = i
           /\ LET g == [r EXCEPT !.len = l, !.idx = i]
              IN  /\ g \in [heap : A, data : B, len : C, idx : E]
                  /\ g.heap = r.heap /\ g.data = r.data /\ g.len = l /\ g.idx = i
OBVIOUS

(* freeFirstBufferIfEmpty gives up the first buffer when it is read to its   *)
(* end, and takes no bytes from what is left.                                *)
LEMMA FreeFirstReads ==
    ASSUME NEW D, Blank \in D, NEW base \in [Slices -> Nat], NEW r \in Readers(D, base)
    PROVE  /\ FreeFirst(r) \in Readers(D, base)
           /\ FreeFirst(r).len = r.len
           /\ ~Finished(r) => FreeFirst(r) = r
           /\ Finished(r) => Len(FreeFirst(r).data) = Len(r.data) - 1
<1> USE ReaderFacts
<1>1. CASE ~Finished(r)
  BY <1>1 DEF FreeFirst
<1>2. CASE Finished(r)
  <2> DEFINE q == r.data
             s == q[1].slice
             h == Free(r.heap, s)
             g == [r EXCEPT !.heap = h, !.data = Tail(q), !.idx = 0]
  <2>1. q # <<>> /\ r.idx = q[1].len /\ FreeFirst(r) = g
    <3>1. q # <<>> /\ r.idx = q[1].len
      BY <1>2 DEF Finished
    <3> QED BY <1>2, <3>1 DEF FreeFirst
  <2>2. /\ q \in Bufs /\ r.heap \in Heaps(D) /\ r.len \in Nat /\ r.idx \in Nat /\ Sound(r.heap)
        /\ r.len = TotalLen(q) - r.idx
        /\ \A x \in Slices : r.heap.refs[x] = base[x] + In(x, q)
    OBVIOUS
  <2> HIDE ReaderFacts
  <2> HIDE DEF q
  <2>3. /\ Tail(q) \in Bufs /\ Len(Tail(q)) = Len(q) - 1 /\ Len(q) \in Nat \ {0}
        /\ q[1] \in [slice : Slices \cup {NoSlice}, len : Nat]
        /\ \A x : /\ In(x, Tail(q)) = In(x, q) - (IF q[1].slice = x THEN 1 ELSE 0)
                 /\ In(x, q) \in Nat
    BY <2>1, <2>2, InTail
  <2>4. s \in Slices \cup {NoSlice} /\ q[1].len \in Nat /\ \A x \in Slices : base[x] \in Nat
    BY <2>3
  <2>9. \A x : In(x, Tail(q)) \in Nat
    <3>1. Len(Tail(q)) \in Nat
      BY <2>3, SMT
    <3> QED BY <3>1, InNat
  <2> HIDE DEF s
  <2>5. s \in Slices => r.heap.refs[s] > 0
    <3>1. ASSUME s \in Slices PROVE In(s, q) > 0
      BY <2>3, <2>9, SMT DEF s
    <3> QED BY <2>2, <2>3, <2>4, <3>1, SMT
  <2>6. /\ h \in Heaps(D) /\ Sound(h)
        /\ \A x \in Slices : h.refs[x] = r.heap.refs[x] - (IF x = s THEN 1 ELSE 0)
    BY <2>2, <2>4, <2>5, FreeCounts
  <2> HIDE DEF h
  <2>7. r.len = TotalLen(Tail(q)) - 0
    <3>1. TotalLen(q) = q[1].len + TotalLen(Tail(q)) /\ TotalLen(Tail(q)) \in Nat
      BY <2>1, <2>2, <2>3, TotalFacts
    <3> QED BY <2>1, <2>2, <2>4, <3>1, SMT
  <2>8. ASSUME NEW x \in Slices
        PROVE  h.refs[x] = base[x] + In(x, Tail(q))
    <3>1. /\ h.refs[x] = (base[x] + In(x, q)) - (IF x = s THEN 1 ELSE 0)
          /\ In(x, Tail(q)) = In(x, q) - (IF s = x THEN 1 ELSE 0)
          /\ In(x, q) \in Nat /\ base[x] \in Nat
      BY <2>2, <2>3, <2>4, <2>6 DEF s
    <3> QED BY <3>1, SMT
  <2>10. Tail(q) # <<>> => 0 <= Tail(q)[1].len
    <3>1. Tail(q) # <<>> => Tail(q)[1] \in [slice : Slices \cup {NoSlice}, len : Nat]
      BY <2>3, InTail
    <3> QED BY <3>1, SMT
  <2>11. g \in Readers(D, base)
    <3>1. r \in [heap : Heaps(D), data : Bufs, len : Nat, idx : Nat]
      BY DEF Readers
    <3>2. /\ g \in [heap : Heaps(D), data : Bufs, len : Nat, idx : Nat]
          /\ g.heap = h /\ g.data = Tail(q) /\ g.len = r.len /\ g.idx = 0
      BY <2>3, <2>6, <3>1, ReaderUpdates
    <3> HIDE DEF g
    <3> QED BY <2>6, <2>7, <2>8, <2>10, <3>2 DEF Readers
  <2> QED BY <1>2, <2>1, <2>3, <2>11, SMT DEF q
<1> QED BY <1>1, <1>2

(* Copying from the first buffer: what is left to copy and what is left to   *)
(* read go down together, and a copy that leaves something uses it up.       *)
LEMMA CopiedReads ==
    ASSUME NEW D, Blank \in D, NEW base \in [Slices -> Nat], NEW r \in Readers(D, base),
           r.data # <<>>, NEW n \in Nat
    PROVE  LET c == Copied(r, n)
           IN  /\ c \in [left : Nat, r : Readers(D, base)]
               /\ c.r.len + n = r.len + c.left
               /\ c.left = 0 \/ Len(c.r.data) = Len(r.data) - 1
               /\ ~Finished(r) /\ n > 0 => c.r.len < r.len
<1> DEFINE q == r.data
           k == IF n <= q[1].len - r.idx THEN n ELSE q[1].len - r.idx
           f == [r EXCEPT !.len = r.len - k, !.idx = r.idx + k]
           c == Copied(r, n)
<1>1. /\ q \in Bufs /\ r.heap \in Heaps(D) /\ r.len \in Nat /\ r.idx \in Nat /\ Sound(r.heap)
      /\ r = [heap |-> r.heap, data |-> q, len |-> r.len, idx |-> r.idx]
      /\ r.len = TotalLen(q) - r.idx /\ r.idx <= q[1].len /\ q # <<>>
      /\ \A x \in Slices : r.heap.refs[x] = base[x] + In(x, q)
  BY ReaderFacts
<1>2. c = [left |-> n - k, r |-> FreeFirst(f)]
  BY DEF Copied
<1>3. Finished(r) <=> r.idx = q[1].len
  BY DEF Finished
<1> HIDE DEF q
<1>4. q[1].len \in Nat /\ TotalLen(q) = q[1].len + TotalLen(Tail(q)) /\ TotalLen(Tail(q)) \in Nat
  <2>1. Tail(q) \in Bufs /\ q[1] \in [slice : Slices \cup {NoSlice}, len : Nat]
    BY <1>1, InTail
  <2>2. q[1].len \in Nat
    BY <2>1
  <2> QED BY <1>1, <2>1, <2>2, TotalFacts
<1>5. /\ k \in Nat /\ k <= n /\ r.len - k \in Nat /\ r.idx + k \in Nat /\ r.idx + k <= q[1].len
      /\ r.len - k = TotalLen(q) - (r.idx + k)
      /\ k = n \/ r.idx + k = q[1].len
      /\ r.idx # q[1].len /\ n > 0 => k > 0
  <2>1. PICK l \in Nat, t \in Nat, m \in Nat, i \in Nat :
              l = q[1].len /\ t = TotalLen(Tail(q)) /\ m = r.len /\ i = r.idx
    BY <1>1, <1>4
  <2>2. m = (l + t) - i /\ i <= l /\ TotalLen(q) = l + t
    BY <1>1, <1>4, <2>1
  <2>3. k = (IF n <= l - i THEN n ELSE l - i)
    BY <2>1
  <2> HIDE DEF k
  <2>4. /\ k \in Nat /\ k <= n /\ m - k \in Nat /\ i + k \in Nat /\ i + k <= l
        /\ m - k = (l + t) - (i + k)
        /\ k = n \/ i + k = l
        /\ i # l /\ n > 0 => k > 0
    <3>1. n \in Nat
      OBVIOUS
    <3>2. m = (l + t) - i /\ i <= l
      BY <2>2
    <3>3. CASE n <= l - i
      <4>1. k = n
        BY <2>3, <3>3
      <4> QED BY <3>1, <3>2, <3>3, <4>1, SMT
    <3>4. CASE ~(n <= l - i)
      <4>1. k = l - i
        BY <2>3, <3>4
      <4> QED BY <3>1, <3>2, <3>4, <4>1, SMT
    <3> QED BY <3>3, <3>4
  <2> QED BY <2>1, <2>2, <2>4
<1> HIDE DEF k, c
<1>7. f \in Readers(D, base) /\ f.len = r.len - k /\ f.data = q /\ f.idx = r.idx + k
  <2>1. r \in [heap : Heaps(D), data : Bufs, len : Nat, idx : Nat]
    BY DEF Readers
  <2>2. /\ f \in [heap : Heaps(D), data : Bufs, len : Nat, idx : Nat]
        /\ f.heap = r.heap /\ f.data = q /\ f.len = r.len - k /\ f.idx = r.idx + k
    BY <1>5, <2>1, ReaderUpdates DEF q
  <2> HIDE DEF f
  <2> QED BY <1>1, <1>5, <2>2 DEF Readers
<1> HIDE DEF f
<1>8. /\ FreeFirst(f) \in Readers(D, base) /\ FreeFirst(f).len = f.len
      /\ Finished(f) => Len(FreeFirst(f).data) = Len(q) - 1
  BY <1>7, FreeFirstReads
<1>9. c.left = n - k /\ c.r = FreeFirst(f) /\ c.left \in Nat /\ c \in [left : Nat, r : Readers(D, base)]
  BY <1>2, <1>5, <1>8, SMT
<1>10. c.left = 0 \/ Len(c.r.data) = Len(q) - 1
  <2>1. CASE k = n
    BY <1>5, <1>9, <2>1, SMT
  <2>2. CASE r.idx + k = q[1].len
    <3>1. Finished(f)
      BY <1>1, <1>7, <2>2 DEF Finished
    <3> QED BY <1>8, <1>9, <3>1
  <2> QED BY <1>5, <2>1, <2>2
<1>11. c.r.len = r.len - k /\ c.r.len + n = r.len + c.left
  BY <1>1, <1>5, <1>7, <1>8, <1>9, SMT
<1>12. ~Finished(r) /\ n > 0 => c.r.len < r.len
  BY <1>1, <1>3, <1>5, <1>11, SMT
<1> QED BY <1>9, <1>10, <1>11, <1>12 DEF c, q

Ended(c) == c.left = 0 \/ c.r.len = 0

(* A round of Read copies as much as it counts, and finishes the first       *)
(* buffer or the loop.                                                       *)
LEMMA RoundReads ==
    ASSUME NEW D, Blank \in D, NEW base \in [Slices -> Nat],
           NEW c \in [left : Nat, r : Readers(D, base)]
    PROVE  /\ Round(c) \in [left : Nat, r : Readers(D, base)]
           /\ Round(c).r.len + c.left = c.r.len + Round(c).left
           /\ Ended(c) => Round(c) = c
           /\ Ended(Round(c)) \/ Len(Round(c).r.data) = Len(c.r.data) - 1
<1>1. c.left \in Nat /\ c.r \in Readers(D, base) /\ c.r.len \in Nat
  <2>1. c.left \in Nat /\ c.r \in Readers(D, base)
    OBVIOUS
  <2> QED BY <2>1, ReaderFacts
<1>2. CASE Ended(c)
  <2>1. Round(c) = c
    BY <1>2 DEF Round, Ended
  <2> QED BY <1>1, <1>2, <2>1
<1>3. CASE ~Ended(c)
  <2>1. Round(c) = Copied(c.r, c.left)
    BY <1>3 DEF Round, Ended
  <2>2. c.r.data # <<>>
    BY <1>1, <1>3, ReaderFacts DEF Ended
  <2>3. /\ Copied(c.r, c.left) \in [left : Nat, r : Readers(D, base)]
        /\ Copied(c.r, c.left).r.len + c.left = c.r.len + Copied(c.r, c.left).left
        /\ Copied(c.r, c.left).left = 0 \/ Len(Copied(c.r, c.left).r.data) = Len(c.r.data) - 1
    <3> DEFINE r == c.r
               n == c.left
    <3>1. r \in Readers(D, base) /\ r.data # <<>> /\ n \in Nat
      BY <1>1, <2>2
    <3> HIDE DEF r, n
    <3>2. /\ Copied(r, n) \in [left : Nat, r : Readers(D, base)]
          /\ Copied(r, n).r.len + n = r.len + Copied(r, n).left
          /\ Copied(r, n).left = 0 \/ Len(Copied(r, n).r.data) = Len(r.data) - 1
      BY <3>1, CopiedReads, SMT
    <3> QED BY <3>2 DEF r, n
  <2> QED BY <1>3, <2>1, <2>3 DEF Ended
<1> QED BY <1>2, <1>3

(* The rounds of Read: there are never more than buffers.                    *)
LEMMA ReadRuns ==
    ASSUME NEW D, Blank \in D, NEW base \in [Slices -> Nat],
           NEW r \in Readers(D, base), NEW n \in Nat
    PROVE  \E f : /\ ReadLoop(r, n) = f[Len(r.data)] /\ f[0] = [left |-> n, r |-> r]
                 /\ \A i \in 1..Len(r.data) : f[i] = Round(f[i - 1])
<1> DEFINE m == Len(r.data)
           S == [left : Nat, r : Readers(D, base)]
           b == [left |-> n, r |-> r]
           F == [p \in (1..m) \X S |-> Round(p[2])]
           Is(f) == f = [i \in 0..m |-> IF i = 0 THEN b ELSE Round(f[i - 1])]
           G == CHOOSE f : Is(f)
<1>1. m \in Nat
  BY ReaderFacts, BufsFacts
<1>2. ASSUME NEW i \in 1..m, NEW g \in S
      PROVE  Round(g) \in S /\ F[<<i, g>>] = Round(g)
  <2>1. Round(g) \in S
    BY RoundReads
  <2> QED BY <2>1
<1>3. F \in [(1..m) \X S -> S]
  BY <1>2
<1>4. ReadLoop(r, n) = G[m] /\ m = Len(r.data)
  BY DEF ReadLoop
<1>10. b \in S /\ b = [left |-> n, r |-> r]
  OBVIOUS
<1> HIDE DEF m, S, F, Is, G, b
<1>5. PICK f \in [0..m -> S] : Follows(f, F, b, m)
  BY <1>1, <1>3, <1>10, Iterates
<1>6. ASSUME NEW i \in 0..m
      PROVE  f[i] = IF i = 0 THEN b ELSE Round(f[i - 1])
  <2>1. CASE i = 0
    BY <1>5, <2>1 DEF Follows
  <2>2. CASE i # 0
    <3>1. i \in 1..m /\ i - 1 \in 0..m
      BY <1>1, <2>2, SMT
    <3>2. f[i - 1] \in S
      BY <3>1
    <3> QED BY <1>2, <1>5, <2>2, <3>1, <3>2 DEF Follows
  <2> QED BY <2>1, <2>2
<1>7. Is(f)
  <2>1. f = [i \in 0..m |-> f[i]]
    OBVIOUS
  <2> QED BY <1>6, <2>1 DEF Is
<1>8. Is(G)
  BY <1>7 DEF G
<1>9. G[0] = b /\ \A i \in 1..m : G[i] = Round(G[i - 1])
  BY <1>1, <1>8, SMT DEF Is
<1> QED BY <1>4, <1>9, <1>10

(* Read takes what is asked for, or all there is.                            *)
LEMMA ReadReads ==
    ASSUME NEW D, Blank \in D, NEW base \in [Slices -> Nat],
           NEW r \in Readers(D, base), NEW n \in Nat
    PROVE  /\ ReadLoop(r, n).r \in Readers(D, base)
           /\ ReadLoop(r, n).r.len = IF n >= r.len THEN 0 ELSE r.len - n
<1> DEFINE m == Len(r.data)
           S == [left : Nat, r : Readers(D, base)]
<1>1. PICK f : /\ ReadLoop(r, n) = f[m] /\ f[0] = [left |-> n, r |-> r]
               /\ \A i \in 1..m : f[i] = Round(f[i - 1])
  BY ReadRuns, SMT
<1> DEFINE Done(c, i) == /\ c \in S
                         /\ c.r.len + n = r.len + c.left
                         /\ Ended(c) \/ Len(c.r.data) = m - i
           T == {i \in 0..m : Done(f[i], i)}
<1>2. m \in Nat /\ r.len \in Nat
  BY ReaderFacts, BufsFacts
<1>3. 0 \in T
  <2>1. f[0].left = n /\ f[0].r = r /\ f[0] \in S
    BY <1>1, SMT
  <2> QED BY <1>2, <2>1, SMT
<1>4. ASSUME NEW i \in 0..(m - 1), i \in T
      PROVE  i + 1 \in T
  <2> DEFINE c == f[i]
  <2>1. Done(c, i) /\ i + 1 \in 1..m /\ i + 1 \in 0..m /\ (i + 1) - 1 = i
    BY <1>2, <1>4, Successor
  <2>2. f[i + 1] = Round(c)
    BY <1>1, <2>1
  <2> HIDE DEF c
  <2>3. /\ Round(c) \in S
        /\ Round(c).r.len + c.left = c.r.len + Round(c).left
        /\ Ended(c) => Round(c) = c
        /\ Ended(Round(c)) \/ Len(Round(c).r.data) = Len(c.r.data) - 1
    BY <2>1, RoundReads
  <2>4. Round(c).r.len + n = r.len + Round(c).left
    <3>1. c.left \in Nat /\ c.r.len \in Nat
      BY <2>1, ReaderFacts
    <3>2. Round(c).left \in Nat /\ Round(c).r.len \in Nat
      BY <2>3, ReaderFacts
    <3>3. PICK a \in Nat, b \in Nat, a1 \in Nat, b1 \in Nat, e \in Nat :
                /\ a = c.left /\ b = c.r.len /\ a1 = Round(c).left /\ b1 = Round(c).r.len
                /\ e = r.len
      BY <1>2, <3>1, <3>2
    <3>4. b + n = e + a /\ b1 + a = b + a1
      BY <2>1, <2>3, <3>3
    <3>5. b1 + n = e + a1
      BY <3>4, SMT
    <3> QED BY <3>3, <3>5
  <2>5. Ended(Round(c)) \/ Len(Round(c).r.data) = m - (i + 1)
    <3>1. CASE Ended(c)
      BY <2>3, <3>1
    <3>2. CASE Len(c.r.data) = m - i
      BY <1>2, <2>3, <3>2, SMT
    <3> QED BY <2>1, <3>1, <3>2
  <2> QED BY <2>1, <2>2, <2>3, <2>4, <2>5
<1>5. m \in T
  <2> HIDE DEF T
  <2> QED BY <1>2, <1>3, <1>4, Reaches
<1>6. Done(f[m], m)
  BY <1>5
<1> DEFINE c == f[m]
<1> HIDE DEF c, m
<1>7. c.left \in Nat /\ c.r \in Readers(D, base) /\ c.r.len \in Nat
  <2>1. c.left \in Nat /\ c.r \in Readers(D, base)
    BY <1>6 DEF c
  <2> QED BY <2>1, ReaderFacts
<1>8. Ended(c)
  <2>1. ASSUME Len(c.r.data) = m - m PROVE c.r.len = 0
    <3>1. c.r.data \in Bufs /\ Len(c.r.data) = 0
      BY <1>2, <1>7, <2>1, ReaderFacts, SMT
    <3>2. c.r.data = <<>>
      BY <3>1, SMT DEF Bufs
    <3> QED BY <1>7, <3>2, ReaderFacts
  <2> QED BY <1>6, <2>1 DEF c, Ended
<1>9. c.r.len = IF n >= r.len THEN 0 ELSE r.len - n
  <2>1. c.r.len + n = r.len + c.left
    BY <1>6 DEF c
  <2>2. PICK a \in Nat, d0 \in Nat, e \in Nat : a = c.r.len /\ d0 = c.left /\ e = r.len
    BY <1>2, <1>7
  <2>3. a + n = e + d0 /\ (d0 = 0 \/ a = 0)
    BY <1>8, <2>1, <2>2 DEF Ended
  <2>4. a = IF n >= e THEN 0 ELSE e - n
    BY <2>3, SMT
  <2> QED BY <2>2, <2>4
<1> QED BY <1>1, <1>7, <1>9 DEF c

(* The rounds of the loop of ReadByte over empty buffers.                    *)
LEMMA SkipRuns ==
    ASSUME NEW D, Blank \in D, NEW base \in [Slices -> Nat], NEW r \in Readers(D, base)
    PROVE  \E f : /\ SkipEmpty(r) = f[Len(r.data)] /\ f[0] = r
                 /\ \A i \in 1..Len(r.data) : f[i] = FreeFirst(f[i - 1])
<1> DEFINE m == Len(r.data)
           S == Readers(D, base)
           F == [p \in (1..m) \X S |-> FreeFirst(p[2])]
           Is(f) == f = [i \in 0..m |-> IF i = 0 THEN r ELSE FreeFirst(f[i - 1])]
           G == CHOOSE f : Is(f)
<1>1. m \in Nat
  BY ReaderFacts, BufsFacts
<1>2. ASSUME NEW i \in 1..m, NEW g \in S
      PROVE  FreeFirst(g) \in S /\ F[<<i, g>>] = FreeFirst(g)
  <2>1. FreeFirst(g) \in S
    BY FreeFirstReads
  <2> QED BY <2>1
<1>3. F \in [(1..m) \X S -> S]
  BY <1>2
<1>4. SkipEmpty(r) = G[m] /\ m = Len(r.data)
  BY DEF SkipEmpty
<1>10. r \in S
  OBVIOUS
<1> HIDE DEF m, S, F, Is, G
<1>5. PICK f \in [0..m -> S] : Follows(f, F, r, m)
  BY <1>1, <1>3, <1>10, Iterates
<1>6. ASSUME NEW i \in 0..m
      PROVE  f[i] = IF i = 0 THEN r ELSE FreeFirst(f[i - 1])
  <2>1. CASE i = 0
    BY <1>5, <2>1 DEF Follows
  <2>2. CASE i # 0
    <3>1. i \in 1..m /\ i - 1 \in 0..m
      BY <1>1, <2>2, SMT
    <3>2. f[i - 1] \in S
      BY <3>1
    <3> QED BY <1>2, <1>5, <2>2, <3>1, <3>2 DEF Follows
  <2> QED BY <2>1, <2>2
<1>7. Is(f)
  <2>1. f = [i \in 0..m |-> f[i]]
    OBVIOUS
  <2> QED BY <1>6, <2>1 DEF Is
<1>8. Is(G)
  BY <1>7 DEF G
<1>9. G[0] = r /\ \A i \in 1..m : G[i] = FreeFirst(G[i - 1])
  BY <1>1, <1>8, SMT DEF Is
<1> QED BY <1>4, <1>9

(* ReadByte finds a byte, if there is one.                                   *)
LEMMA SkipReads ==
    ASSUME NEW D, Blank \in D, NEW base \in [Slices -> Nat], NEW r \in Readers(D, base)
    PROVE  /\ SkipEmpty(r) \in Readers(D, base)
           /\ SkipEmpty(r).len = r.len
           /\ ~Finished(SkipEmpty(r))
<1> DEFINE m == Len(r.data)
           S == Readers(D, base)
<1>1. PICK f : /\ SkipEmpty(r) = f[m] /\ f[0] = r
               /\ \A i \in 1..m : f[i] = FreeFirst(f[i - 1])
  BY SkipRuns, SMT
<1> DEFINE Done(c, i) == /\ c \in S /\ c.len = r.len
                         /\ ~Finished(c) \/ Len(c.data) = m - i
           T == {i \in 0..m : Done(f[i], i)}
<1>2. m \in Nat
  BY ReaderFacts, BufsFacts
<1>3. 0 \in T
  BY <1>1, <1>2, SMT
<1>4. ASSUME NEW i \in 0..(m - 1), i \in T
      PROVE  i + 1 \in T
  <2> DEFINE c == f[i]
  <2>1. Done(c, i) /\ i + 1 \in 1..m /\ i + 1 \in 0..m /\ (i + 1) - 1 = i
    BY <1>2, <1>4, Successor
  <2>2. f[i + 1] = FreeFirst(c)
    BY <1>1, <2>1
  <2> HIDE DEF c
  <2>3. /\ FreeFirst(c) \in S
        /\ FreeFirst(c).len = c.len
        /\ ~Finished(c) => FreeFirst(c) = c
        /\ Finished(c) => Len(FreeFirst(c).data) = Len(c.data) - 1
    BY <2>1, FreeFirstReads
  <2>4. ~Finished(FreeFirst(c)) \/ Len(FreeFirst(c).data) = m - (i + 1)
    <3>1. CASE ~Finished(c)
      BY <2>3, <3>1
    <3>2. CASE Finished(c)
      BY <1>2, <2>1, <2>3, <3>2, SMT
    <3> QED BY <3>1, <3>2
  <2> QED BY <2>1, <2>2, <2>3, <2>4
<1>5. m \in T
  <2> HIDE DEF T
  <2> QED BY <1>2, <1>3, <1>4, Reaches
<1>6. Done(f[m], m)
  BY <1>5
<1> DEFINE c == f[m]
<1> HIDE DEF c, m
<1>7. c \in S /\ c.len = r.len
  BY <1>6 DEF c
<1>8. ~Finished(c)
  <2>1. ASSUME Len(c.data) = m - m PROVE ~Finished(c)
    <3>1. c.data \in Bufs /\ Len(c.data) = 0
      BY <1>2, <1>7, <2>1, ReaderFacts, SMT
    <3>2. c.data = <<>>
      BY <3>1, SMT DEF Bufs
    <3> QED BY <3>2 DEF Finished
  <2> QED BY <1>6, <2>1 DEF c
<1> QED BY <1>1, <1>7, <1>8 DEF c

-----------------------------------------------------------------------------
(* protocol/message.go: what Decode makes of what Encode writes.             *)

\* What the decoder of metadata may expect, and its states over metadata of M.
Phases == {"key", "count", "value", "error"}
States(M) == [expects : Phases, key : Keys \cup {""}, due : Int, md : M]

(* The decoder takes a key.                                                  *)
LEMMA ScanKey ==
    ASSUME NEW M, NEW st \in States(M), NEW k \in Keys, st.expects = "key", NEW g, g = Scan(st, Text(k))
    PROVE  g \in States(M) /\ g.expects = "count" /\ g.key = k /\ g.md = st.md
<1> DEFINE e == "count"
           K == Keys \cup {""}
<1>1. k \in K /\ e \in Phases /\ st \in [expects : Phases, key : K, due : Int, md : M]
  BY DEF Phases, States
<1>2. g = [st EXCEPT !.expects = e, !.key = k]
  BY DEF Scan, Text
<1> HIDE DEF e, K
<1>3. /\ g \in [expects : Phases, key : K, due : Int, md : M]
      /\ g.expects = e /\ g.key = k /\ g.md = st.md
  BY <1>1, <1>2
<1> QED BY <1>3 DEF e, K, States

(* It takes the number of its values, if there are any.                      *)
LEMMA ScanCount ==
    ASSUME NEW M, NEW st \in States(M), NEW n \in Nat, n > 0, st.expects = "count",
           NEW g, g = Scan(st, Count(n))
    PROVE  g \in States(M) /\ g.expects = "value" /\ g.key = st.key /\ g.due = n /\ g.md = st.md
<1> DEFINE t == Count(n)
           e == "value"
<1>1. t.kind = "count" /\ t.n = n /\ ~(n = 0) /\ n \in Int
  BY SMT DEF Count
<1>2. g = Scan(st, t)
  OBVIOUS
<1> HIDE DEF t
<1>3. g = [st EXCEPT !.expects = e, !.due = n]
  BY <1>1, <1>2 DEF Scan
<1>4. e \in Phases
  BY DEF Phases
<1> HIDE DEF e
<1>5. g \in States(M) /\ g.expects = e /\ g.key = st.key /\ g.due = n /\ g.md = st.md
  BY <1>1, <1>3, <1>4 DEF States
<1> QED BY <1>5 DEF e

(* It takes a value, the last of which is followed by a key.                 *)
LEMMA ScanValue ==
    ASSUME NEW M, NEW st \in States(M), NEW v, st.expects = "value",
           NEW m \in M, m = [st.md EXCEPT ![st.key] = Append(@, v)],
           NEW g, g = Scan(st, Text(v))
    PROVE  /\ g \in States(M) /\ g.expects = (IF st.due = 1 THEN "key" ELSE "value")
           /\ g.key = st.key /\ g.due = st.due - 1 /\ g.md = m
<1> DEFINE e == IF st.due = 1 THEN "key" ELSE "value"
           n == st.due - 1
<1>1. g = [st EXCEPT !.expects = e, !.due = n, !.md[st.key] = Append(@, v)]
  BY DEF Scan, Text
<1>2. n \in Int
  <2>1. st.due \in Int
    BY DEF States
  <2> QED BY <2>1, SMT
<1>3. e \in Phases
  BY DEF Phases
<1> HIDE DEF e, n
<1>4. g = [st EXCEPT !.expects = e, !.due = n, !.md = m]
  BY <1>1, <1>2, <1>3 DEF States
<1>5. g \in States(M) /\ g.expects = e /\ g.key = st.key /\ g.due = n /\ g.md = m
  BY <1>2, <1>3, <1>4 DEF States
<1> QED BY <1>5 DEF e, n

(* A decoder in st that reads the tokens ts is in st2.                       *)
Passes(f, st, ts) == f[0] = st /\ \A i \in 1..Len(ts) : f[i] = Scan(f[i - 1], ts[i])
Leads(st, ts, st2) == \E f : Passes(f, st, ts) /\ f[Len(ts)] = st2

(* DecodeMetadata runs the decoder from Nothing.                             *)
LEMMA LeadsDecode ==
    ASSUME NEW S, NEW ts \in Seq(S), NEW st, Leads(Nothing, ts, st)
    PROVE  DecodeMetadata(ts) = st
<1> DEFINE n == Len(ts)
           Is(f) == f = [i \in 0..n |-> IF i = 0 THEN Nothing ELSE Scan(f[i - 1], ts[i])]
           G == CHOOSE f : Is(f)
<1>1. n \in Nat /\ n = Len(ts)
  BY SMT
<1>2. DecodeMetadata(ts) = G[n]
  BY DEF DecodeMetadata
<1> HIDE DEF n, Is, G
<1>3. PICK f : Passes(f, Nothing, ts) /\ f[n] = st
  BY <1>1 DEF Leads
<1> DEFINE g == [i \in 0..n |-> f[i]]
<1>4. Is(g)
  <2>1. ASSUME NEW i \in 0..n
        PROVE  g[i] = IF i = 0 THEN Nothing ELSE Scan(g[i - 1], ts[i])
    <3>1. CASE i = 0
      BY <1>3, <3>1 DEF Passes
    <3>2. CASE i # 0
      <4>1. i \in 1..n /\ i - 1 \in 0..n
        BY <1>1, <3>2, SMT
      <4>2. g[i - 1] = f[i - 1] /\ g[i] = f[i]
        BY <4>1
      <4> HIDE DEF g
      <4> QED BY <1>1, <1>3, <3>2, <4>1, <4>2 DEF Passes
    <3> QED BY <3>1, <3>2
  <2>2. g = [i \in 0..n |-> g[i]]
    OBVIOUS
  <2> HIDE DEF g
  <2> QED BY <2>1, <2>2 DEF Is
<1> HIDE DEF g
<1>5. Is(G)
  BY <1>4 DEF G
<1>6. G[0] = Nothing /\ \A i \in 1..n : G[i] = Scan(G[i - 1], ts[i])
  BY <1>1, <1>5, SMT DEF Is
<1> DEFINE T == {i \in 0..n : G[i] = f[i]}
<1>7. 0 \in T
  BY <1>1, <1>3, <1>6, SMT DEF Passes
<1>8. ASSUME NEW i \in 0..(n - 1), i \in T
      PROVE  i + 1 \in T
  <2>1. i + 1 \in 1..n /\ (i + 1) - 1 = i /\ i + 1 \in 0..n
    BY <1>1, SMT
  <2>2. G[i + 1] = Scan(G[i], ts[i + 1]) /\ f[i + 1] = Scan(f[i], ts[i + 1])
    BY <1>1, <1>3, <1>6, <2>1 DEF Passes
  <2> QED BY <1>8, <2>1, <2>2
<1>9. n \in T
  <2> HIDE DEF T
  <2> QED BY <1>1, <1>7, <1>8, Reaches
<1> QED BY <1>2, <1>3, <1>9

(* No tokens lead nowhere else.                                              *)
LEMMA LeadsNil ==
    ASSUME NEW st
    PROVE  Leads(st, <<>>, st)
<1> DEFINE f == [i \in 0..0 |-> st]
<1>1. f[0] = st /\ Len(<<>>) = 0
  BY SMT
<1> HIDE DEF f
<1>2. Passes(f, st, <<>>)
  BY <1>1, SMT DEF Passes
<1> QED BY <1>1, <1>2 DEF Leads

(* One sequence of tokens after the other.                                   *)
LEMMA LeadsJoin ==
    ASSUME NEW S, NEW ts \in Seq(S), NEW us \in Seq(S), NEW a, NEW b, NEW c,
           Leads(a, ts, b), Leads(b, us, c)
    PROVE  Leads(a, ts \o us, c)
<1> DEFINE n == Len(ts)
           m == Len(us)
           w == ts \o us
<1>1. /\ n \in Nat /\ m \in Nat /\ Len(w) = n + m
      /\ \A i \in 1..n : w[i] = ts[i]
      /\ \A i \in (n + 1)..(n + m) : w[i] = us[i - n]
  BY SMT
<1>2. PICK f : f[0] = a /\ f[n] = b /\ \A i \in 1..n : f[i] = Scan(f[i - 1], ts[i])
  BY DEF Leads, Passes
<1>3. PICK g : g[0] = b /\ g[m] = c /\ \A i \in 1..m : g[i] = Scan(g[i - 1], us[i])
  BY DEF Leads, Passes
<1> HIDE DEF n, m, w
<1> DEFINE h == [i \in 0..(n + m) |-> IF i <= n THEN f[i] ELSE g[i - n]]
<1>4. ASSUME NEW i \in 0..(n + m)
      PROVE  h[i] = IF i <= n THEN f[i] ELSE g[i - n]
  OBVIOUS
<1> HIDE DEF h
<1>5. ASSUME NEW i \in 1..(n + m)
      PROVE  h[i] = Scan(h[i - 1], w[i])
  <2>1. i \in 0..(n + m) /\ i - 1 \in 0..(n + m) /\ i \in Int
    BY <1>1, SMT
  <2>2. CASE i <= n
    <3>1. i \in 1..n /\ i - 1 <= n
      BY <1>1, <2>1, <2>2, SMT
    <3>2. h[i] = f[i] /\ h[i - 1] = f[i - 1] /\ w[i] = ts[i]
      BY <1>1, <1>4, <2>1, <2>2, <3>1
    <3> QED BY <1>2, <3>1, <3>2
  <2>3. CASE i = n + 1
    <3>1. i \in (n + 1)..(n + m) /\ 1 \in 1..m /\ i - n = 1 /\ ~(i <= n) /\ i - 1 = n /\ n <= n
      BY <1>1, <2>1, <2>3, SMT
    <3>2. h[i] = g[1] /\ h[i - 1] = f[n] /\ w[i] = us[1]
      BY <1>1, <1>4, <2>1, <3>1
    <3>3. g[1] = Scan(g[1 - 1], us[1]) /\ 1 - 1 = 0
      BY <1>3, <3>1, SMT
    <3> QED BY <1>2, <1>3, <3>2, <3>3
  <2>4. CASE i > n + 1
    <3>1. /\ i \in (n + 1)..(n + m) /\ i - n \in 1..m /\ ~(i <= n) /\ ~(i - 1 <= n)
          /\ (i - 1) - n = (i - n) - 1
      BY <1>1, <2>1, <2>4, SMT
    <3>2. h[i] = g[i - n] /\ h[i - 1] = g[(i - n) - 1] /\ w[i] = us[i - n]
      BY <1>1, <1>4, <2>1, <3>1
    <3> QED BY <1>3, <3>1, <3>2
  <2> QED BY <1>1, <2>1, <2>2, <2>3, <2>4, SMT
<1>6. h[0] = a
  BY <1>1, <1>2, <1>4, SMT
<1>7. h[n + m] = c
  <2>1. n + m \in 0..(n + m)
    BY <1>1, SMT
  <2>2. CASE m = 0
    BY <1>1, <1>2, <1>3, <1>4, <2>1, <2>2, SMT
  <2>3. CASE m > 0
    <3>1. ~(n + m <= n) /\ (n + m) - n = m
      BY <1>1, <2>3, SMT
    <3> QED BY <1>3, <1>4, <2>1, <3>1
  <2> QED BY <1>1, <2>2, <2>3, SMT
<1>8. Leads(a, w, c)
  BY <1>1, <1>5, <1>6, <1>7 DEF Leads, Passes
<1> QED BY <1>8 DEF w

(* A state of the decoder is its fields.                                     *)
LEMMA SameState ==
    ASSUME NEW M, NEW g \in States(M), NEW h \in States(M),
           g.expects = h.expects, g.key = h.key, g.due = h.due, g.md = h.md
    PROVE  g = h
<1> DEFINE K == Keys \cup {""}
           D == Int
<1>1. /\ g \in [expects : Phases, key : K, due : D, md : M]
      /\ h \in [expects : Phases, key : K, due : D, md : M]
  BY DEF States
<1> HIDE DEF K, D
<1> QED BY <1>1, SMT

(* Two tokens.                                                               *)
LEMMA LeadsTwo ==
    ASSUME NEW st, NEW t, NEW u
    PROVE  Leads(st, <<t, u>>, Scan(Scan(st, t), u))
<1> DEFINE f == [i \in 0..2 |-> IF i = 0 THEN st ELSE IF i = 1 THEN Scan(st, t)
                                                          ELSE Scan(Scan(st, t), u)]
           w == <<t, u>>
<1>1. f[0] = st /\ f[1] = Scan(st, t) /\ f[2] = Scan(f[1], u)
  BY SMT
<1>2. Len(w) = 2 /\ w[1] = t /\ w[2] = u
  OBVIOUS
<1> HIDE DEF f, w
<1>3. \A i \in 1..2 : f[i] = Scan(f[i - 1], w[i])
  <2>1. \A i \in 1..2 : i = 1 \/ i = 2
    BY SMT
  <2>2. f[1] = Scan(f[1 - 1], w[1]) /\ f[2] = Scan(f[2 - 1], w[2])
    BY <1>1, <1>2, SMT
  <2> QED BY <2>1, <2>2
<1>4. Leads(st, w, f[2])
  BY <1>1, <1>2, <1>3 DEF Leads, Passes
<1> QED BY <1>1, <1>4 DEF w

(* The first elements of a sequence, one more at a time.                     *)
LEMMA Prefixes ==
    ASSUME NEW V, NEW vs \in Seq(V)
    PROVE  /\ SubSeq(vs, 1, 0) = <<>> /\ SubSeq(vs, 1, Len(vs)) = vs /\ Len(vs) \in Nat
           /\ \A i \in 0..Len(vs) : SubSeq(vs, 1, i) \in Seq(V)
           /\ \A i \in 1..Len(vs) : Append(SubSeq(vs, 1, i - 1), vs[i]) = SubSeq(vs, 1, i)
<1>1. SubSeq(vs, 1, 0) = <<>> /\ SubSeq(vs, 1, Len(vs)) = vs /\ Len(vs) \in Nat
  BY SMT
<1>2. ASSUME NEW i \in 0..Len(vs)
      PROVE  SubSeq(vs, 1, i) \in Seq(V)
  BY SMT
<1>3. ASSUME NEW i \in 1..Len(vs)
      PROVE  Append(SubSeq(vs, 1, i - 1), vs[i]) = SubSeq(vs, 1, i)
  BY SMT
<1> QED BY <1>1, <1>2, <1>3

(* The tokens of values, and what tokens that add values to a key lead to.   *)
Texts(vs) == [i \in 1..Len(vs) |-> Text(vs[i])]
Adds(V, st, ts, k, vs) ==
    \E g \in States([Keys -> Seq(V)]) :
        /\ Leads(st, ts, g)
        /\ g.expects = "key"
        /\ g.md = [st.md EXCEPT ![k] = vs]

(* The values of a key are added to it one by one.                           *)
LEMMA LeadsValues ==
    ASSUME NEW V, NEW st \in States([Keys -> Seq(V)]), NEW vs \in Seq(V),
           st.expects = "value", st.key \in Keys, st.md[st.key] = <<>>,
           st.due = Len(vs), Len(vs) > 0
    PROVE  Adds(V, st, Texts(vs), st.key, vs)
<1> DEFINE n == Len(vs)
           k == st.key
           S == Seq(V)
           M == [Keys -> S]
           md == st.md
           P(i) == SubSeq(vs, 1, i)
           w == [i \in 1..n |-> Text(vs[i])]
<1>1. /\ P(0) = <<>> /\ P(n) = vs /\ n \in Nat /\ n > 0
      /\ \A i \in 0..n : P(i) \in S
      /\ \A i \in 1..n : Append(P(i - 1), vs[i]) = P(i)
  BY Prefixes
<1>2. k \in Keys /\ md[k] = P(0) /\ md \in M
  BY <1>1 DEF States
<1>3. Len(w) = n /\ \A i \in 1..n : w[i] = Text(vs[i])
  BY SMT
<1>4. st \in States(M) /\ st.expects = "value" /\ st.key = k /\ st.due = n /\ st.md = md
  OBVIOUS
<1> HIDE DEF n, k, S, P, w, md
<1> DEFINE Md(i) == [md EXCEPT ![k] = P(i)]
<1>5. ASSUME NEW i \in 0..n
      PROVE  Md(i) \in M
  BY <1>1, <1>2
<1>6. Md(0) = md
  BY <1>1, <1>2
<1>7. ASSUME NEW i \in 1..n
      PROVE  Md(i) = [Md(i - 1) EXCEPT ![k] = Append(@, vs[i])]
  <2>1. i - 1 \in 0..n
    BY <1>1, SMT
  <2>2. Md(i - 1)[k] = P(i - 1)
    BY <1>1, <1>2, <2>1
  <2>3. Append(P(i - 1), vs[i]) = P(i)
    BY <1>1
  <2> QED BY <1>2, <2>2, <2>3
<1>8. Md(n) = [md EXCEPT ![k] = vs]
  BY <1>1
<1> HIDE DEF M, Md
<1> DEFINE e(i) == IF i = n THEN "key" ELSE "value"
           At(i) == [expects |-> e(i), key |-> k, due |-> n - i, md |-> Md(i)]
<1>9. ASSUME NEW i \in 0..n
      PROVE  /\ At(i) \in States(M) /\ At(i).expects = e(i) /\ At(i).key = k
             /\ At(i).due = n - i /\ At(i).md = Md(i)
  <2>1. e(i) \in Phases
    BY DEF Phases
  <2>2. n - i \in Int
    BY <1>1, SMT
  <2> HIDE DEF e
  <2> QED BY <1>2, <1>5, <2>1, <2>2 DEF States
<1>10. At(0) = st
  <2>1. 0 \in 0..n /\ e(0) = "value" /\ n - 0 = n
    BY <1>1, SMT
  <2> DEFINE g == At(0)
  <2>2. /\ g \in States(M) /\ g.expects = st.expects /\ g.key = st.key
        /\ g.due = st.due /\ g.md = st.md
    <3> HIDE DEF At
    <3> QED BY <1>4, <1>6, <1>9, <2>1
  <2> HIDE DEF g
  <2>3. g = st
    BY <1>4, <2>2, SameState
  <2> QED BY <2>3 DEF g
<1>11. ASSUME NEW i \in 1..n
       PROVE  At(i) = Scan(At(i - 1), w[i])
  <2>1. i - 1 \in 0..n /\ i - 1 # n /\ i \in 0..n
    BY <1>1, SMT
  <2> DEFINE g == Scan(At(i - 1), w[i])
             h == At(i)
             a == At(i - 1)
             v == vs[i]
  <2>2. a \in States(M) /\ a.expects = "value" /\ a.key = k /\ a.due = n - (i - 1) /\ a.md = Md(i - 1)
    <3>1. e(i - 1) = "value"
      BY <2>1
    <3> HIDE DEF At, e
    <3> QED BY <1>9, <2>1, <3>1
  <2>3. g = Scan(a, Text(v))
    BY <1>3
  <2>4. h \in States(M) /\ h.expects = e(i) /\ h.key = k /\ h.due = n - i /\ h.md = Md(i)
    <3> HIDE DEF At, e
    <3> QED BY <1>9, <2>1
  <2>5. g = Scan(At(i - 1), w[i]) /\ h = At(i)
    OBVIOUS
  <2> HIDE DEF g, h, a, v, At, e
  <2>6. Md(i) \in M /\ Md(i) = [a.md EXCEPT ![a.key] = Append(@, v)]
    BY <1>5, <1>7, <2>1, <2>2 DEF v
  <2>7. /\ g \in States(M) /\ g.expects = (IF a.due = 1 THEN "key" ELSE "value")
        /\ g.key = a.key /\ g.due = a.due - 1 /\ g.md = Md(i)
    BY <2>2, <2>3, <2>6, ScanValue, SMT
  <2>8. a.due - 1 = n - i /\ (a.due = 1 <=> i = n)
    BY <1>1, <2>2, SMT
  <2>9. g.expects = e(i)
    BY <2>7, <2>8 DEF e
  <2>10. g = h
    <3>1. g.key = h.key /\ g.due = h.due /\ g.md = h.md /\ g.expects = h.expects
      BY <2>2, <2>4, <2>7, <2>8, <2>9
    <3> QED BY <2>4, <2>7, <3>1, SameState
  <2> QED BY <2>5, <2>10
<1>12. At(n).expects = "key" /\ At(n) \in States(M) /\ At(n).md = [md EXCEPT ![k] = vs]
  <2>1. n \in 0..n /\ e(n) = "key"
    BY <1>1, SMT
  <2> HIDE DEF At, e
  <2> QED BY <1>8, <1>9, <2>1
<1> HIDE DEF At
<1>13. Leads(st, w, At(n))
  <2> DEFINE f == [i \in 0..n |-> At(i)]
  <2>1. \A i \in 0..n : f[i] = At(i)
    OBVIOUS
  <2> HIDE DEF f
  <2>2. f[0] = st /\ f[n] = At(n)
    BY <1>1, <1>10, <2>1, SMT
  <2>3. ASSUME NEW i \in 1..n
        PROVE  f[i] = Scan(f[i - 1], w[i])
    <3>1. i \in 0..n /\ i - 1 \in 0..n
      BY <1>1, SMT
    <3> QED BY <1>11, <2>1, <3>1
  <2> QED BY <1>3, <2>2, <2>3 DEF Leads, Passes
<1>14. w = Texts(vs)
  BY DEF w, n, Texts
<1> QED BY <1>12, <1>13, <1>14 DEF Adds, M, S, md, k

\* The tokens of metadata with values of V.
Tokens(V) == {Text(x) : x \in V \cup Keys} \cup {Count(n) : n \in Nat}

(* What Encode writes for a key is what the decoder makes of it, if the      *)
(* number of values fits in the byte.                                        *)
LEMMA LeadsKey ==
    ASSUME NEW V, NEW st \in States([Keys -> Seq(V)]), NEW k \in Keys, NEW vs \in Seq(V),
           Len(vs) > 0, Len(vs) < ByteMod, st.expects = "key", st.md[k] = <<>>
    PROVE  /\ EncodeKey(k, vs) \in Seq(Tokens(V))
           /\ Adds(V, st, EncodeKey(k, vs), k, vs)
<1> DEFINE M == [Keys -> Seq(V)]
           n == Len(vs)
           S == Tokens(V)
           a == Scan(st, Text(k))
           b == Scan(a, Count(n))
           w == Texts(vs)
           u == <<Text(k), Count(n)>>
<1>1. n \in Nat /\ n > 0
  BY SMT
<1>2. n % ByteMod = n
  <2>1. ByteMod \in Nat \ {0} /\ n < ByteMod
    BY MessageAssumption
  <2> HIDE DEF n
  <2> QED BY <1>1, <2>1, SMT
<1>3. EncodeKey(k, vs) = u \o w
  BY <1>2 DEF EncodeKey, Texts
<1>4. Text(k) \in S /\ Count(n) \in S
  BY <1>1 DEF Tokens
<1>5. u \in Seq(S)
  <2> DEFINE t == Text(k)
             c == Count(n)
  <2>1. t \in S /\ c \in S
    BY <1>4
  <2> HIDE DEF t, c, S
  <2>2. <<t, c>> \in Seq(S)
    BY <2>1, SMT
  <2> QED BY <2>2 DEF t, c
<1>6. w \in Seq(S)
  <2>1. \A i \in 1..n : Text(vs[i]) \in S
    BY SMT DEF Tokens
  <2>2. w = [i \in 1..n |-> Text(vs[i])]
    BY DEF Texts
  <2> HIDE DEF S, n, w
  <2> QED BY <1>1, <2>1, <2>2, SMT
<1>7. u \o w \in Seq(S)
  <2> HIDE DEF u, w, S
  <2> QED BY <1>5, <1>6, SMT
<1>8. a \in States(M) /\ a.expects = "count" /\ a.key = k /\ a.md = st.md
  <2> HIDE DEF M
  <2>1. st \in States(M)
    BY DEF M
  <2> QED BY <2>1, ScanKey, SMT
<1>9. b \in States(M) /\ b.expects = "value" /\ b.key = k /\ b.due = n /\ b.md = st.md
  <2> HIDE DEF a, M, n
  <2> QED BY <1>1, <1>8, ScanCount, SMT
<1>10. Leads(st, u, b)
  BY LeadsTwo
<1> HIDE DEF a, b
<1>11. PICK g \in States(M) : Leads(b, w, g) /\ g.expects = "key" /\ g.md = [b.md EXCEPT ![b.key] = vs]
  <2>1. Adds(V, b, w, b.key, vs)
    <3>1. b \in States([Keys -> Seq(V)]) /\ b.md[b.key] = <<>> /\ b.key \in Keys /\ b.due = Len(vs) /\ b.expects = "value"
      BY <1>9
    <3> QED BY <3>1, LeadsValues
  <2> QED BY <2>1 DEF Adds
<1>12. Leads(st, u \o w, g)
  <2> HIDE DEF u, w, S
  <2> QED BY <1>5, <1>6, <1>10, <1>11, LeadsJoin
<1>13. g.md = [st.md EXCEPT ![k] = vs]
  BY <1>9, <1>11
<1> HIDE DEF u, w, S, M
<1>14. /\ EncodeKey(k, vs) \in Seq(S) /\ g \in States(M) /\ Leads(st, EncodeKey(k, vs), g)
  BY <1>3, <1>7, <1>12
<1> QED BY <1>11, <1>13, <1>14 DEF S, M, Adds

(* Encode goes through every key once.                                       *)
LEMMA KeyOrderFacts ==
    /\ Cardinality(Keys) \in Nat
    /\ KeyOrder \in [1..Cardinality(Keys) -> Keys]
    /\ \A i, j \in 1..Cardinality(Keys) : KeyOrder[i] = KeyOrder[j] => i = j
    /\ \A k \in Keys : \E i \in 1..Cardinality(Keys) : KeyOrder[i] = k
<1> DEFINE c == Cardinality(Keys)
<1>1. c \in Nat /\ ExistsBijection(1..c, Keys)
  BY MessageAssumption, FS_CardinalityType
<1>2. KeyOrder \in Bijection(1..c, Keys)
  <2> DEFINE B == Bijection(1..c, Keys)
  <2>1. B # {}
    BY <1>1 DEF ExistsBijection
  <2>2. KeyOrder = CHOOSE o \in B : TRUE
    BY DEF KeyOrder
  <2> HIDE DEF B
  <2>3. KeyOrder \in B
    BY <2>1, <2>2
  <2> QED BY <2>3 DEF B
<1> HIDE DEF c
<1>3. /\ KeyOrder \in [1..c -> Keys]
      /\ \A i, j \in 1..c : KeyOrder[i] = KeyOrder[j] => i = j
      /\ \A k \in Keys : \E i \in 1..c : KeyOrder[i] = k
  BY <1>2 DEF Bijection, Injection, IsInjective, Surjection
<1> QED BY <1>1, <1>3 DEF c

(* The tokens of the key that comes j-th.                                    *)
Part(md, j) ==
    IF md[KeyOrder[j]] = <<>> THEN <<>> ELSE EncodeKey(KeyOrder[j], md[KeyOrder[j]])

\* A round of Encode over the keys.
Then(md, q, j) == q \o Part(md, j)

(* The rounds of Encode over the keys.                                       *)
LEMMA EncodeRuns ==
    ASSUME NEW S, NEW md, \A j \in 1..Cardinality(Keys) : Part(md, j) \in Seq(S)
    PROVE  \E f : /\ EncodeMetadata(md) = f[Cardinality(Keys)]
                 /\ f[0] = <<>>
                 /\ \A j \in 1..Cardinality(Keys) : f[j] = Then(md, f[j - 1], j)
<1> DEFINE n == Cardinality(Keys)
           Q == Seq(S)
           F == [p \in (1..n) \X Q |-> Then(md, p[2], p[1])]
           b == <<>>
           Is(f) == f = [j \in 0..n |-> IF j = 0 THEN b ELSE Then(md, f[j - 1], j)]
           G == CHOOSE f : Is(f)
<1>1. n \in Nat /\ n = Cardinality(Keys)
  BY KeyOrderFacts
<1>2. ASSUME NEW j \in 1..n, NEW q \in Q
      PROVE  Then(md, q, j) \in Q /\ F[<<j, q>>] = Then(md, q, j)
  <2>1. Part(md, j) \in Q
    OBVIOUS
  <2>2. Then(md, q, j) \in Q
    BY <2>1, SMT DEF Then
  <2> QED BY <2>2
<1>3. F \in [(1..n) \X Q -> Q]
  BY <1>2
<1>4. EncodeMetadata(md) = G[n]
  BY DEF EncodeMetadata, Part, Then
<1>5. b \in Q /\ b = <<>>
  BY SMT
<1> HIDE DEF n, Q, F, b, Is, G
<1>6. PICK f \in [0..n -> Q] : Follows(f, F, b, n)
  BY <1>1, <1>3, <1>5, Iterates
<1>7. ASSUME NEW j \in 0..n
      PROVE  f[j] = IF j = 0 THEN b ELSE Then(md, f[j - 1], j)
  <2>1. CASE j = 0
    BY <1>6, <2>1 DEF Follows
  <2>2. CASE j # 0
    <3>1. j \in 1..n /\ j - 1 \in 0..n
      BY <1>1, <2>2, SMT
    <3>2. f[j - 1] \in Q
      BY <3>1
    <3>3. f[j] = F[<<j, f[j - 1]>>]
      BY <1>6, <3>1 DEF Follows
    <3> QED BY <1>2, <2>2, <3>1, <3>2, <3>3
  <2> QED BY <2>1, <2>2
<1>8. Is(f)
  <2>1. f = [j \in 0..n |-> f[j]]
    OBVIOUS
  <2> QED BY <1>7, <2>1 DEF Is
<1>9. Is(G)
  BY <1>8 DEF G
<1>10. G[0] = b /\ \A j \in 1..n : G[j] = Then(md, G[j - 1], j)
  BY <1>1, <1>9, SMT DEF Is
<1> QED BY <1>1, <1>4, <1>5, <1>10

(* What Encode writes of metadata is what the decoder makes of it.           *)
LEMMA MetadataRoundTrip ==
    ASSUME NEW V, NEW md \in [Keys -> Seq(V)], \A k \in Keys : Len(md[k]) < ByteMod
    PROVE  DecodeMetadata(EncodeMetadata(md)).expects = "key" /\ DecodeMetadata(EncodeMetadata(md)).md = md
<1> DEFINE n == Cardinality(Keys)
           S == Tokens(V)
           W == Seq(V)
           M == [Keys -> W]
           O == KeyOrder
<1>1. /\ n \in Nat /\ O \in [1..n -> Keys]
      /\ \A i, j \in 1..n : O[i] = O[j] => i = j
      /\ \A k \in Keys : \E i \in 1..n : O[i] = k
  BY KeyOrderFacts
<1>2. <<>> \in W /\ md \in M /\ M = [Keys -> Seq(V)]
  BY SMT
<1>3. ASSUME NEW k \in Keys, md[k] # <<>>
      PROVE  md[k] \in Seq(V) /\ Len(md[k]) > 0 /\ Len(md[k]) < ByteMod
  BY <1>3, SMT
<1> DEFINE Mid(j) == [k \in Keys |-> IF \E i \in 1..j : O[i] = k THEN md[k] ELSE <<>>]
<1>4. Nothing \in States(M) /\ Nothing.expects = "key" /\ Nothing.md = Mid(0)
  <2>1. Mid(0) = [k \in Keys |-> <<>>]
    BY SMT
  <2>2. Mid(0) \in M
    BY <1>2, <2>1
  <2> DEFINE m == Mid(0)
  <2>3. Nothing = [expects |-> "key", key |-> "", due |-> 0, md |-> m]
    BY <2>1 DEF Nothing
  <2>4. "key" \in Phases /\ "" \in Keys \cup {""} /\ 0 \in Int
    BY SMT DEF Phases
  <2> HIDE DEF Mid, M, m
  <2>5. m \in M
    BY <2>2 DEF m
  <2>6. Nothing \in States(M) /\ Nothing.expects = "key" /\ Nothing.md = m
    BY <2>3, <2>4, <2>5 DEF States
  <2> QED BY <2>6 DEF m
<1>5. ASSUME NEW j \in 1..n
      PROVE  Part(md, j) \in Seq(S)
  <2>1. CASE md[O[j]] = <<>>
    BY <2>1, SMT DEF Part
  <2>2. CASE md[O[j]] # <<>>
    <3> DEFINE k == O[j]
               vs == md[k]
    <3>1. k \in Keys
      BY <1>1
    <3>2. vs \in Seq(V) /\ Len(vs) > 0 /\ Len(vs) < ByteMod
      BY <1>3, <2>2, <3>1
    <3>3. Part(md, j) = EncodeKey(k, vs)
      BY <2>2 DEF Part
    <3>4. Nothing \in States([Keys -> Seq(V)]) /\ Nothing.expects = "key" /\ Nothing.md[k] = <<>>
      BY <1>2, <1>4, <3>1 DEF Nothing
    <3> HIDE DEF k, vs
    <3> QED BY <3>1, <3>2, <3>3, <3>4, LeadsKey
  <2> QED BY <2>1, <2>2
<1> HIDE DEF S, W, M
<1>6. PICK f : /\ EncodeMetadata(md) = f[n] /\ f[0] = <<>>
               /\ \A j \in 1..n : f[j] = Then(md, f[j - 1], j)
  BY <1>5, EncodeRuns, SMT
<1> HIDE DEF n, O
<1> DEFINE Done(j) == /\ f[j] \in Seq(S)
                      /\ \E g \in States(M) : Leads(Nothing, f[j], g) /\ g.expects = "key" /\ g.md = Mid(j)
           T == {j \in 0..n : Done(j)}
<1>7. 0 \in T
  <2>1. f[0] \in Seq(S) /\ Leads(Nothing, f[0], Nothing)
    BY <1>6, LeadsNil, SMT
  <2> HIDE DEF Mid
  <2> QED BY <1>1, <1>4, <2>1, SMT
<1>8. ASSUME NEW i \in 0..(n - 1), i \in T
      PROVE  i + 1 \in T
  <2> DEFINE j == i + 1
             k == O[j]
             vs == md[k]
  <2>1. j \in 1..n /\ j \in 0..n /\ j - 1 = i /\ k \in Keys /\ j \in Int /\ i \in Nat
    BY <1>1, SMT
  <2>2. f[i] \in Seq(S)
    BY <1>8
  <2>3. PICK g \in States(M) : Leads(Nothing, f[i], g) /\ g.expects = "key" /\ g.md = Mid(i)
    BY <1>8
  <2>4. f[j] = f[i] \o Part(md, j) /\ Part(md, j) \in Seq(S)
    BY <1>5, <1>6, <2>1 DEF Then
  <2>5. f[j] \in Seq(S)
    BY <2>2, <2>4, SMT
  <2>6. \A l \in 1..i : l \in 1..n /\ l # j
    BY <1>1, SMT
  <2>7. \A l \in 1..i : O[l] # k
    BY <1>1, <2>1, <2>6
  <2>8. \A l \in 1..j : l = j \/ l \in 1..i
    BY <1>1, SMT
  <2>9. \A l \in 1..i : l \in 1..j
    BY <1>1, SMT
  <2>10. Mid(i)[k] = <<>>
    BY <2>1, <2>7
  <2>11. Mid(j) = [Mid(i) EXCEPT ![k] = vs]
    <3>1. ASSUME NEW x \in Keys
          PROVE  (\E l \in 1..j : O[l] = x) <=> (x = k \/ \E l \in 1..i : O[l] = x)
      BY <2>1, <2>8, <2>9, SMT
    <3>2. ASSUME NEW x \in Keys
          PROVE  Mid(j)[x] = IF x = k THEN vs ELSE Mid(i)[x]
      <4> HIDE DEF j, k
      <4> QED BY <3>1
    <3> QED BY <3>2
  <2> HIDE DEF Mid, j, k
  <2>12. \E h \in States(M) : Leads(Nothing, f[j], h) /\ h.expects = "key" /\ h.md = Mid(j)
    <3>1. CASE vs = <<>>
      <4>1. Part(md, j) = <<>>
        BY <3>1 DEF Part, k, O
      <4>2. f[j] = f[i]
        BY <2>2, <2>4, <4>1, SMT
      <4>3. Mid(j) = Mid(i)
        BY <2>1, <2>10, <2>11, <3>1 DEF Mid
      <4> QED BY <2>3, <4>2, <4>3
    <3>2. CASE vs # <<>>
      <4>1. Part(md, j) = EncodeKey(k, vs)
        BY <3>2 DEF Part, k, O
      <4>2. vs \in Seq(V) /\ Len(vs) > 0 /\ Len(vs) < ByteMod
        BY <1>3, <2>1, <3>2
      <4>3. g \in States([Keys -> Seq(V)]) /\ g.md[k] = <<>>
        BY <1>2, <2>3, <2>10
      <4> HIDE DEF vs
      <4>4. Adds(V, g, EncodeKey(k, vs), k, vs)
        BY <2>1, <2>3, <4>2, <4>3, LeadsKey
      <4>5. PICK h \in States(M) : Leads(g, Part(md, j), h) /\ h.expects = "key" /\ h.md = [g.md EXCEPT ![k] = vs]
        BY <1>2, <4>1, <4>4 DEF Adds
      <4>6. Leads(Nothing, f[i] \o Part(md, j), h)
        BY <2>2, <2>3, <2>4, <4>5, LeadsJoin
      <4>7. h.md = Mid(j)
        BY <2>3, <2>11, <4>5
      <4> QED BY <2>4, <4>5, <4>6, <4>7
    <3> QED BY <3>1, <3>2
  <2>13. j \in T
    BY <2>1, <2>5, <2>12
  <2> QED BY <2>13 DEF j
<1>9. n \in T
  <2> HIDE DEF T
  <2> QED BY <1>1, <1>7, <1>8, Reaches
<1>10. Mid(n) = md
  <2>1. \A k \in Keys : Mid(n)[k] = md[k]
    BY <1>1
  <2>2. md = [k \in Keys |-> md[k]]
    OBVIOUS
  <2> QED BY <2>1, <2>2
<1> HIDE DEF Mid
<1>11. f[n] \in Seq(S) /\ \E g \in States(M) : Leads(Nothing, f[n], g) /\ g.expects = "key" /\ g.md = md
  BY <1>9, <1>10
<1> QED BY <1>6, <1>11, LeadsDecode

(* What Decode takes for the payload.                                        *)
Unpacked(w) ==
    IF w.gzip /\ PayloadL(w.payload) > 0 THEN GzipUnzip(w.payload) ELSE w.payload

(* A payload is compressed and decompressed, or neither.                     *)
LEMMA PayloadRoundTrip ==
    ASSUME NEW m, m.payload \in PlainPayload
    PROVE  Unpacked(Encode(m)) = m.payload /\ m.payload # Malformed
<1> DEFINE p == m.payload
           w == Encode(m)
           z == Compresses(m)
<1> SUFFICES Unpacked(w) = p /\ p # Malformed
  OBVIOUS
<1>1. /\ p \in [body : STRING, size : Nat, packed : Nat \ {0}, zipped : {FALSE}]
      /\ p.size \in Nat /\ p.packed \in Nat /\ p.packed > 0 /\ p.zipped = FALSE
  <2>1. p \in [body : STRING, size : Nat, packed : Nat \ {0}, zipped : {FALSE}]
    BY DEF PlainPayload
  <2> HIDE DEF p
  <2>2. p.size \in Nat /\ p.packed \in Nat \ {0}
    BY <2>1
  <2>3. p.zipped \in {FALSE}
    BY <2>1
  <2>4. p.zipped = FALSE
    BY <2>3
  <2>5. p.packed \in Nat /\ p.packed > 0
    BY <2>2, SMT
  <2> QED BY <2>1, <2>2, <2>4, <2>5
<1>2. w.gzip = z /\ w.payload = IF z THEN GzipZip(p) ELSE p
  BY DEF Encode
<1>3. z => PayloadL(GzipZip(p)) < p.size
  BY DEF Compresses
<1>4. p # Malformed
  <2>1. DOMAIN p = {"body", "size", "packed", "zipped"}
    BY <1>1
  <2>2. DOMAIN Malformed = {"malformed"}
    BY DEF Malformed
  <2> QED BY <2>1, <2>2
<1> HIDE DEF p, w, z
<1>5. CASE ~z
  BY <1>2, <1>4, <1>5 DEF Unpacked
<1>6. CASE z
  <2>1. PayloadL(p) = p.size
    BY <1>1 DEF PayloadL
  <2>2. GzipZip(p) # p
    BY <1>1, <1>3, <1>6, <2>1, SMT
  <2>3. GzipZip(p) = [p EXCEPT !.zipped = TRUE]
    BY <2>2 DEF GzipZip
  <2> DEFINE q == [p EXCEPT !.zipped = TRUE]
  <2>4. q.zipped = TRUE /\ q.packed = p.packed
    BY <1>1
  <2>5. [q EXCEPT !.zipped = FALSE] = p
    BY <1>1
  <2>6. PayloadL(q) = p.packed
    <3> HIDE DEF q
    <3> QED BY <2>4 DEF PayloadL
  <2>7. w.payload = q /\ w.gzip
    BY <1>2, <1>6, <2>3
  <2> HIDE DEF q
  <2>8. GzipUnzip(q) = p
    BY <2>4, <2>5 DEF GzipUnzip
  <2> QED BY <1>1, <1>4, <2>6, <2>7, <2>8 DEF Unpacked
<1> QED BY <1>5, <1>6

(* The sizes of messages.                                                    *)
LEMMA EncodeSize ==
    ASSUME NEW m, m.payload \in PlainPayload
    PROVE  Encode(m).dataL \in Nat /\ TotalL(Encode(m)) \in Nat
<1> DEFINE w == IF Compresses(m) THEN GzipZip(m.payload) ELSE m.payload
<1>1. PayloadL(w) \in Nat
  BY DEF PlainPayload, PayloadL, GzipZip
<1>2. Encode(m).dataL = 1 + PayloadL(w)
  BY DEF Encode, Overhead
<1> HIDE DEF w
<1> QED BY <1>1, <1>2, SMT DEF TotalL, Overhead

-----------------------------------------------------------------------------
(* protocol/timeout.go: the header keeps a timeout.                          *)

(* div rounds up: r times the quotient is at least x and less than x + r.    *)
LEMMA DivRoundsUp ==
    ASSUME NEW x \in Nat, NEW r \in Nat \ {0}
    PROVE  /\ Div(x, r) \in Nat
           /\ r * Div(x, r) >= x
           /\ r * Div(x, r) < x + r
<1> DEFINE q == x \div r
           m == x % r
<1>1. q \in Nat /\ m \in Nat /\ m < r /\ x = r * q + m
  BY SMT
<1>2. CASE m > 0
  <2>1. Div(x, r) = q + 1
    BY <1>2 DEF Div
  <2>2. r * (q + 1) = r * q + r
    BY <1>1, SMT
  <2> HIDE DEF q, m
  <2> QED BY <1>1, <1>2, <2>1, <2>2, SMT
<1>3. CASE ~(m > 0)
  <2>1. Div(x, r) = q
    BY <1>3 DEF Div
  <2> HIDE DEF q, m
  <2> QED BY <1>1, <1>3, <2>1, SMT
<1> QED BY <1>2, <1>3

(* Two facts about products that the provers need to be told: they grow with *)
(* their factors.                                                            *)
LEMMA TimesMonotone ==
    ASSUME NEW a \in Nat, NEW b \in Nat, NEW r \in Nat, a <= b
    PROVE  r * a <= r * b /\ a * r <= b * r
  BY SMT

(* The other: a positive factor can be cancelled.                            *)
LEMMA TimesCancel ==
    ASSUME NEW a \in Nat, NEW b \in Nat, NEW r \in Nat \ {0}, r * a < r * b
    PROVE  a < b
  BY SMT

(* A product that fits in an int64 is not changed by it.                     *)
LEMMA Int64Fits ==
    ASSUME NEW x \in Nat, x <= MaxInt64
    PROVE  Int64(x) = x
<1> DEFINE m == MaxInt64 + 1
<1>1. m \in Nat \ {0} /\ x + m \in Nat /\ x + m < 2 * m
  BY TimeoutAssumption, SMT
<1>2. (x + m) % (2 * m) = x + m
  <2> HIDE DEF m
  <2> QED BY <1>1, SMT
<1>3. Int64(x) = ((x + m) % (2 * m)) - m
  BY TimeoutAssumption, SMT DEF Int64
<1> HIDE DEF m
<1> QED BY <1>1, <1>2, <1>3, SMT

(* Every unit but the hour is at most a minute.                              *)
LEMMA UnitAtMostMinute ==
    ASSUME NEW u \in 1..5
    PROVE  Unit[u] <= Unit[5]
<1>1. /\ Unit[1] \in Nat /\ Unit[2] \in Nat /\ Unit[3] \in Nat
      /\ Unit[4] \in Nat /\ Unit[5] \in Nat
  BY TimeoutAssumption, SMT
<1>2. Unit[1] <= Unit[2] /\ Unit[2] <= Unit[3] /\ Unit[3] <= Unit[4] /\ Unit[4] <= Unit[5]
  BY TimeoutAssumption, SMT
<1>3. u = 1 \/ u = 2 \/ u = 3 \/ u = 4 \/ u = 5
  BY SMT
<1> QED BY <1>1, <1>2, <1>3, SMT

(* EncodeTimeout finds a unit: the hour is always one.                       *)
LEMMA UnitForFits ==
    ASSUME NEW t
    PROVE  UnitFor(t) \in 1..6 /\ Fits(t, UnitFor(t))
<1> DEFINE First(u) == Fits(t, u) /\ \A v \in 1..(u - 1) : ~Fits(t, v)
<1>1. Fits(t, 6)
  BY DEF Fits, Hour
<1>2. \E u \in 1..6 : First(u)
  <2>1. CASE Fits(t, 1)
    <3>1. First(1)
      BY <2>1, SMT
    <3> QED BY <3>1, SMT
  <2>2. CASE ~Fits(t, 1) /\ Fits(t, 2)
    <3>1. First(2)
      BY <2>2, SMT
    <3> QED BY <3>1, SMT
  <2>3. CASE ~Fits(t, 1) /\ ~Fits(t, 2) /\ Fits(t, 3)
    <3>1. \A v \in 1..(3 - 1) : v = 1 \/ v = 2
      BY SMT
    <3>2. First(3)
      BY <2>3, <3>1
    <3> QED BY <3>2, SMT
  <2>4. CASE ~Fits(t, 1) /\ ~Fits(t, 2) /\ ~Fits(t, 3) /\ Fits(t, 4)
    <3>1. \A v \in 1..(4 - 1) : v = 1 \/ v = 2 \/ v = 3
      BY SMT
    <3>2. First(4)
      BY <2>4, <3>1
    <3> QED BY <3>2, SMT
  <2>5. CASE ~Fits(t, 1) /\ ~Fits(t, 2) /\ ~Fits(t, 3) /\ ~Fits(t, 4) /\ Fits(t, 5)
    <3>1. \A v \in 1..(5 - 1) : v = 1 \/ v = 2 \/ v = 3 \/ v = 4
      BY SMT
    <3>2. First(5)
      BY <2>5, <3>1
    <3> QED BY <3>2, SMT
  <2>6. CASE ~Fits(t, 1) /\ ~Fits(t, 2) /\ ~Fits(t, 3) /\ ~Fits(t, 4) /\ ~Fits(t, 5)
    <3>1. \A v \in 1..(6 - 1) : v = 1 \/ v = 2 \/ v = 3 \/ v = 4 \/ v = 5
      BY SMT
    <3>2. First(6)
      BY <1>1, <2>6, <3>1
    <3> QED BY <3>2, SMT
  <2> QED BY <2>1, <2>2, <2>3, <2>4, <2>5, <2>6
<1>3. UnitFor(t) = CHOOSE u \in 1..6 : First(u)
  BY DEF UnitFor
<1>4. UnitFor(t) \in 1..6 /\ First(UnitFor(t))
  <2> HIDE DEF First
  <2> QED BY <1>2, <1>3
<1> QED BY <1>4

(* The server reads a timeout that is not shorter than the one the client    *)
(* wrote, less than one unit longer, and never overflows: what DecodeTimeout *)
(* makes of EncodeTimeout, for every duration an int64 can hold.             *)
THEOREM TimeoutRoundTrip ==
    \A t \in 1..MaxInt64 : Within(t, DecodeTimeout(EncodeTimeout(t)))
<1> SUFFICES ASSUME NEW t \in 1..MaxInt64
             PROVE  Within(t, DecodeTimeout(EncodeTimeout(t)))
  OBVIOUS
<1> DEFINE u == UnitFor(t)
           r == Unit[u]
           n == Div(t, r)
           h == EncodeTimeout(t)
<1>1. u \in 1..6 /\ Fits(t, u)
  BY UnitForFits
<1>2. /\ t \in Nat /\ t > 0 /\ t <= MaxInt64
      /\ MaxInt64 \in Nat /\ MaxValue \in Nat
  BY TimeoutAssumption, SMT
<1>3. r \in Nat \ {0}
  BY <1>1, TimeoutAssumption
<1>4. n \in Nat /\ r * n >= t /\ r * n < t + r
  <2> HIDE DEF r
  <2> QED BY <1>2, <1>3, DivRoundsUp
<1>5. h.value = n /\ h.unit = u
  BY <1>2, SMT DEF EncodeTimeout
<1>6. ASSUME n <= MaxValue, r * n <= MaxInt64,
             u = Hour => n <= MaxInt64 \div Unit[Hour]
      PROVE  Within(t, DecodeTimeout(h))
  <2>1. DecodeTimeout(h) = Int64(r * n)
    <3>1. MaxInt64 \div Unit[Hour] \in Nat
      BY TimeoutAssumption, SMT DEF Hour
    <3>2. ~(h.value > MaxValue)
      <4> HIDE DEF h, n
      <4> QED BY <1>2, <1>4, <1>5, <1>6, SMT
    <3>3. ~(h.unit = Hour /\ h.value > MaxInt64 \div Unit[Hour])
      <4> DEFINE k == MaxInt64 \div Unit[Hour]
      <4> HIDE DEF h, n, u, k
      <4>1. ~(h.unit = Hour /\ h.value > k)
        BY <1>4, <1>5, <1>6, <3>1, SMT DEF k
      <4> QED BY <4>1 DEF k
    <3>4. Unit[h.unit] * h.value = r * n
      BY <1>5
    <3> HIDE DEF h, n, r
    <3> QED BY <3>2, <3>3, <3>4 DEF DecodeTimeout
  <2>2. r * n \in Nat
    <3> HIDE DEF r, n
    <3> QED BY <1>3, <1>4, SMT
  <2>3. Int64(r * n) = r * n
    <3> HIDE DEF r, n
    <3> QED BY <1>6, <2>2, Int64Fits
  <2>4. r * n \in t..MaxInt64
    <3>1. PICK x \in Nat : x = r * n
      BY <2>2
    <3> HIDE DEF r, n
    <3>2. x >= t /\ x <= MaxInt64
      BY <1>4, <1>6, <3>1
    <3>3. x \in t..MaxInt64
      BY <1>2, <3>2, SMT
    <3> QED BY <3>1, <3>3
  <2> HIDE DEF h, n
  <2> QED BY <1>4, <2>1, <2>3, <2>4 DEF Within
<1>7. CASE u # Hour
  <2>1. u \in 1..5 /\ n <= MaxValue
    BY <1>1, <1>7, SMT DEF Fits, Hour
  <2>2. r <= Unit[5] /\ Unit[5] \in Nat
    BY <2>1, UnitAtMostMinute, TimeoutAssumption, SMT
  <2>3. r * n <= r * MaxValue /\ r * MaxValue <= Unit[5] * MaxValue
    <3> HIDE DEF r, n
    <3> QED BY <1>2, <1>3, <1>4, <2>1, <2>2, TimesMonotone
  <2>4. Unit[5] * MaxValue <= MaxInt64
    BY <1>2, <2>2, TimeoutAssumption, SMT
  <2>5. r * n <= MaxInt64
    <3> HIDE DEF r, n
    <3> QED BY <1>2, <1>3, <1>4, <2>2, <2>3, <2>4, SMT
  <2> QED BY <1>6, <1>7, <2>1, <2>5
<1>8. CASE u = Hour
  <2> DEFINE q == MaxInt64 \div r
  <2>1. r = Unit[Hour]
    BY <1>8
  <2>2. q \in Nat /\ r * q <= MaxInt64 /\ MaxInt64 < r * q + r
    <3> HIDE DEF r
    <3> QED BY <1>2, <1>3, SMT
  <2>3. q < MaxValue
    BY <2>1, TimeoutAssumption DEF Hour
  <2> HIDE DEF q, r, n
  <2>4. r * (q + 1) = r * q + r /\ r * (q + 2) = r * q + r + r
    BY <1>3, <2>2, SMT
  <2>5. n <= q + 1
    <3>1. r * n < r * (q + 2)
      BY <1>2, <1>3, <1>4, <2>2, <2>4, SMT
    <3>2. n < q + 2
      BY <1>3, <1>4, <2>2, <3>1, TimesCancel, SMT
    <3> QED BY <1>4, <2>2, <3>2, SMT
  <2>6. n <= MaxValue
    BY <1>2, <1>4, <2>2, <2>3, <2>5, SMT
  <2>7. CASE n <= q
    <3>1. r * n <= r * q
      BY <1>3, <1>4, <2>2, <2>7, TimesMonotone
    <3>2. r * n <= MaxInt64
      BY <1>2, <1>3, <1>4, <2>2, <3>1, SMT
    <3> QED BY <1>6, <2>1, <2>6, <2>7, <3>2 DEF q
  <2>8. CASE n > q
    <3>1. DecodeTimeout(h) = MaxInt64
      BY <1>2, <1>4, <1>5, <1>8, <2>1, <2>6, <2>8, SMT DEF DecodeTimeout, q
    <3>2. n = q + 1
      BY <1>4, <2>2, <2>5, <2>8, SMT
    <3>3. MaxInt64 < t + r
      BY <1>2, <1>3, <1>4, <2>2, <2>4, <3>2, SMT
    <3> QED BY <1>2, <3>1, <3>3, SMT DEF Within, r
  <2> QED BY <1>4, <2>2, <2>7, <2>8, SMT
<1> QED BY <1>7, <1>8
=============================================================================

------------------------------- MODULE Buffers -------------------------------
(* mem/buffer.go and mem/buffer_pool.go: byte slices with a count of the     *)
(* references to them, and the pool of slices by size.                       *)
(*                                                                           *)
(* The operators take the heap before a call and give the heap after it:     *)
(*   cap[s]    capacity of the backing array s, 0 if there is no such array  *)
(*   class[s]  the size class of the pool that holds s, 0 if none does       *)
(*   refs[s]   the counter all buffers over s share                          *)
(*   data[s]   what was last written to s                                    *)
(* The small objects a buffer is made of (the buffer, its counter) come from *)
(* pools of their own and are not told apart: a buffer over s is just a      *)
(* reference to s, freed once.  A buffer that is a plain Go slice            *)
(* (SliceBuffer, emptyBuffer) is NoSlice: Ref and Free do nothing to it.     *)
EXTENDS Integers, Sequences

CONSTANTS
    Slices,             \* backing arrays; bounds how many exist at a time
    NoSlice,
    ClassSizes,         \* bufferPoolSizes, ascending
    PoolingThreshold    \* bufferPoolingThreshold

ASSUME BuffersAssumption ==
    /\ NoSlice \notin Slices
    /\ ClassSizes \in Seq(Nat \ {0}) /\ ClassSizes # <<>>
    /\ \A i, j \in 1..Len(ClassSizes) : i < j => ClassSizes[i] < ClassSizes[j]
    /\ PoolingThreshold \in Nat

\* The pool is one for the whole program, so all goroutines share the heap.
VARIABLE heap

Blank == <<>>
Classes == 1..Len(ClassSizes)
MaxSize == ClassSizes[Len(ClassSizes)]

EmptyHeap ==
    [cap   |-> [s \in Slices |-> 0], class |-> [s \in Slices |-> 0],
     refs  |-> [s \in Slices |-> 0], data  |-> [s \in Slices |-> Blank]]

-----------------------------------------------------------------------------
(* The pool.                                                                 *)

\* findPool and findBestFitPool: the smallest class that is large enough.
FindBestFit(size) ==
    IF size > MaxSize THEN 0
    ELSE CHOOSE c \in Classes :
            size <= ClassSizes[c] /\ \A e \in 1..(c - 1) : ClassSizes[e] < size

\* A mutant of FindClosest: the class a slice of this size would be taken from.
FindClosestAbove(size) ==
    CHOOSE c \in Classes : size < ClassSizes[c] \/ c = Len(ClassSizes)

\* findPool and findClosestPool: the largest class that is not too large.
FindClosest(size) ==
    IF size < ClassSizes[1] THEN 1
    ELSE CHOOSE c \in Classes :
            ClassSizes[c] <= size /\ \A e \in (c + 1)..Len(ClassSizes) : size < ClassSizes[e]

\* A new array of the given capacity, if the bound leaves one.
Make(h, n) ==
    IF \A s \in Slices : h.cap[s] > 0 THEN {}
    ELSE LET s == CHOOSE x \in Slices : h.cap[x] = 0
         IN  {[slice |-> s, heap |-> [h EXCEPT !.cap[s] = n]]}

(* Get: any slice of the class, or a new one: a sync.Pool promises neither.  *)
Get(h, size) ==
    LET c == FindBestFit(size)
    IN  IF c = 0 THEN Make(h, size)
        ELSE Make(h, ClassSizes[c]) \cup
             {[slice |-> s, heap |-> [h EXCEPT !.class[s] = 0]] :
                s \in {x \in Slices : h.class[x] = c}}

\* The collector takes a slice, out of the pool or left by its last owner.
Drop(h, s) == [h EXCEPT !.cap[s] = 0, !.class[s] = 0, !.data[s] = Blank]

\* Put: a slice that is larger than the largest class is left to the collector.
Put(h, s) ==
    IF h.cap[s] > MaxSize THEN Drop(h, s)
    ELSE [h EXCEPT !.class[s] = FindClosest(h.cap[s])]

-----------------------------------------------------------------------------
(* References.                                                               *)
NewBuffer(h, s) == [h EXCEPT !.refs[s] = @ + 1]

Ref(h, s) == IF s = NoSlice THEN h ELSE [h EXCEPT !.refs[s] = @ + 1]

\* A mutant of Free: every Free gives the slice back.
FreeAtOnce(h, s) ==
    IF s = NoSlice THEN h ELSE Put([h EXCEPT !.refs[s] = @ - 1], s)

Free(h, s) ==
    IF s = NoSlice THEN h
    ELSE LET g == [h EXCEPT !.refs[s] = @ - 1]
         IN  IF g.refs[s] > 0 THEN g ELSE Put(g, s)

(* Copy and Marshal: a slice of size bytes, pooled if it is long enough.     *)
Alloc(h, size, bytes) ==
    IF size <= PoolingThreshold THEN {[slice |-> NoSlice, heap |-> h]}
    ELSE {[slice |-> g.slice,
           heap |-> NewBuffer([g.heap EXCEPT !.data[g.slice] = bytes], g.slice)] :
             g \in Get(h, size)}
=============================================================================

----------------------------- MODULE BufferSlices -----------------------------
(* mem/buffer_slice.go with split and read of mem/buffer.go: a user of the   *)
(* package who collects buffers, splits and reads them, and reads the whole  *)
(* through a Reader.                                                         *)
(*                                                                           *)
(* A buffer is [slice, len], slice NoSlice for a plain Go slice.  The user   *)
(* keeps the package's rules: every reference is freed once, and the         *)
(* buffers a Reader shares are not split or read while it has any left.      *)
EXTENDS Buffers, FiniteSets

CONSTANTS
    ChunkSizes,     \* lengths the user writes
    ReadSizes,      \* lengths the user asks for
    ReadAllSize,    \* readAllBufSize
    MaxBufs         \* bounds the number of buffers collected

ASSUME SlicesAssumption ==
    ChunkSizes \subseteq Nat /\ ReadSizes \subseteq Nat /\ ReadAllSize \in Nat

VARIABLES bs, whole, reader

sliceVars == <<bs, whole, reader>>

NotOpened == [data |-> <<>>, len |-> 0, idx |-> 0]

SlicesInit ==
    /\ bs = <<>>
    /\ whole = <<>>
    /\ reader = NotOpened

\* References to s in a sequence of buffers.
In(s, bufs) == Cardinality({i \in 1..Len(bufs) : bufs[i].slice = s})

\* The loops of Len, Ref and Free, by the number of buffers they have done.
TotalLen(s) ==
    LET upTo[i \in 0..Len(s)] == IF i = 0 THEN 0 ELSE upTo[i - 1] + s[i].len
    IN  upTo[Len(s)]
RefAll(h, s) ==
    LET upTo[i \in 0..Len(s)] == IF i = 0 THEN h ELSE Ref(upTo[i - 1], s[i].slice)
    IN  upTo[Len(s)]
FreeAll(h, s) ==
    LET upTo[i \in 0..Len(s)] == IF i = 0 THEN h ELSE Free(upTo[i - 1], s[i].slice)
    IN  upTo[Len(s)]

Without(s, i) == SubSeq(s, 1, i - 1) \o SubSeq(s, i + 1, Len(s))

(* writer.Write: a copy of the bytes is a buffer of its own.                 *)
Write(n) ==
    /\ Len(bs) < MaxBufs
    /\ \E a \in Alloc(heap, n, Blank) :
          /\ heap' = a.heap
          /\ bs' = Append(bs, [slice |-> a.slice, len |-> n])
    /\ UNCHANGED <<whole, reader>>

(* One round of ReadAll: a slice of readAllBufSize is filled with n bytes;   *)
(* an empty one goes back to the pool.                                       *)
ReadAllRound(n) ==
    /\ Len(bs) < MaxBufs
    /\ \E g \in Get(heap, ReadAllSize) :
          /\ n <= g.heap.cap[g.slice]
          /\ heap' = IF n = 0 THEN Put(g.heap, g.slice) ELSE NewBuffer(g.heap, g.slice)
          /\ bs' = IF n = 0 THEN bs ELSE Append(bs, [slice |-> g.slice, len |-> n])
    /\ UNCHANGED <<whole, reader>>

\* A mutant of Split: the second half does not take a reference.
SplitUncounted(i, n) ==
    /\ reader.data = <<>>
    /\ whole = <<>>
    /\ i \in 1..Len(bs)
    /\ Len(bs) < MaxBufs
    /\ n \in 0..bs[i].len
    /\ bs' = SubSeq(bs, 1, i - 1)
             \o <<[bs[i] EXCEPT !.len = n], [bs[i] EXCEPT !.len = @ - n]>>
             \o SubSeq(bs, i + 1, Len(bs))
    /\ UNCHANGED <<heap, whole, reader>>

(* split: two buffers over one slice, with one counter.                      *)
Split(i, n) ==
    /\ reader.data = <<>>
    /\ whole = <<>>
    /\ i \in 1..Len(bs)
    /\ Len(bs) < MaxBufs
    /\ n \in 0..bs[i].len
    /\ heap' = Ref(heap, bs[i].slice)
    /\ bs' = SubSeq(bs, 1, i - 1)
             \o <<[bs[i] EXCEPT !.len = n], [bs[i] EXCEPT !.len = @ - n]>>
             \o SubSeq(bs, i + 1, Len(bs))
    /\ UNCHANGED <<whole, reader>>

(* read: n bytes off one buffer, which is freed with its last byte.          *)
ReadBuffer(i, n) ==
    /\ reader.data = <<>>
    /\ whole = <<>>
    /\ i \in 1..Len(bs)
    /\ IF n >= bs[i].len
       THEN /\ heap' = Free(heap, bs[i].slice)
            /\ bs' = Without(bs, i)
       ELSE /\ bs' = [bs EXCEPT ![i].len = @ - n]
            /\ UNCHANGED heap
    /\ UNCHANGED <<whole, reader>>

(* MaterializeToBuffer: one more reference to the only buffer, nothing for   *)
(* no bytes, or a copy of all of them.                                       *)
MaterializeToBuffer ==
    /\ whole = <<>>
    /\ \/ /\ Len(bs) = 1
          /\ heap' = Ref(heap, bs[1].slice)
          /\ whole' = bs
       \/ /\ Len(bs) # 1
          /\ TotalLen(bs) = 0
          /\ whole' = <<[slice |-> NoSlice, len |-> 0]>>
          /\ UNCHANGED heap
       \/ /\ Len(bs) # 1
          /\ TotalLen(bs) > 0
          /\ \E g \in Get(heap, TotalLen(bs)) :
                /\ heap' = NewBuffer(g.heap, g.slice)
                /\ whole' = <<[slice |-> g.slice, len |-> TotalLen(bs)]>>
    /\ UNCHANGED <<bs, reader>>

FreeWhole ==
    /\ whole # <<>>
    /\ heap' = FreeAll(heap, whole)
    /\ whole' = <<>>
    /\ UNCHANGED <<bs, reader>>

FreeSlice ==
    /\ bs # <<>>
    /\ heap' = FreeAll(heap, bs)
    /\ bs' = <<>>
    /\ UNCHANGED <<whole, reader>>

-----------------------------------------------------------------------------
(* The Reader.  A state of it is [heap, data, len, idx].                     *)
NewReader ==
    /\ reader.data = <<>>
    /\ bs # <<>>
    /\ heap' = RefAll(heap, bs)
    /\ reader' = [data |-> bs, len |-> TotalLen(bs), idx |-> 0]
    /\ UNCHANGED <<bs, whole>>

Finished(r) == r.data # <<>> /\ r.idx = r.data[1].len

\* A mutant of FreeFirst: the position in the freed buffer is kept.
FreeFirstKeepsIdx(r) ==
    IF Finished(r)
    THEN [r EXCEPT !.heap = Free(@, r.data[1].slice), !.data = Tail(@)]
    ELSE r

\* freeFirstBufferIfEmpty.
FreeFirst(r) ==
    IF Finished(r)
    THEN [r EXCEPT !.heap = Free(@, r.data[1].slice), !.data = Tail(@), !.idx = 0]
    ELSE r

\* Bytes of the first buffer, as many as are asked for and are there.
Copied(r, n) ==
    LET k == IF n <= r.data[1].len - r.idx THEN n ELSE r.data[1].len - r.idx
    IN  [left |-> n - k, r |-> FreeFirst([r EXCEPT !.len = @ - k, !.idx = @ + k])]

\* The loop of Read: a round that does not end it uses up a buffer.
Round(c) == IF c.left = 0 \/ c.r.len = 0 THEN c ELSE Copied(c.r, c.left)
ReadLoop(r, n) ==
    LET after[i \in 0..Len(r.data)] ==
            IF i = 0 THEN [left |-> n, r |-> r] ELSE Round(after[i - 1])
    IN  after[Len(r.data)]

\* ReadByte skips empty buffers first.
SkipEmpty(r) ==
    LET after[i \in 0..Len(r.data)] == IF i = 0 THEN r ELSE FreeFirst(after[i - 1])
    IN  after[Len(r.data)]

Becomes(r) ==
    /\ heap' = r.heap
    /\ reader' = [data |-> r.data, len |-> r.len, idx |-> r.idx]
    /\ UNCHANGED <<bs, whole>>

Opened == [heap |-> heap, data |-> reader.data, len |-> reader.len, idx |-> reader.idx]

Read(n) ==
    /\ reader.len > 0
    /\ Becomes(ReadLoop(Opened, n).r)

ReadByte ==
    /\ reader.len > 0
    /\ Becomes(Copied(SkipEmpty(Opened), 1).r)

\* Close frees what is not read, and keeps the position in the first buffer.
CloseReader ==
    /\ reader.data # <<>>
    /\ heap' = FreeAll(heap, reader.data)
    /\ reader' = [data |-> <<>>, len |-> 0, idx |-> reader.idx]
    /\ UNCHANGED <<bs, whole>>

SliceNext ==
    \/ \E n \in ChunkSizes : Write(n)
    \/ \E n \in ChunkSizes : ReadAllRound(n)
    \/ \E i \in 1..MaxBufs, n \in ReadSizes \cup {0} : Split(i, n)
    \/ \E i \in 1..MaxBufs, n \in ReadSizes : ReadBuffer(i, n)
    \/ MaterializeToBuffer
    \/ FreeWhole
    \/ FreeSlice
    \/ NewReader
    \/ \E n \in ReadSizes : Read(n)
    \/ ReadByte
    \/ CloseReader
=============================================================================

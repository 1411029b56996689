------------------------------- MODULE Memory -------------------------------
(* The users of the buffer pool: workers that decode requests and encode     *)
(* responses (Wire), or a user of buffer slices (BufferSlices).              *)
EXTENDS Wire, BufferSlices

VARIABLE user   \* which of the two; never changes

vars == <<wireVars, sliceVars, user>>

Init ==
    /\ WireInit
    /\ SlicesInit
    /\ user \in {"workers", "slices"}

Next ==
    \/ /\ user = "workers"
       /\ \E p \in Workers : WorkerNext(p)
       /\ UNCHANGED <<sliceVars, user>>
    \/ /\ user = "slices"
       /\ SliceNext
       /\ UNCHANGED <<workerVars, user>>
    \/ /\ \E s \in Slices : Collect(s)
       /\ UNCHANGED <<sliceVars, user>>

Spec == Init /\ [][Next]_vars

-----------------------------------------------------------------------------
Holders(s) ==
    Cardinality({p \in Workers : stage[p] = "parse" /\ in[p] = s})
    + Cardinality({p \in Workers : out[p] = s}) + Cardinality({p \in Workers : d[p] = s})
    + In(s, bs) + In(s, whole) + In(s, reader.data)

BuffersOK(bufs) == bufs \in Seq([slice : Slices \cup {NoSlice}, len : Nat])

(* Types, with the Reader's lengths: its buffers are where its position is.  *)
TypeOK ==
    /\ WireTypeOK
    /\ BuffersOK(bs) /\ BuffersOK(whole) /\ BuffersOK(reader.data)
    /\ reader.len \in Nat /\ reader.idx \in Nat

(* "When all the references held by the Buffer are released, the Buffer is   *)
(* returned to the pool" (mem/buffer.go:32): the counter of a slice is the   *)
(* number of buffers that still have to be freed, through Ref, split, the    *)
(* Reader, the early Frees of Decode, the two of sendResponse and Marshal's  *)
(* Put on an error; and no slice is in the pool while there is a buffer over *)
(* it or Decode reads into it.  Strings over a slice are not counted.        *)
HoldersCounted ==
    \A s \in Slices :
        /\ heap.refs[s] = Holders(s)
        /\ heap.class[s] > 0 =>
              Holders(s) = 0 /\ ~\E p \in Workers : stage[p] = "fill" /\ in[p] = s

(* Get cuts the slice it takes to the size asked for without looking at its  *)
(* capacity (mem/buffer_pool.go:79, 86): every slice of a class is as large  *)
(* as the class, in whatever class Put has found for it.                     *)
GetFits ==
    \A s \in Slices : heap.class[s] > 0 => heap.cap[s] >= ClassSizes[heap.class[s]]

FewValues(r) == \A k \in Keys : Len(r.md[k]) < ByteMod

(* What Decode gives a worker is what the peer sent, on the paths with and   *)
(* without the pool, compressed, not worth compressing and too short to be,  *)
(* if no key has so many values that their number does not fit in a byte:    *)
(* the payload, which is copied, for as long as the request is handled, and  *)
(* the metadata until someone else has the slice that its strings refer to,  *)
(* which for a slice from outside the pool is never.                         *)
DecodedIntact ==
    \A p \in Workers : (got[p] # NoMsg /\ FewValues(msg[p])) =>
        /\ got[p] # Malformed
        /\ got[p].payload = msg[p].payload
        /\ ~Overwritten(p) => got[p].md = msg[p].md

(* The bytes a response is written from (server.go:889) are those it was     *)
(* encoded to: no other goroutine has got the slice in between.              *)
WrittenIntact ==
    \A p \in Workers : stage[p] = "write" => heap.data[out[p]] = <<"wire", Encode(reply[p])>>

(* A request is served with a deadline if it has one (server.go:540), which  *)
(* is not before the client's and less than one unit of the header after it, *)
(* and without if it has none; unless its header was in a pooled slice, and  *)
(* overwritten before serveRequest looked for it.                            *)
TimeoutKept ==
    \A p \in Workers : (stage[p] = "use" /\ (in[p] = NoSlice \/ deadline[p] # Garbage)) =>
        IF msg[p].timeout = 0 THEN deadline[p] = 0
                              ELSE Within(msg[p].timeout, deadline[p])

(* Remain and the end of Read go by a length of their own                    *)
(* (mem/buffer_slice.go:116): it is the number of bytes in the buffers the   *)
(* Reader still has, past its position in the first; none after Close.       *)
RemainExact ==
    /\ reader.data = <<>> => reader.len = 0
    /\ reader.data # <<>> => /\ reader.len = TotalLen(reader.data) - reader.idx
                             /\ reader.idx <= reader.data[1].len

(* Violated.  "note that it is immutable" (mem/buffer.go:16-17): the names   *)
(* and the metadata of a decoded request stay what they were while it is     *)
(* handled.                                                                  *)
StringsStable == \A p \in Workers : stage[p] \in {"decoded", "use"} => ~Overwritten(p)

(* Violated.  "Handle timeout from client" (server.go:537): a request is     *)
(* served with the deadline it came with.                                    *)
TimeoutHandled == \A p \in Workers : stage[p] = "use" => deadline[p] # Garbage
=============================================================================

---------------------------- MODULE MemoryProofs ----------------------------
(* What the buffers, the wire format and the timeout header keep, for any    *)
(* set of workers and requests, any size classes and limits.                 *)
EXTENDS Memory, MemoryLemmas

(* Zenon proves what needs no arithmetic; the other leaves name SMT.         *)
USE Zenon

-----------------------------------------------------------------------------
(* The workers.                                                              *)

\* The references to s among those of worker p.
Mine(p, s) ==
    (IF stage[p] = "parse" /\ in[p] = s THEN 1 ELSE 0)
    + (IF out[p] = s THEN 1 ELSE 0) + (IF d[p] = s THEN 1 ELSE 0)

(* A step of worker p changes the references as it changes those of p.       *)
LEMMA HoldersStep ==
    ASSUME NEW p \in Workers, NEW s,
           \A q \in Workers \ {p} : /\ stage'[q] = stage[q] /\ in'[q] = in[q]
                                   /\ out'[q] = out[q] /\ d'[q] = d[q],
           UNCHANGED sliceVars,
           Len(bs) \in Nat, Len(whole) \in Nat, Len(reader.data) \in Nat
    PROVE  /\ Holders(s) \in Nat /\ Holders(s)' \in Nat
           /\ Holders(s) >= Mine(p, s)
           /\ Holders(s)' = Holders(s) - Mine(p, s) + Mine(p, s)'
<1> DEFINE A == {q \in Workers : stage[q] = "parse" /\ in[q] = s}
           B == {q \in Workers : out[q] = s}
           C == {q \in Workers : d[q] = s}
           N == In(s, bs) + In(s, whole) + In(s, reader.data)
           a == IF p \in A THEN 1 ELSE 0
           b == IF p \in B THEN 1 ELSE 0
           c == IF p \in C THEN 1 ELSE 0
<1>1. IsFiniteSet(Workers)
  BY WireAssumption
<1>2. /\ Cardinality(A) \in Nat /\ Cardinality(A') \in Nat
      /\ Cardinality(A') - a' = Cardinality(A) - a /\ Cardinality(A) >= a
  <2>1. A \in SUBSET Workers /\ A' \in SUBSET Workers
    OBVIOUS
  <2>2. \A q \in Workers \ {p} : q \in A <=> q \in A'
    OBVIOUS
  <2>3. (a = IF p \in A THEN 1 ELSE 0) /\ (a' = IF p \in A' THEN 1 ELSE 0)
    OBVIOUS
  <2> HIDE DEF A, a
  <2> QED BY <1>1, <2>1, <2>2, <2>3, CountAt, SMT
<1>3. /\ Cardinality(B) \in Nat /\ Cardinality(B') \in Nat
      /\ Cardinality(B') - b' = Cardinality(B) - b /\ Cardinality(B) >= b
  <2>1. B \in SUBSET Workers /\ B' \in SUBSET Workers
    OBVIOUS
  <2>2. \A q \in Workers \ {p} : q \in B <=> q \in B'
    OBVIOUS
  <2>3. (b = IF p \in B THEN 1 ELSE 0) /\ (b' = IF p \in B' THEN 1 ELSE 0)
    OBVIOUS
  <2> HIDE DEF B, b
  <2> QED BY <1>1, <2>1, <2>2, <2>3, CountAt, SMT
<1>4. /\ Cardinality(C) \in Nat /\ Cardinality(C') \in Nat
      /\ Cardinality(C') - c' = Cardinality(C) - c /\ Cardinality(C) >= c
  <2>1. C \in SUBSET Workers /\ C' \in SUBSET Workers
    OBVIOUS
  <2>2. \A q \in Workers \ {p} : q \in C <=> q \in C'
    OBVIOUS
  <2>3. (c = IF p \in C THEN 1 ELSE 0) /\ (c' = IF p \in C' THEN 1 ELSE 0)
    OBVIOUS
  <2> HIDE DEF C, c
  <2> QED BY <1>1, <2>1, <2>2, <2>3, CountAt, SMT
<1>5. N \in Nat /\ N' = N
  <2>1. In(s, bs) \in Nat /\ In(s, whole) \in Nat /\ In(s, reader.data) \in Nat
    BY InNat
  <2>2. bs' = bs /\ whole' = whole /\ reader' = reader
    BY DEF sliceVars
  <2>3. In(s, bs') = In(s, bs) /\ In(s, whole') = In(s, whole) /\ In(s, reader.data') = In(s, reader.data)
    BY <2>2
  <2> QED BY <2>1, <2>3, SMT DEF In
<1>6. Holders(s) = Cardinality(A) + Cardinality(B) + Cardinality(C) + N
  <2> HIDE DEF A, B, C
  <2>1. In(s, bs) \in Nat /\ In(s, whole) \in Nat /\ In(s, reader.data) \in Nat
    BY InNat
  <2> QED BY <2>1, <1>2, <1>3, <1>4, SMT DEF Holders, A, B, C
<1>7. Holders(s)' = Cardinality(A') + Cardinality(B') + Cardinality(C') + N'
  <2>1. In(s, bs)' \in Nat /\ In(s, whole)' \in Nat /\ In(s, reader.data)' \in Nat
    <3>1. bs' = bs /\ whole' = whole /\ reader' = reader
      BY DEF sliceVars
    <3> QED BY <3>1, InNat, ZenonT(60) DEF In
  <2> QED BY <2>1, <1>2, <1>3, <1>4, SMT DEF Holders
<1>8. Mine(p, s) = a + b + c /\ Mine(p, s)' = a' + b' + c'
  BY DEF Mine
<1>9. a \in Int /\ b \in Int /\ c \in Int
      /\ a' \in Int /\ b' \in Int /\ c' \in Int
  BY SMT
<1> HIDE DEF A, B, C, N, a, b, c
<1>10. Holders(s) \in Nat /\ Holders(s)' \in Nat
  BY <1>2, <1>3, <1>4, <1>5, <1>6, <1>7, SMT
<1>11. PICK x \in Nat, y \in Nat, z \in Nat, n \in Nat, x2 \in Nat, y2 \in Nat, z2 \in Nat :
          /\ x = Cardinality(A) /\ y = Cardinality(B) /\ z = Cardinality(C) /\ n = N
          /\ x2 = Cardinality(A') /\ y2 = Cardinality(B') /\ z2 = Cardinality(C')
  BY <1>2, <1>3, <1>4, <1>5
<1>12. PICK i \in Int, j \in Int, k \in Int, i2 \in Int, j2 \in Int, k2 \in Int :
          i = a /\ j = b /\ k = c /\ i2 = a' /\ j2 = b' /\ k2 = c'
  BY <1>9
<1>13. /\ x2 - i2 = x - i /\ y2 - j2 = y - j /\ z2 - k2 = z - k
       /\ x >= i /\ y >= j /\ z >= k
  BY <1>2, <1>3, <1>4, <1>11, <1>12
<1>14. /\ Holders(s) = x + y + z + n /\ Holders(s)' = x2 + y2 + z2 + n
       /\ Mine(p, s) = i + j + k /\ Mine(p, s)' = i2 + j2 + k2
  BY <1>5, <1>6, <1>7, <1>8, <1>11, <1>12
<1> QED BY <1>10, <1>13, <1>14, SMT

(* What a worker has at each of its stages.                                  *)
WorkerOK(p) ==
    /\ stage[p] \in {"fill", "parse", "decoded", "use"} => msg[p] \in Requests
    /\ stage[p] \notin {"decoded", "use"} => got[p] = NoMsg
    /\ stage[p] # "write" => out[p] = NoSlice /\ d[p] = NoSlice
    /\ stage[p] = "fill" => in[p] \in Slices /\ Fresh(heap, in[p])
    /\ stage[p] = "parse" =>
          in[p] \in Slices /\ heap.data[in[p]] = <<"wire", Sent(msg[p])>>
    /\ stage[p] \in {"decoded", "use"} => got[p] = DecodeData(Sent(msg[p]))
    /\ stage[p] = "use" =>
          /\ got[p] # Malformed
          /\ \/ deadline[p] = DeadlineFor(got[p].timeout)
             \/ deadline[p] = Garbage /\ in[p] # NoSlice
    /\ stage[p] = "write" =>
          out[p] \in Slices /\ heap.data[out[p]] = <<"wire", Encode(reply[p])>>

\* No two workers read into one slice.
FillersApart ==
    \A p, q \in Workers :
        stage[p] = "fill" /\ stage[q] = "fill" /\ in[p] = in[q] => p = q

\* Only one of the two users is there.
OneUser ==
    /\ user \in {"workers", "slices"}
    /\ user = "workers" => bs = <<>> /\ whole = <<>> /\ reader = NotOpened
    /\ user = "slices" => \A p \in Workers : stage[p] = "idle"

\* A function of the workers.
Maps(f) == f = [p \in Workers |-> f[p]]

(* HoldersCounted follows once it is known that the heap is sound and who    *)
(* has the slices that are not counted.                                      *)
IInv ==
    /\ TypeOK
    /\ Sound(heap)
    /\ \A s \in Slices : heap.refs[s] = Holders(s)
    /\ \A p \in Workers : WorkerOK(p)
    /\ FillersApart
    /\ OneUser
    /\ Maps(got) /\ Maps(deadline) /\ Maps(reply)
    /\ reader = [data |-> reader.data, len |-> reader.len, idx |-> reader.idx]
    /\ RemainExact

\* What is in the slices.
Values == {heap.data[s] : s \in Slices} \cup {Blank}

(* The heap of a state that is typed, and back.                              *)
LEMMA HeapTyped ==
    ASSUME TypeOK
    PROVE  /\ heap \in Heaps(Values) /\ Blank \in Values
           /\ Len(bs) \in Nat /\ Len(whole) \in Nat /\ Len(reader.data) \in Nat
<1>1. heap \in [cap : [Slices -> Nat], class : [Slices -> 0..Len(ClassSizes)],
                 refs : [Slices -> Nat], data : [Slices -> {heap.data[s] : s \in Slices}]]
  BY DEF TypeOK, WireTypeOK
<1>2. heap \in Heaps({heap.data[s] : s \in Slices})
  BY <1>1, SMT DEF Heaps
<1>3. heap \in Heaps(Values) /\ Blank \in Values
  BY <1>2, HeapWiden DEF Values
<1>4. Len(bs) \in Nat /\ Len(whole) \in Nat /\ Len(reader.data) \in Nat
  BY SMT DEF TypeOK, BuffersOK
<1> QED BY <1>3, <1>4

(* Whoever has a reference to a slice is counted.                            *)
LEMMA HoldsOne ==
    ASSUME NEW q \in Workers, NEW s,
           Len(bs) \in Nat, Len(whole) \in Nat, Len(reader.data) \in Nat
    PROVE  /\ Holders(s) \in Nat
           /\ stage[q] = "parse" /\ in[q] = s => Holders(s) > 0
           /\ out[q] = s => Holders(s) > 0
<1> DEFINE A == {w \in Workers : stage[w] = "parse" /\ in[w] = s}
           B == {w \in Workers : out[w] = s}
           C == {w \in Workers : d[w] = s}
<1>1. A \in SUBSET Workers /\ B \in SUBSET Workers /\ C \in SUBSET Workers /\ IsFiniteSet(Workers)
  BY WireAssumption
<1>2. In(s, bs) \in Nat /\ In(s, whole) \in Nat /\ In(s, reader.data) \in Nat
  BY InNat
<1>3. Holders(s) = Cardinality(A) + Cardinality(B) + Cardinality(C)
                   + In(s, bs) + In(s, whole) + In(s, reader.data)
  BY DEF Holders
<1>4. /\ stage[q] = "parse" /\ in[q] = s => q \in A
      /\ out[q] = s => q \in B
  OBVIOUS
<1> HIDE DEF A, B, C
<1>5. /\ Cardinality(A) \in Nat /\ Cardinality(A) >= (IF q \in A THEN 1 ELSE 0)
      /\ Cardinality(B) \in Nat /\ Cardinality(B) >= (IF q \in B THEN 1 ELSE 0)
      /\ Cardinality(C) \in Nat
  BY <1>1, CountAt
<1>6. PICK x \in Nat, y \in Nat, z \in Nat, i \in Nat, j \in Nat, k \in Nat :
          /\ x = Cardinality(A) /\ y = Cardinality(B) /\ z = Cardinality(C)
          /\ i = In(s, bs) /\ j = In(s, whole) /\ k = In(s, reader.data)
  BY <1>2, <1>5
<1>7. Holders(s) = x + y + z + i + j + k
  BY <1>3, <1>6
<1>8. (q \in A => x > 0) /\ (q \in B => y > 0)
  BY <1>5, <1>6, SMT
<1> QED BY <1>4, <1>7, <1>8, SMT

\* HoldsOne in every state.
Lengths == Len(bs) \in Nat /\ Len(whole) \in Nat /\ Len(reader.data) \in Nat
AllCounted ==
    \A q \in Workers, s \in Slices :
        /\ stage[q] = "parse" /\ in[q] = s => Holders(s) > 0
        /\ out[q] = s => Holders(s) > 0

(* The references a worker has are counted.                                  *)
LEMMA HoldersCount == Lengths => AllCounted
BY HoldsOne DEF Lengths, AllCounted

(* So they are after a step.                                                 *)
LEMMA HoldersCountNext == Lengths' => AllCounted'
BY HoldersCount, PTL

(* A step of worker p keeps what the others have, if it leaves the bytes in  *)
(* counted slices and the slices others fill alone.                          *)
LEMMA OthersKept ==
    ASSUME IInv, NEW p \in Workers, NEW q \in Workers \ {p},
           /\ stage'[q] = stage[q] /\ msg'[q] = msg[q] /\ got'[q] = got[q] /\ in'[q] = in[q]
           /\ deadline'[q] = deadline[q] /\ reply'[q] = reply[q] /\ d'[q] = d[q] /\ out'[q] = out[q],
           \A x \in Slices : heap.refs[x] > 0 /\ heap'.refs[x] > 0 => heap'.data[x] = heap.data[x],
           \A x \in Slices : Fresh(heap, x) /\ ~(stage[p] = "fill" /\ in[p] = x) => Fresh(heap', x),
           \A x \in Slices : /\ heap'.refs[x] \in Int
                             /\ stage[q] = "parse" /\ in[q] = x => heap'.refs[x] > 0
                             /\ out[q] = x => heap'.refs[x] > 0
    PROVE  WorkerOK(q)'
<1>1. WorkerOK(q) /\ FillersApart /\ \A s \in Slices : heap.refs[s] = Holders(s)
  BY DEF IInv
<1>2. Len(bs) \in Nat /\ Len(whole) \in Nat /\ Len(reader.data) \in Nat
  BY HeapTyped DEF IInv
<1>3. ASSUME stage[q] = "parse"
      PROVE  in[q] \in Slices /\ heap'.data[in[q]] = <<"wire", Sent(msg[q])>>
  <2>1. in[q] \in Slices /\ heap.data[in[q]] = <<"wire", Sent(msg[q])>>
    BY <1>1, <1>3 DEF WorkerOK
  <2>2. Holders(in[q]) > 0
    BY <1>2, <1>3, HoldsOne
  <2>3. heap.refs[in[q]] > 0 /\ heap'.refs[in[q]] > 0
    BY <1>1, <1>3, <2>1, <2>2
  <2> QED BY <2>1, <2>3
<1>4. ASSUME stage[q] = "write"
      PROVE  out[q] \in Slices /\ heap'.data[out[q]] = <<"wire", Encode(reply[q])>>
  <2>1. out[q] \in Slices /\ heap.data[out[q]] = <<"wire", Encode(reply[q])>>
    BY <1>1, <1>4 DEF WorkerOK
  <2>2. Holders(out[q]) > 0
    BY <1>2, HoldsOne
  <2>3. heap.refs[out[q]] > 0 /\ heap'.refs[out[q]] > 0
    BY <1>1, <2>1, <2>2
  <2> QED BY <2>1, <2>3
<1>5. ASSUME stage[q] = "fill"
      PROVE  in[q] \in Slices /\ Fresh(heap', in[q])
  <2>1. in[q] \in Slices /\ Fresh(heap, in[q])
    BY <1>1, <1>5 DEF WorkerOK
  <2>2. ~(stage[p] = "fill" /\ in[p] = in[q])
    BY <1>1, <1>5 DEF FillersApart
  <2> QED BY <2>1, <2>2
<1>6. /\ stage'[q] \in {"fill", "parse", "decoded", "use"} => msg'[q] \in Requests
      /\ stage'[q] \notin {"decoded", "use"} => got'[q] = NoMsg
      /\ stage'[q] # "write" => out'[q] = NoSlice /\ d'[q] = NoSlice
      /\ stage'[q] \in {"decoded", "use"} => got'[q] = DecodeData(Sent(msg'[q]))
      /\ stage'[q] = "use" =>
            /\ got'[q] # Malformed
            /\ \/ deadline'[q] = DeadlineFor(got'[q].timeout)
               \/ deadline'[q] = Garbage /\ in'[q] # NoSlice
  BY <1>1 DEF WorkerOK
<1>7. /\ stage'[q] = "fill" => in'[q] \in Slices /\ Fresh(heap', in'[q])
      /\ stage'[q] = "parse" => in'[q] \in Slices /\ heap'.data[in'[q]] = <<"wire", Sent(msg'[q])>>
      /\ stage'[q] = "write" => out'[q] \in Slices /\ heap'.data[out'[q]] = <<"wire", Encode(reply'[q])>>
  BY <1>3, <1>4, <1>5
<1> QED BY <1>6, <1>7 DEF WorkerOK, Fresh

(* What it takes for a step of worker p to keep the invariant.               *)
LEMMA WorkerStep ==
    ASSUME IInv, user = "workers", NEW p \in Workers, UNCHANGED <<sliceVars, user>>,
           \A q \in Workers \ {p} :
              /\ stage'[q] = stage[q] /\ msg'[q] = msg[q] /\ got'[q] = got[q] /\ in'[q] = in[q]
              /\ deadline'[q] = deadline[q] /\ reply'[q] = reply[q] /\ d'[q] = d[q] /\ out'[q] = out[q],
           stage' \in [Workers -> {"idle", "fill", "parse", "decoded", "use", "write"}],
           msg' \in [Workers -> Requests \cup {NoMsg}],
           in' \in [Workers -> Slices \cup {NoSlice}],
           d' \in [Workers -> Slices \cup {NoSlice}],
           out' \in [Workers -> Slices \cup {NoSlice}],
           Maps(got'), Maps(deadline'), Maps(reply'),
           NEW D, heap' \in Heaps(D), Sound(heap'),
           \A x \in Slices : heap'.refs[x] = heap.refs[x] - Mine(p, x) + Mine(p, x)',
           \A x \in Slices : heap.refs[x] > 0 /\ heap'.refs[x] > 0 => heap'.data[x] = heap.data[x],
           \A x \in Slices : Fresh(heap, x) /\ ~(stage[p] = "fill" /\ in[p] = x) => Fresh(heap', x),
           stage'[p] = "fill" => \A q \in Workers \ {p} : stage[q] = "fill" => in[q] # in'[p],
           WorkerOK(p)'
    PROVE  IInv'
<1>1. bs' = bs /\ whole' = whole /\ reader' = reader /\ user' = user
  BY DEF sliceVars
<1>2. TypeOK'
  <2>1. heap' \in [cap : [Slices -> Nat], class : [Slices -> 0..Len(ClassSizes)],
                   refs : [Slices -> Nat], data : [Slices -> {heap'.data[s] : s \in Slices}]]
    BY HeapTypes, SMT
  <2>2. WireTypeOK'
    BY <2>1 DEF WireTypeOK
  <2>3. /\ BuffersOK(bs) /\ BuffersOK(whole) /\ BuffersOK(reader.data)
        /\ reader.len \in Nat /\ reader.idx \in Nat
    BY DEF IInv, TypeOK
  <2>4. (BuffersOK(bs) /\ BuffersOK(whole) /\ BuffersOK(reader.data)
         /\ reader.len \in Nat /\ reader.idx \in Nat)'
    BY <1>1, <2>3 DEF BuffersOK
  <2> QED BY <2>2, <2>4 DEF TypeOK
<1>3. Lengths
  BY HeapTyped DEF IInv, Lengths
<1>4. \A s \in Slices : heap'.refs[s] = Holders(s)'
  <2> SUFFICES ASSUME NEW s \in Slices
               PROVE  heap'.refs[s] = Holders(s)'
    OBVIOUS
  <2>1. UNCHANGED sliceVars
    OBVIOUS
  <2>2. Holders(s)' = Holders(s) - Mine(p, s) + Mine(p, s)'
    BY <1>3, <2>1, HoldersStep, SMT DEF Lengths
  <2>3. heap.refs[s] = Holders(s)
    BY DEF IInv
  <2> QED BY <2>2, <2>3
<1>5. AllCounted'
  <2>1. Lengths'
    BY <1>1, <1>3 DEF Lengths
  <2> QED BY <2>1, HoldersCountNext
<1>6. ASSUME NEW q \in Workers \ {p}
      PROVE  WorkerOK(q)'
  <2>1. \A x \in Slices : /\ heap'.refs[x] \in Int
                          /\ stage[q] = "parse" /\ in[q] = x => heap'.refs[x] > 0
                          /\ out[q] = x => heap'.refs[x] > 0
    BY <1>4, <1>5, SMT DEF AllCounted, Heaps
  <2> QED BY <2>1, OthersKept
<1>7. FillersApart'
  BY SMT DEF IInv, FillersApart
<1>8. OneUser'
  BY <1>1 DEF IInv, OneUser
<1>9. /\ reader' = [data |-> reader'.data, len |-> reader'.len, idx |-> reader'.idx]
      /\ RemainExact'
  BY <1>1 DEF IInv, RemainExact
<1>10. \A q \in Workers : WorkerOK(q)'
  BY <1>6
<1>11. Sound(heap)' /\ Maps(got)' /\ Maps(deadline)' /\ Maps(reply)'
  BY DEF Sound, Maps
<1> QED BY <1>2, <1>4, <1>7, <1>8, <1>9, <1>10, <1>11 DEF IInv

(* An assignment for one worker.                                             *)
LEMMA AssignedIn ==
    ASSUME NEW T, NEW f \in [Workers -> T], NEW p \in Workers, NEW v \in T,
           NEW g, g = [f EXCEPT ![p] = v]
    PROVE  g \in [Workers -> T] /\ g[p] = v /\ \A q \in Workers \ {p} : g[q] = f[q]
OBVIOUS

\* The types of the workers' variables, and what follows for worker p.
WorkerTypes(p) ==
    /\ stage \in [Workers -> {"idle", "fill", "parse", "decoded", "use", "write"}]
    /\ msg \in [Workers -> Requests \cup {NoMsg}]
    /\ in \in [Workers -> Slices \cup {NoSlice}]
    /\ d \in [Workers -> Slices \cup {NoSlice}]
    /\ out \in [Workers -> Slices \cup {NoSlice}]
    /\ Maps(got) /\ Maps(deadline) /\ Maps(reply)
    /\ WorkerOK(p)
    /\ heap \in Heaps(Values) /\ Blank \in Values /\ Sound(heap) /\ NoSlice \notin Slices
    /\ heap.refs \in [Slices -> Int]

(* The facts a step of worker p starts from.                                 *)
LEMMA StepFacts ==
    ASSUME IInv, NEW p \in Workers
    PROVE  WorkerTypes(p)
<1>1. heap \in Heaps(Values) /\ Blank \in Values
  BY HeapTyped DEF IInv
<1>2. heap.refs \in [Slices -> Int]
  BY <1>1 DEF Heaps
<1> QED BY <1>1, <1>2, BuffersAssumption DEF IInv, TypeOK, WireTypeOK, WorkerTypes

(* The length of a request is a number.                                      *)
LEMMA SentSize ==
    ASSUME NEW r \in Requests
    PROVE  Sent(r).dataL \in Nat
<1> DEFINE t == IF r.timeout > 0 THEN EncodeTimeout(r.timeout) ELSE NoTimeout
           m == PrepareMessage(r.names, r.md, t, r.payload)
<1>1. Sent(r) = Encode(m)
  BY DEF Sent
<1>2. m.payload \in PlainPayload
  BY WireAssumption DEF PrepareMessage
<1> HIDE DEF m
<1> QED BY <1>1, <1>2, EncodeSize

(* Decode's first part.                                                      *)
LEMMA ReceiveKeeps ==
    ASSUME IInv, user = "workers", UNCHANGED <<sliceVars, user>>,
           NEW p \in Workers, NEW r \in Requests, Receive(p, r)
    PROVE  IInv'
<1>1. WorkerTypes(p)
  BY StepFacts
<1>2. out[p] = NoSlice /\ d[p] = NoSlice /\ stage[p] = "idle"
  BY <1>1 DEF WorkerTypes, WorkerOK, Receive
<1>3. /\ msg' \in [Workers -> Requests \cup {NoMsg}] /\ msg'[p] = r
      /\ \A q \in Workers \ {p} : msg'[q] = msg[q]
  BY <1>1, AssignedIn DEF Receive, WorkerTypes
<1>4. deadline' = deadline /\ reply' = reply /\ d' = d /\ out' = out
  BY DEF Receive
<1>5. CASE Sent(r).dataL <= PoolingThreshold
  <2>1. /\ heap' = heap /\ in' = in /\ got' = [got EXCEPT ![p] = DecodeData(Sent(r))]
        /\ stage' = [stage EXCEPT ![p] = "decoded"]
    BY <1>5 DEF Receive
  <2>2. /\ Maps(got') /\ got'[p] = DecodeData(Sent(r))
        /\ \A q \in Workers \ {p} : got'[q] = got[q]
    <3>1. Maps(got)
      BY <1>1 DEF WorkerTypes
    <3> QED BY <2>1, <3>1 DEF Maps
  <2>3. /\ stage' \in [Workers -> {"idle", "fill", "parse", "decoded", "use", "write"}] /\ stage'[p] = "decoded"
        /\ \A q \in Workers \ {p} : stage'[q] = stage[q]
    BY <1>1, <2>1, AssignedIn DEF WorkerTypes
  <2>4. ASSUME NEW x \in Slices
        PROVE  Mine(p, x) = 0 /\ Mine(p, x)' = 0
    BY <1>1, <1>2, <1>4, <2>3, SMT DEF Mine, WorkerTypes
  <2>5. \A x \in Slices : heap'.refs[x] = heap.refs[x] - Mine(p, x) + Mine(p, x)'
    BY <1>1, <2>1, <2>4, SMT DEF WorkerTypes
  <2>6. WorkerOK(p)'
    BY <1>2, <1>3, <1>4, <2>2, <2>3 DEF WorkerOK
  <2>7. /\ \A x \in Slices : heap.refs[x] > 0 /\ heap'.refs[x] > 0 => heap'.data[x] = heap.data[x]
        /\ \A x \in Slices : Fresh(heap, x) => Fresh(heap', x)
    BY <2>1
  <2> QED BY <1>1, <1>3, <1>4, <2>1, <2>2, <2>3, <2>5, <2>6, <2>7, WorkerStep DEF WorkerTypes
<1>6. CASE ~(Sent(r).dataL <= PoolingThreshold)
  <2>1. PICK g \in Get(heap, Sent(r).dataL) :
           /\ heap' = g.heap /\ in' = [in EXCEPT ![p] = g.slice]
           /\ stage' = [stage EXCEPT ![p] = "fill"] /\ got' = got
    BY <1>6 DEF Receive
  <2>2. /\ g.slice \in Slices /\ g.heap \in Heaps(Values) /\ Sound(g.heap)
        /\ heap.refs[g.slice] = 0 /\ (heap.class[g.slice] > 0 \/ heap.cap[g.slice] = 0)
        /\ g.heap.refs = heap.refs /\ g.heap.data = heap.data
        /\ g.heap.class[g.slice] = 0 /\ g.heap.cap[g.slice] > 0
        /\ SameBut(g.heap, heap, g.slice)
    BY <1>1, SentSize, GetSound, SMT DEF WorkerTypes
  <2>3. /\ stage' \in [Workers -> {"idle", "fill", "parse", "decoded", "use", "write"}] /\ stage'[p] = "fill"
        /\ \A q \in Workers \ {p} : stage'[q] = stage[q]
    BY <1>1, <2>1, AssignedIn DEF WorkerTypes
  <2>4. /\ in' \in [Workers -> Slices \cup {NoSlice}] /\ in'[p] = g.slice
        /\ \A q \in Workers \ {p} : in'[q] = in[q]
    BY <1>1, <2>1, <2>2, AssignedIn DEF WorkerTypes
  <2>5. ASSUME NEW x \in Slices
        PROVE  Mine(p, x) = 0 /\ Mine(p, x)' = 0
    BY <1>1, <1>2, <1>4, <2>3, SMT DEF Mine, WorkerTypes
  <2>6. \A x \in Slices : heap'.refs[x] = heap.refs[x] - Mine(p, x) + Mine(p, x)'
    BY <1>1, <2>1, <2>2, <2>5, SMT DEF WorkerTypes
  <2>7. /\ \A x \in Slices : heap.refs[x] > 0 /\ heap'.refs[x] > 0 => heap'.data[x] = heap.data[x]
        /\ \A x \in Slices : Fresh(heap, x) => x # g.slice /\ Fresh(heap', x)
    BY <2>1, <2>2, SMT DEF Fresh, SameBut
  <2>8. WorkerOK(p)'
    <3>1. Fresh(heap', g.slice) /\ got[p] = NoMsg
      BY <1>1, <1>2, <2>1, <2>2 DEF Fresh, WorkerOK, WorkerTypes
    <3> QED BY <1>2, <1>3, <1>4, <2>1, <2>2, <2>3, <2>4, <3>1 DEF WorkerOK, Fresh
  <2>9. ASSUME NEW q \in Workers \ {p}, stage[q] = "fill"
        PROVE  in[q] # in'[p]
    <3>1. in[q] \in Slices /\ Fresh(heap, in[q])
      BY <2>9 DEF IInv, WorkerOK
    <3> QED BY <3>1, <2>4, <2>7
  <2> QED BY <1>1, <1>3, <1>4, <2>1, <2>2, <2>3, <2>4, <2>6, <2>7, <2>8, <2>9, WorkerStep DEF WorkerTypes
<1> QED BY <1>5, <1>6

(* The bytes are in the slice, which is counted from here on.                *)
LEMMA FillKeeps ==
    ASSUME IInv, user = "workers", UNCHANGED <<sliceVars, user>>, NEW p \in Workers, Fill(p)
    PROVE  IInv'
<1> DEFINE s == in[p]
           w == <<"wire", Sent(msg[p])>>
           D == Values \cup {w}
           b == [heap EXCEPT !.data[s] = w]
<1>1. WorkerTypes(p)
  BY StepFacts
<1>2. /\ out[p] = NoSlice /\ d[p] = NoSlice /\ stage[p] = "fill" /\ got[p] = NoMsg
      /\ s \in Slices /\ Fresh(heap, s) /\ msg[p] \in Requests
  BY <1>1 DEF WorkerTypes, WorkerOK, Fill
<1>3. /\ msg' = msg /\ got' = got /\ in' = in /\ deadline' = deadline /\ reply' = reply
      /\ d' = d /\ out' = out /\ stage' = [stage EXCEPT ![p] = "parse"] /\ heap' = NewBuffer(b, s)
  BY DEF Fill
<1>4. /\ stage' \in [Workers -> {"idle", "fill", "parse", "decoded", "use", "write"}] /\ stage'[p] = "parse"
      /\ \A q \in Workers \ {p} : stage'[q] = stage[q]
  BY <1>1, <1>3, AssignedIn DEF WorkerTypes
<1>5. heap \in Heaps(D) /\ w \in D /\ Sound(heap)
  BY <1>1, HeapWiden, SMT DEF WorkerTypes
<1> HIDE DEF s, w, D
<1>6. /\ b \in Heaps(D) /\ Sound(b) /\ b.refs = heap.refs /\ b.cap = heap.cap
      /\ b.class = heap.class /\ b.data = [heap.data EXCEPT ![s] = w]
  BY <1>2, <1>5, WriteSound, SMT
<1> HIDE DEF b
<1>7. /\ heap' \in Heaps(D) /\ Sound(heap')
      /\ \A x \in Slices : heap'.refs[x] = b.refs[x] + (IF x = s THEN 1 ELSE 0)
      /\ heap'.cap = b.cap /\ heap'.class = b.class /\ heap'.data = b.data
  <2>1. b.class[s] = 0 /\ b.cap[s] > 0 /\ s \in Slices /\ b \in Heaps(D) /\ Sound(b)
    BY <1>2, <1>6 DEF Fresh
  <2> QED BY <1>3, <2>1, NewBufferSound, SMT
<1>8. heap.data \in [Slices -> D]
  BY <1>5 DEF Heaps
<1>9. ASSUME NEW x \in Slices
      PROVE  Mine(p, x) = 0 /\ Mine(p, x)' = (IF x = s THEN 1 ELSE 0)
  BY <1>1, <1>2, <1>3, <1>4, SMT DEF Mine, WorkerTypes, s
<1>10. \A x \in Slices : heap'.refs[x] = heap.refs[x] - Mine(p, x) + Mine(p, x)'
  BY <1>1, <1>6, <1>7, <1>9, SMT DEF WorkerTypes
<1>11. \A x \in Slices : heap.refs[x] > 0 /\ heap'.refs[x] > 0 => heap'.data[x] = heap.data[x]
  BY <1>2, <1>6, <1>7, <1>8, SMT DEF Fresh
<1>12. \A x \in Slices : Fresh(heap, x) /\ ~(stage[p] = "fill" /\ in[p] = x) => Fresh(heap', x)
  BY <1>2, <1>6, <1>7, SMT DEF Fresh, s
<1>13. heap'.data[s] = w
  BY <1>2, <1>6, <1>7, <1>8
<1>14. WorkerOK(p)'
  BY <1>2, <1>3, <1>4, <1>13 DEF WorkerOK, s, w
<1> QED BY <1>1, <1>3, <1>4, <1>7, <1>10, <1>11, <1>12, <1>14, WorkerStep DEF WorkerTypes

(* A slice that was not filled goes back.                                    *)
LEMMA FillFailsKeeps ==
    ASSUME IInv, user = "workers", UNCHANGED <<sliceVars, user>>, NEW p \in Workers, FillFails(p)
    PROVE  IInv'
<1> DEFINE s == in[p]
<1>1. WorkerTypes(p)
  BY StepFacts
<1>2. /\ out[p] = NoSlice /\ d[p] = NoSlice /\ stage[p] = "fill" /\ got[p] = NoMsg
      /\ s \in Slices /\ Fresh(heap, s)
  BY <1>1 DEF WorkerTypes, WorkerOK, FillFails
<1>3. /\ got' = got /\ deadline' = deadline /\ reply' = reply /\ d' = d /\ out' = out
      /\ stage' = [stage EXCEPT ![p] = "idle"] /\ msg' = [msg EXCEPT ![p] = NoMsg]
      /\ in' = [in EXCEPT ![p] = NoSlice]
  BY DEF FillFails
<1>4. PICK bytes \in {heap.data[s], Blank} : heap' = Put([heap EXCEPT !.data[s] = bytes], s)
  BY DEF FillFails
<1>5. /\ stage' \in [Workers -> {"idle", "fill", "parse", "decoded", "use", "write"}] /\ stage'[p] = "idle"
      /\ \A q \in Workers \ {p} : stage'[q] = stage[q]
  BY <1>1, <1>3, AssignedIn DEF WorkerTypes
<1>6. /\ msg' \in [Workers -> Requests \cup {NoMsg}] /\ \A q \in Workers \ {p} : msg'[q] = msg[q]
      /\ in' \in [Workers -> Slices \cup {NoSlice}] /\ \A q \in Workers \ {p} : in'[q] = in[q]
  BY <1>1, <1>3 DEF WorkerTypes
<1> DEFINE b == [heap EXCEPT !.data[s] = bytes]
<1>7. bytes \in Values
  BY <1>4, <1>2 DEF Values
<1> HIDE DEF s
<1>8. /\ b \in Heaps(Values) /\ Sound(b) /\ b.refs = heap.refs /\ b.cap = heap.cap
       /\ b.class = heap.class /\ b.data = [heap.data EXCEPT ![s] = bytes]
  <2>1. heap \in Heaps(Values) /\ Sound(heap) /\ s \in Slices /\ bytes \in Values
    BY <1>1, <1>2, <1>7 DEF WorkerTypes
  <2> QED BY <2>1, WriteSound, SMT
<1>9. heap.data \in [Slices -> Values] /\ heap' = Put(b, s)
  BY <1>4, <1>1 DEF WorkerTypes, Heaps
<1> HIDE DEF b
<1>10. SameBut(b, heap, s)
  BY <1>8, <1>9 DEF SameBut
<1>11. /\ heap' \in Heaps(Values) /\ Sound(heap') /\ heap'.refs = b.refs
       /\ SameBut(heap', b, s)
  <2>1. b.class[s] = 0 /\ b.cap[s] > 0 /\ b.refs[s] = 0 /\ Blank \in Values
    BY <1>1, <1>2, <1>8 DEF Fresh, WorkerTypes
  <2> QED BY <1>2, <1>8, <1>9, <2>1, PutSound
<1>12. /\ heap' \in Heaps(Values) /\ Sound(heap') /\ heap'.refs = heap.refs
      /\ SameBut(heap', heap, s)
  BY <1>8, <1>10, <1>11 DEF SameBut
<1>13. ASSUME NEW x \in Slices
      PROVE  Mine(p, x) = 0 /\ Mine(p, x)' = 0
  BY <1>1, <1>2, <1>3, <1>5, SMT DEF Mine, WorkerTypes
<1>14. \A x \in Slices : heap'.refs[x] = heap.refs[x] - Mine(p, x) + Mine(p, x)'
  BY <1>1, <1>12, <1>13, SMT DEF WorkerTypes
<1>15. \A x \in Slices : heap.refs[x] > 0 /\ heap'.refs[x] > 0 => heap'.data[x] = heap.data[x]
  BY <1>2, <1>12, SMT DEF Fresh, SameBut
<1>16. \A x \in Slices : Fresh(heap, x) /\ ~(stage[p] = "fill" /\ in[p] = x) => Fresh(heap', x)
  BY <1>2, <1>12 DEF Fresh, SameBut, s
<1>17. WorkerOK(p)'
  BY <1>2, <1>3, <1>5 DEF WorkerOK
<1> QED BY <1>1, <1>3, <1>5, <1>6, <1>12, <1>14, <1>15, <1>16, <1>17, WorkerStep DEF WorkerTypes

(* decodeMessageData reads what Fill wrote.                                  *)
LEMMA ParsedKeeps ==
    ASSUME IInv, user = "workers", UNCHANGED <<sliceVars, user>>, NEW p \in Workers, Parsed(p)
    PROVE  IInv'
<1> DEFINE s == in[p]
           n == IF heap.cap[s] > MaxSize THEN NoSlice ELSE s
<1>1. WorkerTypes(p)
  BY StepFacts
<1>2. /\ out[p] = NoSlice /\ d[p] = NoSlice /\ stage[p] = "parse" /\ msg[p] \in Requests
      /\ s \in Slices /\ heap.data[s] = <<"wire", Sent(msg[p])>>
  BY <1>1 DEF WorkerTypes, WorkerOK, Parsed
<1>3. /\ msg' = msg /\ deadline' = deadline /\ reply' = reply /\ d' = d /\ out' = out
      /\ stage' = [stage EXCEPT ![p] = "decoded"] /\ got' = [got EXCEPT ![p] = DecodeData(heap.data[s][2])]
      /\ in' = [in EXCEPT ![p] = n] /\ heap' = Free(heap, s)
  BY <1>1 DEF Parsed, WorkerTypes
<1>4. /\ stage' \in [Workers -> {"idle", "fill", "parse", "decoded", "use", "write"}] /\ stage'[p] = "decoded"
      /\ \A q \in Workers \ {p} : stage'[q] = stage[q]
  BY <1>1, <1>3, AssignedIn DEF WorkerTypes
<1>5. /\ in' \in [Workers -> Slices \cup {NoSlice}] /\ \A q \in Workers \ {p} : in'[q] = in[q]
  BY <1>1, <1>2, <1>3 DEF WorkerTypes
<1>6. /\ Maps(got') /\ got'[p] = DecodeData(Sent(msg[p])) /\ \A q \in Workers \ {p} : got'[q] = got[q]
  <2>1. Maps(got) /\ heap.data[s][2] = Sent(msg[p])
    BY <1>1, <1>2, SMT DEF WorkerTypes
  <2> QED BY <1>3, <2>1 DEF Maps
<1>7. heap.refs[s] > 0
  <2>1. Lengths
    BY HeapTyped DEF IInv, Lengths
  <2>2. Holders(s) > 0
    BY <1>2, <2>1, HoldersCount DEF AllCounted
  <2> QED BY <1>2, <2>2 DEF IInv
<1> HIDE DEF s
<1>8. /\ heap' \in Heaps(Values) /\ Sound(heap')
      /\ \A x \in Slices : heap'.refs[x] = heap.refs[x] - (IF x = s THEN 1 ELSE 0)
      /\ \A x \in Slices : heap'.refs[x] > 0 => heap'.data[x] = heap.data[x]
      /\ SameBut(heap', heap, s)
  BY <1>1, <1>2, <1>3, <1>7, FreeCounts, SMT DEF WorkerTypes
<1>9. ASSUME NEW x \in Slices
      PROVE  Mine(p, x) = (IF x = s THEN 1 ELSE 0) /\ Mine(p, x)' = 0
  BY <1>1, <1>2, <1>3, <1>4, SMT DEF Mine, WorkerTypes, s
<1>10. \A x \in Slices : heap'.refs[x] = heap.refs[x] - Mine(p, x) + Mine(p, x)'
  BY <1>1, <1>8, <1>9, SMT DEF WorkerTypes
<1>11. \A x \in Slices : Fresh(heap, x) => Fresh(heap', x)
  BY <1>7, <1>8, SMT DEF Fresh, SameBut
<1>12. WorkerOK(p)'
  BY <1>2, <1>3, <1>4, <1>6 DEF WorkerOK
<1> QED BY <1>1, <1>3, <1>4, <1>5, <1>6, <1>8, <1>10, <1>11, <1>12, WorkerStep DEF WorkerTypes

(* Bytes nobody can read any more are forgotten.                             *)
LEMMA SettledSound ==
    ASSUME NEW D, Blank \in D, NEW h \in Heaps(D), Sound(h), NEW s \in Slices \cup {NoSlice},
           NEW p, NEW g, g = Settled(h, s, p)
    PROVE  /\ g \in Heaps(D) /\ Sound(g)
           /\ g.refs = h.refs /\ g.cap = h.cap /\ g.class = h.class
           /\ \A x \in Slices : h.refs[x] > 0 => g.data[x] = h.data[x]
<1>1. CASE g = h
  BY <1>1
<1>2. CASE g # h
  <2>1. s \in Slices /\ ~(h.refs[s] > 0) /\ g = [h EXCEPT !.data[s] = Blank]
    BY <1>2 DEF Settled
  <2>2. /\ g \in Heaps(D) /\ Sound(g) /\ g.refs = h.refs /\ g.cap = h.cap
        /\ g.class = h.class /\ g.data = [h.data EXCEPT ![s] = Blank]
    BY <2>1, WriteSound, SMT
  <2>3. h.data \in [Slices -> D]
    BY DEF Heaps
  <2> QED BY <2>1, <2>2, <2>3
<1> QED BY <1>1, <1>2

(* The deadline is read from the header, or from what is in its place.       *)
LEMMA ServeRequestKeeps ==
    ASSUME IInv, user = "workers", UNCHANGED <<sliceVars, user>>, NEW p \in Workers, ServeRequest(p)
    PROVE  IInv'
<1>1. WorkerTypes(p)
  BY StepFacts
<1>2. /\ out[p] = NoSlice /\ d[p] = NoSlice /\ stage[p] = "decoded" /\ got[p] # Malformed
      /\ msg[p] \in Requests /\ got[p] = DecodeData(Sent(msg[p]))
  BY <1>1 DEF WorkerTypes, WorkerOK, ServeRequest
<1>3. /\ heap' = heap /\ msg' = msg /\ got' = got /\ in' = in /\ reply' = reply
      /\ d' = d /\ out' = out /\ stage' = [stage EXCEPT ![p] = "use"]
  BY DEF ServeRequest
<1>4. /\ stage' \in [Workers -> {"idle", "fill", "parse", "decoded", "use", "write"}] /\ stage'[p] = "use"
      /\ \A q \in Workers \ {p} : stage'[q] = stage[q]
  BY <1>1, <1>3, AssignedIn DEF WorkerTypes
<1>5. /\ Maps(deadline') /\ \A q \in Workers \ {p} : deadline'[q] = deadline[q]
      /\ deadline'[p] = IF Overwritten(p) THEN Garbage ELSE DeadlineFor(got[p].timeout)
  <2>1. Maps(deadline)
    BY <1>1 DEF WorkerTypes
  <2> QED BY <2>1 DEF Maps, ServeRequest
<1>6. Overwritten(p) => in[p] # NoSlice
  BY DEF Overwritten
<1>7. ASSUME NEW x \in Slices
      PROVE  Mine(p, x) = 0 /\ Mine(p, x)' = 0
  BY <1>1, <1>2, <1>3, <1>4, SMT DEF Mine, WorkerTypes
<1>8. \A x \in Slices : heap'.refs[x] = heap.refs[x] - Mine(p, x) + Mine(p, x)'
  BY <1>1, <1>3, <1>7, SMT DEF WorkerTypes
<1>9. WorkerOK(p)'
  BY <1>2, <1>3, <1>4, <1>5, <1>6 DEF WorkerOK
<1>10. /\ \A x \in Slices : heap.refs[x] > 0 /\ heap'.refs[x] > 0 => heap'.data[x] = heap.data[x]
       /\ \A x \in Slices : Fresh(heap, x) => Fresh(heap', x)
  BY <1>3
<1> QED BY <1>1, <1>3, <1>4, <1>5, <1>8, <1>9, <1>10, WorkerStep DEF WorkerTypes

(* A request that cannot be decoded is dropped.                              *)
LEMMA AbandonKeeps ==
    ASSUME IInv, user = "workers", UNCHANGED <<sliceVars, user>>, NEW p \in Workers, Abandon(p)
    PROVE  IInv'
<1>1. WorkerTypes(p)
  BY StepFacts
<1>2. out[p] = NoSlice /\ d[p] = NoSlice /\ stage[p] = "decoded" /\ in[p] \in Slices \cup {NoSlice}
  BY <1>1 DEF WorkerTypes, WorkerOK, Abandon
<1>3. /\ deadline' = deadline /\ reply' = reply /\ d' = d /\ out' = out /\ got' = [got EXCEPT ![p] = NoMsg]
      /\ stage' = [stage EXCEPT ![p] = "idle"] /\ msg' = [msg EXCEPT ![p] = NoMsg]
      /\ in' = [in EXCEPT ![p] = NoSlice] /\ heap' = Settled(heap, in[p], p)
  BY DEF Abandon
<1>4. /\ stage' \in [Workers -> {"idle", "fill", "parse", "decoded", "use", "write"}] /\ stage'[p] = "idle"
      /\ \A q \in Workers \ {p} : stage'[q] = stage[q]
  BY <1>1, <1>3, AssignedIn DEF WorkerTypes
<1>5. /\ msg' \in [Workers -> Requests \cup {NoMsg}] /\ \A q \in Workers \ {p} : msg'[q] = msg[q]
      /\ in' \in [Workers -> Slices \cup {NoSlice}] /\ \A q \in Workers \ {p} : in'[q] = in[q]
  BY <1>1, <1>3 DEF WorkerTypes
<1>6. Maps(got') /\ got'[p] = NoMsg /\ \A q \in Workers \ {p} : got'[q] = got[q]
  <2>1. Maps(got)
    BY <1>1 DEF WorkerTypes
  <2> QED BY <1>3, <2>1 DEF Maps
<1>7. /\ heap' \in Heaps(Values) /\ Sound(heap')
      /\ heap'.refs = heap.refs /\ heap'.cap = heap.cap /\ heap'.class = heap.class
      /\ \A x \in Slices : heap.refs[x] > 0 => heap'.data[x] = heap.data[x]
  BY <1>1, <1>2, <1>3, SettledSound, SMT DEF WorkerTypes
<1>8. ASSUME NEW x \in Slices
      PROVE  Mine(p, x) = 0 /\ Mine(p, x)' = 0
  BY <1>1, <1>2, <1>3, <1>4, SMT DEF Mine, WorkerTypes
<1>9. \A x \in Slices : heap'.refs[x] = heap.refs[x] - Mine(p, x) + Mine(p, x)'
  BY <1>1, <1>7, <1>8, SMT DEF WorkerTypes
<1>10. \A x \in Slices : Fresh(heap, x) => Fresh(heap', x)
  BY <1>7 DEF Fresh
<1>11. WorkerOK(p)'
  BY <1>2, <1>3, <1>4, <1>6 DEF WorkerOK
<1> QED BY <1>1, <1>3, <1>4, <1>5, <1>6, <1>7, <1>9, <1>10, <1>11, WorkerStep DEF WorkerTypes

(* Marshal gives a slice with the reply, or none and the pool as sound.      *)
LEMMA MarshalSound ==
    ASSUME NEW D, Blank \in D, <<"reply">> \in D, NEW h \in Heaps(D), Sound(h),
           NEW y, y.size \in Nat, NEW p, NEW m \in Marshal(h, y, p)
    PROVE  /\ m.slice \in Slices \cup {NoSlice} /\ m.heap \in Heaps(D) /\ Sound(m.heap)
           /\ \A x \in Slices : m.heap.refs[x] = h.refs[x] + (IF x = m.slice THEN 1 ELSE 0)
           /\ \A x \in Slices : h.refs[x] > 0 => m.heap.data[x] = h.data[x]
           /\ \A x \in Slices : Fresh(h, x) => Fresh(m.heap, x)
<1>1. CASE \E a \in Alloc(h, y.size, <<"reply">>) : m = [slice |-> a.slice, heap |-> a.heap, payload |-> y]
  <2>1. PICK a \in Alloc(h, y.size, <<"reply">>) : m = [slice |-> a.slice, heap |-> a.heap, payload |-> y]
    BY <1>1
  <2>2. m.slice = a.slice /\ m.heap = a.heap
    BY <2>1
  <2> QED BY <2>1, <2>2, AllocSound, SMT
<1>2. CASE \E e \in MarshalFails(h, y, p) : m = [slice |-> NoSlice, heap |-> e, payload |-> Emptied(y)]
  <2>1. PICK e \in MarshalFails(h, y, p) : m = [slice |-> NoSlice, heap |-> e, payload |-> Emptied(y)]
    BY <1>2
  <2>2. m.slice = NoSlice /\ m.heap = e /\ NoSlice \notin Slices
    BY <2>1, BuffersAssumption
  <2>3. h.refs \in [Slices -> Int]
    BY SMT DEF Heaps
  <2>4. CASE e = h
    BY <2>2, <2>3, <2>4, SMT
  <2>5. CASE e # h
    <3>1. PICK g \in Get(h, y.size) :
             e = Settled(Put([g.heap EXCEPT !.data[g.slice] = <<"reply">>], g.slice), g.slice, p)
      BY <2>1, <2>5 DEF MarshalFails
    <3> DEFINE s == g.slice
               k == g.heap
               b == [k EXCEPT !.data[s] = <<"reply">>]
               u == Put(b, s)
    <3>2. /\ s \in Slices /\ k \in Heaps(D) /\ Sound(k)
          /\ h.refs[s] = 0 /\ (h.class[s] > 0 \/ h.cap[s] = 0)
          /\ k.refs = h.refs /\ k.data = h.data /\ k.class[s] = 0 /\ k.cap[s] > 0
          /\ SameBut(k, h, s)
      BY GetSound, SMT
    <3>3. e = Settled(u, s, p)
      BY <3>1
    <3> HIDE DEF s, k
    <3>4. /\ b \in Heaps(D) /\ Sound(b) /\ b.refs = k.refs /\ b.cap = k.cap
          /\ b.class = k.class /\ b.data = [k.data EXCEPT ![s] = <<"reply">>]
      BY <3>2, WriteSound, SMT
    <3> HIDE DEF b
    <3>5. u \in Heaps(D) /\ Sound(u) /\ u.refs = b.refs /\ SameBut(u, b, s)
      <4>1. b.class[s] = 0 /\ b.cap[s] > 0 /\ b.refs[s] = 0
        BY <3>2, <3>4
      <4> QED BY <3>2, <3>4, <4>1, PutSound
    <3> HIDE DEF u
    <3>6. /\ e \in Heaps(D) /\ Sound(e)
          /\ e.refs = u.refs /\ e.cap = u.cap /\ e.class = u.class
          /\ \A x \in Slices : u.refs[x] > 0 => e.data[x] = u.data[x]
      BY <3>2, <3>3, <3>5, SettledSound, SMT
    <3>7. e.refs = h.refs
      BY <3>2, <3>4, <3>5, <3>6
    <3>8. ASSUME NEW x \in Slices, h.refs[x] > 0
          PROVE  e.data[x] = h.data[x]
      <4>1. x # s /\ k.data \in [Slices -> D]
        BY <3>2, <3>8, SMT DEF Heaps
      <4>2. e.data[x] = u.data[x]
        BY <3>6, <3>7, <3>8
      <4>3. u.data[x] = b.data[x]
        BY <3>5, <4>1 DEF SameBut
      <4>4. b.data[x] = k.data[x] /\ k.data = h.data
        BY <3>2, <3>4, <4>1
      <4> QED BY <4>2, <4>3, <4>4
    <3>9. ASSUME NEW x \in Slices, Fresh(h, x)
          PROVE  Fresh(e, x)
      <4>1. x # s
        BY <3>2, <3>9, SMT DEF Fresh
      <4>2. e.cap[x] = u.cap[x] /\ e.class[x] = u.class[x] /\ e.refs[x] = h.refs[x]
        BY <3>6, <3>7
      <4>3. u.cap[x] = b.cap[x] /\ u.class[x] = b.class[x]
        BY <3>5, <4>1 DEF SameBut
      <4>4. b.cap[x] = k.cap[x] /\ b.class[x] = k.class[x]
        BY <3>4
      <4>5. k.cap[x] = h.cap[x] /\ k.class[x] = h.class[x]
        BY <3>2, <4>1 DEF SameBut
      <4> QED BY <3>9, <4>2, <4>3, <4>4, <4>5 DEF Fresh
    <3> QED BY <2>2, <2>3, <3>6, <3>7, <3>8, <3>9, SMT
  <2> QED BY <2>4, <2>5
<1> QED BY <1>1, <1>2 DEF Marshal

(* The reply and the response are in slices of their own.                    *)
LEMMA SendKeeps ==
    ASSUME IInv, user = "workers", UNCHANGED <<sliceVars, user>>,
           NEW p \in Workers, NEW r \in Replies, Send(p, r)
    PROVE  IInv'
<1> DEFINE h == Settled(heap, in[p], p)
           w == Encode(reply'[p])
           D == Values \cup {<<"reply">>, <<"wire", w>>}
<1>1. WorkerTypes(p)
  BY StepFacts
<1>2. out[p] = NoSlice /\ d[p] = NoSlice /\ stage[p] = "use" /\ in[p] \in Slices \cup {NoSlice}
  BY <1>1 DEF WorkerTypes, WorkerOK, Send
<1>3. /\ got' = [got EXCEPT ![p] = NoMsg] /\ deadline' = [deadline EXCEPT ![p] = 0]
      /\ stage' = [stage EXCEPT ![p] = "write"] /\ msg' = [msg EXCEPT ![p] = NoMsg]
      /\ in' = [in EXCEPT ![p] = NoSlice]
  BY DEF Send
<1>4. PICK m \in Marshal(h, r.payload, p) :
         LET v == Encode(Respond(got[p], r.md, m.payload))
         IN  /\ reply' = [reply EXCEPT ![p] = Respond(got[p], r.md, m.payload)]
             /\ \E g \in Get(m.heap, TotalL(v)) :
                   /\ heap' = NewBuffer([g.heap EXCEPT !.data[g.slice] = <<"wire", v>>], g.slice)
                   /\ d' = [d EXCEPT ![p] = m.slice]
                   /\ out' = [out EXCEPT ![p] = g.slice]
  BY DEF Send
<1>5. /\ Maps(got') /\ got'[p] = NoMsg /\ \A q \in Workers \ {p} : got'[q] = got[q]
      /\ Maps(deadline') /\ \A q \in Workers \ {p} : deadline'[q] = deadline[q]
      /\ Maps(reply') /\ reply'[p] = Respond(got[p], r.md, m.payload)
      /\ \A q \in Workers \ {p} : reply'[q] = reply[q]
  <2>1. Maps(got) /\ Maps(deadline) /\ Maps(reply)
    BY <1>1 DEF WorkerTypes
  <2> QED BY <1>4, <1>3, <2>1 DEF Maps
<1>6. \E g \in Get(m.heap, TotalL(w)) :
          /\ heap' = NewBuffer([g.heap EXCEPT !.data[g.slice] = <<"wire", w>>], g.slice)
          /\ d' = [d EXCEPT ![p] = m.slice]
          /\ out' = [out EXCEPT ![p] = g.slice]
  BY <1>4, <1>5
<1>7. PICK g \in Get(m.heap, TotalL(w)) :
          /\ heap' = NewBuffer([g.heap EXCEPT !.data[g.slice] = <<"wire", w>>], g.slice)
          /\ d' = [d EXCEPT ![p] = m.slice]
          /\ out' = [out EXCEPT ![p] = g.slice]
  BY <1>6
<1>8. /\ stage' \in [Workers -> {"idle", "fill", "parse", "decoded", "use", "write"}] /\ stage'[p] = "write"
      /\ \A q \in Workers \ {p} : stage'[q] = stage[q]
  BY <1>1, <1>3, AssignedIn DEF WorkerTypes
<1>9. /\ msg' \in [Workers -> Requests \cup {NoMsg}] /\ \A q \in Workers \ {p} : msg'[q] = msg[q]
      /\ in' \in [Workers -> Slices \cup {NoSlice}] /\ \A q \in Workers \ {p} : in'[q] = in[q]
  BY <1>1, <1>3 DEF WorkerTypes
<1>10. r.payload.size \in Nat /\ TotalL(w) \in Nat
  <2>1. r.payload \in PlainPayload
    BY WireAssumption
  <2>2. m.payload = r.payload \/ m.payload = Emptied(r.payload)
    BY <1>4, SMT DEF Marshal
  <2>3. Emptied(r.payload) \in PlainPayload
    <3>1. r.payload.body \in STRING /\ r.payload.packed \in Nat \ {0} /\ 0 \in Nat
      <4>1. 0 \in Nat
        BY SMT
      <4> QED BY <2>1, <4>1 DEF PlainPayload
    <3> QED BY <3>1 DEF Emptied, Plain, PlainPayload
  <2>4. reply'[p].payload = m.payload
    BY <1>5, SMT DEF Respond
  <2> QED BY <2>1, <2>2, <2>3, <2>4, EncodeSize DEF PlainPayload
<1>11. /\ Blank \in D /\ <<"reply">> \in D /\ <<"wire", w>> \in D /\ heap \in Heaps(D) /\ Sound(heap)
  <2>1. Values \subseteq D /\ <<"reply">> \in D /\ <<"wire", w>> \in D
    OBVIOUS
  <2> HIDE DEF D
  <2> QED BY <1>1, <2>1, HeapWiden DEF WorkerTypes
<1> HIDE DEF w, D
<1>12. /\ h \in Heaps(D) /\ Sound(h)
       /\ h.refs = heap.refs /\ h.cap = heap.cap /\ h.class = heap.class
       /\ \A x \in Slices : heap.refs[x] > 0 => h.data[x] = heap.data[x]
  BY <1>2, <1>11, SettledSound, SMT
<1> HIDE DEF h
<1>13. /\ m.slice \in Slices \cup {NoSlice} /\ m.heap \in Heaps(D) /\ Sound(m.heap)
       /\ \A x \in Slices : m.heap.refs[x] = h.refs[x] + (IF x = m.slice THEN 1 ELSE 0)
       /\ \A x \in Slices : h.refs[x] > 0 => m.heap.data[x] = h.data[x]
       /\ \A x \in Slices : Fresh(h, x) => Fresh(m.heap, x)
  BY <1>4, <1>10, <1>11, <1>12, MarshalSound
<1>14. /\ g.slice \in Slices /\ heap' \in Heaps(D) /\ Sound(heap')
       /\ m.heap.refs[g.slice] = 0 /\ (m.heap.class[g.slice] > 0 \/ m.heap.cap[g.slice] = 0)
       /\ \A x \in Slices : heap'.refs[x] = m.heap.refs[x] + (IF x = g.slice THEN 1 ELSE 0)
       /\ heap'.data[g.slice] = <<"wire", w>>
       /\ SameBut(heap', m.heap, g.slice)
  <2> DEFINE e == <<"wire", w>>
             k == m.heap
             n == TotalL(w)
  <2>1. /\ k \in Heaps(D) /\ Sound(k) /\ n \in Nat /\ e \in D /\ g \in Get(k, n)
        /\ heap' = NewBuffer([g.heap EXCEPT !.data[g.slice] = e], g.slice)
    BY <1>7, <1>10, <1>11, <1>13
  <2> HIDE DEF e, k, n
  <2>2. /\ g.slice \in Slices /\ heap' \in Heaps(D) /\ Sound(heap')
        /\ k.refs[g.slice] = 0 /\ (k.class[g.slice] > 0 \/ k.cap[g.slice] = 0)
        /\ \A x \in Slices : heap'.refs[x] = k.refs[x] + (IF x = g.slice THEN 1 ELSE 0)
        /\ heap'.data[g.slice] = e
        /\ SameBut(heap', k, g.slice)
    BY <2>1, TakenSound, SMT
  <2> QED BY <2>2 DEF e, k
<1>15. /\ d' \in [Workers -> Slices \cup {NoSlice}] /\ d'[p] = m.slice /\ \A q \in Workers \ {p} : d'[q] = d[q]
       /\ out' \in [Workers -> Slices \cup {NoSlice}] /\ out'[p] = g.slice
       /\ \A q \in Workers \ {p} : out'[q] = out[q]
  BY <1>1, <1>7, <1>13, <1>14 DEF WorkerTypes
<1>16. ASSUME NEW x \in Slices
       PROVE  /\ Mine(p, x) = 0
              /\ Mine(p, x)' = (IF x = m.slice THEN 1 ELSE 0) + (IF x = g.slice THEN 1 ELSE 0)
  BY <1>1, <1>2, <1>8, <1>15, SMT DEF Mine, WorkerTypes
<1>17. ASSUME NEW x \in Slices
       PROVE  /\ heap'.refs[x] = heap.refs[x] - Mine(p, x) + Mine(p, x)'
              /\ heap.refs[x] > 0 => heap'.data[x] = heap.data[x]
              /\ Fresh(heap, x) => Fresh(heap', x)
  <2>1. heap.refs[x] \in Int /\ h.refs[x] = heap.refs[x]
    BY <1>1, <1>12 DEF WorkerTypes
  <2>2. heap'.refs[x] = heap.refs[x] - Mine(p, x) + Mine(p, x)'
    BY <1>13, <1>14, <1>16, <2>1, SMT
  <2>3. heap.refs[x] > 0 => x # g.slice
    BY <1>13, <1>14, <2>1, SMT
  <2>4. heap.refs[x] > 0 => heap'.data[x] = heap.data[x]
    BY <1>12, <1>13, <1>14, <2>1, <2>3 DEF SameBut
  <2>5. Fresh(heap, x) => Fresh(m.heap, x)
    BY <1>12, <1>13 DEF Fresh
  <2>6. Fresh(m.heap, x) => x # g.slice
    BY <1>14, SMT DEF Fresh
  <2>7. x # g.slice /\ Fresh(m.heap, x) => Fresh(heap', x)
    BY <1>14 DEF Fresh, SameBut
  <2> QED BY <2>2, <2>4, <2>5, <2>6, <2>7
<1>18. WorkerOK(p)'
  BY <1>8, <1>5, <1>14, <1>15 DEF WorkerOK, w
<1> QED BY <1>1, <1>8, <1>9, <1>5, <1>14, <1>15, <1>17, <1>18, WorkerStep DEF WorkerTypes

(* The two Frees after the write.                                            *)
LEMMA WrittenKeeps ==
    ASSUME IInv, user = "workers", UNCHANGED <<sliceVars, user>>, NEW p \in Workers, Written(p)
    PROVE  IInv'
<1> DEFINE o == out[p]
           e == d[p]
           h1 == Free(heap, o)
           h2 == Free(h1, e)
           h3 == Settled(h2, o, p)
<1>1. WorkerTypes(p)
  BY StepFacts
<1>2. stage[p] = "write" /\ o \in Slices /\ e \in Slices \cup {NoSlice} /\ got[p] = NoMsg
  BY <1>1 DEF WorkerTypes, WorkerOK, Written
<1>3. /\ msg' = msg /\ got' = got /\ in' = in /\ deadline' = deadline
      /\ reply' = [reply EXCEPT ![p] = NoMsg]
      /\ stage' = [stage EXCEPT ![p] = "idle"] /\ d' = [d EXCEPT ![p] = NoSlice]
      /\ out' = [out EXCEPT ![p] = NoSlice] /\ heap' = Settled(h3, e, p)
  BY DEF Written
<1>4. /\ stage' \in [Workers -> {"idle", "fill", "parse", "decoded", "use", "write"}] /\ stage'[p] = "idle"
      /\ \A q \in Workers \ {p} : stage'[q] = stage[q]
  BY <1>1, <1>3, AssignedIn DEF WorkerTypes
<1>5. /\ d' \in [Workers -> Slices \cup {NoSlice}] /\ d'[p] = NoSlice
      /\ \A q \in Workers \ {p} : d'[q] = d[q]
      /\ out' \in [Workers -> Slices \cup {NoSlice}] /\ out'[p] = NoSlice
      /\ \A q \in Workers \ {p} : out'[q] = out[q]
  BY <1>1, <1>3 DEF WorkerTypes
<1>6. Maps(reply') /\ \A q \in Workers \ {p} : reply'[q] = reply[q]
  <2>1. Maps(reply)
    BY <1>1 DEF WorkerTypes
  <2> QED BY <1>3, <2>1 DEF Maps
<1>7. ASSUME NEW x \in Slices
      PROVE  /\ Mine(p, x) = (IF x = o THEN 1 ELSE 0) + (IF x = e THEN 1 ELSE 0) /\ Mine(p, x)' = 0
             /\ heap.refs[x] >= Mine(p, x)
  <2>1. Mine(p, x) = (IF x = o THEN 1 ELSE 0) + (IF x = e THEN 1 ELSE 0) /\ Mine(p, x)' = 0
    BY <1>1, <1>2, <1>4, <1>5, SMT DEF Mine, WorkerTypes
  <2>2. Lengths /\ UNCHANGED sliceVars
    BY HeapTyped DEF IInv, Lengths
  <2>3. Holders(x) >= Mine(p, x)
    BY <1>3, <1>4, <1>5, <2>2, HoldersStep DEF Lengths
  <2> QED BY <2>1, <2>3 DEF IInv
<1>8. heap \in Heaps(Values) /\ Blank \in Values /\ Sound(heap) /\ heap.refs \in [Slices -> Int]
  BY <1>1 DEF WorkerTypes
<1> HIDE DEF o, e
<1>9. /\ h1 \in Heaps(Values) /\ Sound(h1)
      /\ \A x \in Slices : h1.refs[x] = heap.refs[x] - (IF x = o THEN 1 ELSE 0)
      /\ \A x \in Slices : h1.refs[x] > 0 => h1.data[x] = heap.data[x]
      /\ SameBut(h1, heap, o)
  <2>1. heap.refs[o] > 0
    BY <1>2, <1>7, <1>8, SMT
  <2> QED BY <1>2, <1>8, <2>1, FreeCounts
<1> HIDE DEF h1
<1>10. /\ h2 \in Heaps(Values) /\ Sound(h2)
       /\ \A x \in Slices : h2.refs[x] = h1.refs[x] - (IF x = e THEN 1 ELSE 0)
       /\ \A x \in Slices : h2.refs[x] > 0 => h2.data[x] = h1.data[x]
       /\ SameBut(h2, h1, e)
  <2>1. e \in Slices => h1.refs[e] > 0
    BY <1>2, <1>7, <1>8, <1>9, SMT
  <2> QED BY <1>2, <1>8, <1>9, <2>1, FreeCounts
<1> HIDE DEF h2
<1>11. /\ h3 \in Heaps(Values) /\ Sound(h3)
       /\ h3.refs = h2.refs /\ h3.cap = h2.cap /\ h3.class = h2.class
       /\ \A x \in Slices : h2.refs[x] > 0 => h3.data[x] = h2.data[x]
  BY <1>2, <1>8, <1>10, SettledSound, SMT
<1> HIDE DEF h3
<1>12. /\ heap' \in Heaps(Values) /\ Sound(heap')
       /\ heap'.refs = h3.refs /\ heap'.cap = h3.cap /\ heap'.class = h3.class
       /\ \A x \in Slices : h3.refs[x] > 0 => heap'.data[x] = h3.data[x]
  <2>1. /\ heap' = Settled(h3, e, p) /\ h3 \in Heaps(Values) /\ Sound(h3)
        /\ Blank \in Values /\ e \in Slices \cup {NoSlice}
    BY <1>2, <1>3, <1>8, <1>11
  <2> QED BY <2>1, SettledSound, SMT
<1>13. ASSUME NEW x \in Slices
       PROVE  /\ heap'.refs[x] = heap.refs[x] - Mine(p, x) + Mine(p, x)'
              /\ heap'.refs[x] > 0 => heap'.data[x] = heap.data[x]
              /\ Fresh(heap, x) => Fresh(heap', x)
  <2>1. heap.refs[x] \in Int
    BY <1>8
  <2>2. heap'.refs[x] = heap.refs[x] - (IF x = o THEN 1 ELSE 0) - (IF x = e THEN 1 ELSE 0)
    BY <1>9, <1>10, <1>11, <1>12, SMT
  <2>3. heap'.refs[x] = heap.refs[x] - Mine(p, x) + Mine(p, x)'
    BY <1>7, <2>1, <2>2, SMT
  <2>4. heap'.refs[x] > 0 => heap'.data[x] = heap.data[x]
    BY <1>9, <1>10, <1>11, <1>12, <2>1, SMT
  <2>5. Fresh(heap, x) => x # o /\ x # e
    BY <1>7, <2>1, SMT DEF Fresh
  <2>6. x # o /\ x # e => heap'.cap[x] = heap.cap[x] /\ heap'.class[x] = heap.class[x]
    BY <1>9, <1>10, <1>11, <1>12, SMT DEF SameBut
  <2>7. Fresh(heap, x) => Fresh(heap', x)
    BY <2>1, <2>2, <2>5, <2>6, SMT DEF Fresh
  <2> QED BY <2>3, <2>4, <2>7
<1>14. WorkerOK(p)'
  BY <1>2, <1>3, <1>4, <1>5 DEF WorkerOK
<1> QED BY <1>1, <1>3, <1>4, <1>5, <1>6, <1>12, <1>13, <1>14, WorkerStep DEF WorkerTypes

(* The collector takes slices out of the pool only.                          *)
LEMMA CollectKeeps ==
    ASSUME IInv, UNCHANGED <<sliceVars, user>>, NEW s \in Slices, Collect(s)
    PROVE  IInv'
<1>1. heap.class[s] > 0 /\ heap' = Drop(heap, s) /\ UNCHANGED workerVars
  BY DEF Collect
<1>2. heap \in Heaps(Values) /\ Blank \in Values /\ Sound(heap) /\ Lengths
  BY HeapTyped DEF IInv, Lengths
<1>3. heap.refs[s] = 0
  BY <1>1, <1>2 DEF Sound
<1>4. heap' \in Heaps(Values) /\ Sound(heap') /\ heap'.refs = heap.refs /\ SameBut(heap', heap, s)
  BY <1>1, <1>2, <1>3, DropSound
<1>5. /\ bs' = bs /\ whole' = whole /\ reader' = reader /\ user' = user
      /\ stage' = stage /\ msg' = msg /\ got' = got /\ in' = in
      /\ deadline' = deadline /\ reply' = reply /\ d' = d /\ out' = out
  BY <1>1 DEF sliceVars, workerVars
<1>6. TypeOK'
  <2>1. heap' \in [cap : [Slices -> Nat], class : [Slices -> 0..Len(ClassSizes)],
                   refs : [Slices -> Nat], data : [Slices -> {heap'.data[x] : x \in Slices}]]
    BY <1>4, HeapTypes
  <2> QED BY <1>5, <2>1 DEF IInv, TypeOK, WireTypeOK, BuffersOK
<1>7. \A x \in Slices : heap'.refs[x] = Holders(x)'
  <2>1. \A x \in Slices : Holders(x)' = Holders(x)
    BY <1>5 DEF Holders, In
  <2> QED BY <2>1, <1>4 DEF IInv
<1>8. ASSUME NEW q \in Workers
      PROVE  WorkerOK(q)'
  <2>1. WorkerOK(q)
    BY DEF IInv
  <2>2. \A x \in Slices : Fresh(heap, x) => x # s /\ Fresh(heap', x)
    BY <1>1, <1>4, SMT DEF Fresh, SameBut
  <2>3. (stage[q] = "parse" => in[q] # s) /\ (stage[q] = "write" => out[q] # s)
    BY <1>2, <1>3, HoldersCount, SMT DEF AllCounted, IInv
  <2>4. /\ stage[q] = "parse" => heap'.data[in[q]] = heap.data[in[q]]
        /\ stage[q] = "write" => heap'.data[out[q]] = heap.data[out[q]]
    BY <1>4, <2>1, <2>3 DEF SameBut, WorkerOK
  <2>5. stage[q] = "fill" => in[q] \in Slices /\ Fresh(heap', in[q])
    BY <2>1, <2>2 DEF WorkerOK
  <2> QED BY <1>5, <2>1, <2>4, <2>5 DEF WorkerOK, Fresh
<1>9. FillersApart' /\ OneUser' /\ Maps(got)' /\ Maps(deadline)' /\ Maps(reply)' /\ Sound(heap)'
  BY <1>4, <1>5 DEF IInv, FillersApart, OneUser, Maps, Sound
<1>10. /\ reader' = [data |-> reader'.data, len |-> reader'.len, idx |-> reader'.idx]
       /\ RemainExact'
  BY <1>5 DEF IInv, RemainExact
<1> QED BY <1>6, <1>7, <1>8, <1>9, <1>10 DEF IInv

-----------------------------------------------------------------------------
(* The user of buffer slices.  While there is one, the workers have nothing. *)
Bare ==
    /\ \A p \in Workers : stage[p] = "idle" /\ out[p] = NoSlice /\ d[p] = NoSlice
    /\ Lengths

InAll(s) == In(s, bs) + In(s, whole) + In(s, reader.data)

(* Then the buffers are all that holds slices.                               *)
OnlyBuffers == \A s \in Slices : Holders(s) = InAll(s)

(* Without workers, the references are those of the buffers.                 *)
LEMMA BareHolders == Bare => OnlyBuffers
<1> SUFFICES ASSUME Bare, NEW s \in Slices
             PROVE  Holders(s) = InAll(s)
  BY DEF OnlyBuffers
<1>1. s # NoSlice
  BY BuffersAssumption
<1>2. /\ {p \in Workers : stage[p] = "parse" /\ in[p] = s} = {}
      /\ {p \in Workers : out[p] = s} = {} /\ {p \in Workers : d[p] = s} = {}
  BY <1>1 DEF Bare
<1>3. Cardinality({}) = 0
  BY NoneCounted
<1>4. Holders(s) = 0 + 0 + 0 + In(s, bs) + In(s, whole) + In(s, reader.data)
  BY <1>2, <1>3 DEF Holders
<1>5. In(s, bs) \in Nat /\ In(s, whole) \in Nat /\ In(s, reader.data) \in Nat
  BY InNat DEF Bare, Lengths
<1> QED BY <1>4, <1>5, SMT DEF InAll

(* And after a step.                                                         *)
LEMMA BareHoldersNext == Bare' => OnlyBuffers'
BY BareHolders, PTL

(* What the user of buffer slices may rely on.                               *)
LEMMA SliceFacts ==
    ASSUME IInv, user = "slices"
    PROVE  /\ Bare
           /\ heap \in Heaps(Values) /\ Blank \in Values /\ Sound(heap)
           /\ bs \in Bufs /\ whole \in Bufs /\ reader.data \in Bufs
           /\ \A x \in Slices : /\ heap.refs[x] = In(x, bs) + In(x, whole) + In(x, reader.data)
                                /\ In(x, bs) \in Nat /\ In(x, whole) \in Nat
                                /\ In(x, reader.data) \in Nat
<1>1. heap \in Heaps(Values) /\ Blank \in Values /\ Lengths
  BY HeapTyped DEF IInv, Lengths
<1>2. bs \in Bufs /\ whole \in Bufs /\ reader.data \in Bufs
  BY DEF IInv, TypeOK, BuffersOK, Bufs
<1>3. Bare
  BY <1>1 DEF IInv, OneUser, WorkerOK, Bare
<1>4. \A x \in Slices : heap.refs[x] = InAll(x)
  BY <1>3, BareHolders DEF IInv, OnlyBuffers
<1>5. \A x \in Slices : In(x, bs) \in Nat /\ In(x, whole) \in Nat /\ In(x, reader.data) \in Nat
  BY <1>1, InNat DEF Lengths
<1>6. Sound(heap)
  BY DEF IInv
<1> QED BY <1>1, <1>2, <1>3, <1>4, <1>5, <1>6 DEF InAll

(* What it takes for a step of the user of slices to keep the invariant.     *)
LEMMA SliceStep ==
    ASSUME IInv, user = "slices", UNCHANGED <<workerVars, user>>,
           NEW D, heap' \in Heaps(D), Sound(heap'),
           bs' \in Bufs, whole' \in Bufs, reader'.data \in Bufs,
           reader'.len \in Nat, reader'.idx \in Nat,
           reader' = [data |-> reader'.data, len |-> reader'.len, idx |-> reader'.idx],
           RemainExact',
           \A x \in Slices : heap'.refs[x] = In(x, bs') + In(x, whole') + In(x, reader'.data)
    PROVE  IInv'
<1>1. /\ stage' = stage /\ msg' = msg /\ got' = got /\ in' = in
      /\ deadline' = deadline /\ reply' = reply /\ d' = d /\ out' = out /\ user' = user
  BY DEF workerVars
<1>2. Bare
  BY SliceFacts
<1>3. Lengths'
  <2>1. Len(bs') \in Nat /\ Len(whole') \in Nat /\ Len(reader'.data) \in Nat
    BY BufsFacts
  <2> QED BY <2>1 DEF Lengths
<1>4. Bare'
  BY <1>1, <1>2, <1>3 DEF Bare
<1>5. \A x \in Slices : heap'.refs[x] = Holders(x)'
  <2>1. \A x \in Slices : Holders(x)' = InAll(x)'
    BY <1>4, BareHoldersNext DEF OnlyBuffers
  <2>2. \A x \in Slices : InAll(x)' = In(x, bs') + In(x, whole') + In(x, reader'.data)
    BY DEF InAll, In
  <2> QED BY <2>1, <2>2
<1>6. TypeOK'
  <2>1. heap' \in [cap : [Slices -> Nat], class : [Slices -> 0..Len(ClassSizes)],
                   refs : [Slices -> Nat], data : [Slices -> {heap'.data[x] : x \in Slices}]]
    BY HeapTypes, SMT
  <2> QED BY <1>1, <2>1 DEF IInv, TypeOK, WireTypeOK, BuffersOK, Bufs
<1>7. \A q \in Workers : WorkerOK(q)'
  <2> SUFFICES ASSUME NEW q \in Workers PROVE WorkerOK(q)'
    OBVIOUS
  <2>1. stage[q] = "idle" /\ stage'[q] = "idle" /\ WorkerOK(q)
    BY <1>1, <1>2 DEF Bare, IInv
  <2> QED BY <1>1, <2>1 DEF WorkerOK
<1>8. FillersApart' /\ OneUser' /\ Maps(got)' /\ Maps(deadline)' /\ Maps(reply)' /\ Sound(heap)'
  BY <1>1 DEF IInv, FillersApart, OneUser, Maps, Sound
<1> QED BY <1>5, <1>6, <1>7, <1>8 DEF IInv

(* One that leaves the Reader alone.                                         *)
LEMMA BufferStep ==
    ASSUME IInv, user = "slices", UNCHANGED <<workerVars, user>>,
           NEW D, heap' \in Heaps(D), Sound(heap'),
           bs' \in Bufs, whole' \in Bufs, reader' = reader,
           \A x \in Slices : heap'.refs[x] = In(x, bs') + In(x, whole') + In(x, reader.data)
    PROVE  IInv'
<1>1. /\ reader'.data \in Bufs /\ reader'.len \in Nat /\ reader'.idx \in Nat
      /\ reader' = [data |-> reader'.data, len |-> reader'.len, idx |-> reader'.idx]
  BY SliceFacts DEF IInv, TypeOK
<1>2. RemainExact'
  BY DEF IInv, RemainExact
<1>3. \A x \in Slices : heap'.refs[x] = In(x, bs') + In(x, whole') + In(x, reader'.data)
  OBVIOUS
<1> QED BY <1>1, <1>2, <1>3, SliceStep

(* The invariant through a Write.                                            *)
LEMMA WriteKeeps ==
    ASSUME IInv, user = "slices", UNCHANGED <<workerVars, user>>, NEW n \in ChunkSizes, Write(n)
    PROVE  IInv'
<1>1. n \in Nat
  BY SlicesAssumption
<1>2. PICK a \in Alloc(heap, n, Blank) :
          heap' = a.heap /\ bs' = Append(bs, [slice |-> a.slice, len |-> n])
  BY DEF Write
<1>3. whole' = whole /\ reader' = reader
  BY DEF Write
<1>4. /\ heap \in Heaps(Values) /\ Blank \in Values /\ Sound(heap)
      /\ bs \in Bufs /\ whole \in Bufs
      /\ \A x \in Slices : /\ heap.refs[x] = In(x, bs) + In(x, whole) + In(x, reader.data)
                           /\ In(x, bs) \in Nat /\ In(x, whole) \in Nat
                           /\ In(x, reader.data) \in Nat
  BY SliceFacts
<1>5. /\ a.slice \in Slices \cup {NoSlice} /\ heap' \in Heaps(Values) /\ Sound(heap')
      /\ \A x \in Slices : heap'.refs[x] = heap.refs[x] + (IF x = a.slice THEN 1 ELSE 0)
  BY <1>1, <1>2, <1>4, AllocSound, SMT
<1> DEFINE b == [slice |-> a.slice, len |-> n]
<1>6. b \in [slice : Slices \cup {NoSlice}, len : Nat] /\ b.slice = a.slice
  BY <1>1, <1>5
<1> HIDE DEF b
<1>7. bs' \in Bufs /\ \A x : In(x, bs') = In(x, bs) + (IF b.slice = x THEN 1 ELSE 0)
  BY <1>2, <1>4, <1>6, InAppend DEF b
<1>8. \A x \in Slices : heap'.refs[x] = In(x, bs') + In(x, whole') + In(x, reader.data)
  BY <1>3, <1>4, <1>5, <1>6, <1>7, SMT
<1> QED BY <1>3, <1>4, <1>5, <1>7, <1>8, BufferStep

(* The invariant through a round of ReadAll, whose buffer may come back      *)
(* empty.                                                                    *)
LEMMA ReadAllRoundKeeps ==
    ASSUME IInv, user = "slices", UNCHANGED <<workerVars, user>>,
           NEW n \in ChunkSizes, ReadAllRound(n)
    PROVE  IInv'
<1>1. n \in Nat /\ ReadAllSize \in Nat
  BY SlicesAssumption
<1>2. PICK g \in Get(heap, ReadAllSize) :
          /\ heap' = IF n = 0 THEN Put(g.heap, g.slice) ELSE NewBuffer(g.heap, g.slice)
          /\ bs' = IF n = 0 THEN bs ELSE Append(bs, [slice |-> g.slice, len |-> n])
  BY DEF ReadAllRound
<1>3. whole' = whole /\ reader' = reader
  BY DEF ReadAllRound
<1>4. /\ heap \in Heaps(Values) /\ Blank \in Values /\ Sound(heap)
      /\ bs \in Bufs /\ whole \in Bufs
      /\ \A x \in Slices : /\ heap.refs[x] = In(x, bs) + In(x, whole) + In(x, reader.data)
                           /\ In(x, bs) \in Nat /\ In(x, whole) \in Nat
                           /\ In(x, reader.data) \in Nat
  BY SliceFacts
<1>5. /\ g.slice \in Slices /\ g.heap \in Heaps(Values) /\ Sound(g.heap)
      /\ heap.refs[g.slice] = 0 /\ g.heap.refs = heap.refs
      /\ g.heap.class[g.slice] = 0 /\ g.heap.cap[g.slice] > 0
  BY <1>1, <1>4, GetSound
<1>6. CASE n = 0
  <2>1. heap' = Put(g.heap, g.slice) /\ bs' = bs
    BY <1>2, <1>6
  <2>2. heap' \in Heaps(Values) /\ Sound(heap') /\ heap'.refs = g.heap.refs
    BY <1>4, <1>5, <2>1, PutSound
  <2>3. \A x \in Slices : heap'.refs[x] = In(x, bs') + In(x, whole') + In(x, reader.data)
    BY <1>3, <1>4, <1>5, <2>1, <2>2
  <2> QED BY <1>3, <1>4, <2>1, <2>2, <2>3, BufferStep
<1>7. CASE n # 0
  <2> DEFINE b == [slice |-> g.slice, len |-> n]
  <2>1. heap' = NewBuffer(g.heap, g.slice) /\ bs' = Append(bs, b)
    BY <1>2, <1>7
  <2>2. /\ heap' \in Heaps(Values) /\ Sound(heap')
        /\ \A x \in Slices : heap'.refs[x] = heap.refs[x] + (IF x = g.slice THEN 1 ELSE 0)
    BY <1>5, <2>1, NewBufferSound, SMT
  <2>3. b \in [slice : Slices \cup {NoSlice}, len : Nat] /\ b.slice = g.slice
    BY <1>1, <1>5
  <2> HIDE DEF b
  <2>4. bs' \in Bufs /\ \A x : In(x, bs') = In(x, bs) + (IF b.slice = x THEN 1 ELSE 0)
    BY <1>4, <2>1, <2>3, InAppend, ZenonT(60)
  <2>5. \A x \in Slices : heap'.refs[x] = In(x, bs') + In(x, whole') + In(x, reader.data)
    BY <1>3, <1>4, <2>2, <2>3, <2>4, SMT
  <2> QED BY <1>3, <1>4, <2>2, <2>4, <2>5, BufferStep
<1> QED BY <1>6, <1>7

(* The invariant through split: a second buffer, and a second reference.     *)
LEMMA SplitKeeps ==
    ASSUME IInv, user = "slices", UNCHANGED <<workerVars, user>>, NEW i, NEW n, Split(i, n)
    PROVE  IInv'
<1> DEFINE S == [slice : Slices \cup {NoSlice}, len : Nat]
           x0 == [bs[i] EXCEPT !.len = n]
           y0 == [bs[i] EXCEPT !.len = @ - n]
           m == <<x0, y0>>
           s == bs[i].slice
<1>1. /\ heap \in Heaps(Values) /\ Blank \in Values /\ Sound(heap)
      /\ bs \in Bufs /\ whole \in Bufs
      /\ \A x \in Slices : /\ heap.refs[x] = In(x, bs) + In(x, whole) + In(x, reader.data)
                           /\ In(x, bs) \in Nat /\ In(x, whole) \in Nat
                           /\ In(x, reader.data) \in Nat
  BY SliceFacts
<1>2. /\ i \in 1..Len(bs) /\ n \in 0..bs[i].len
      /\ heap' = Ref(heap, s) /\ whole' = whole /\ reader' = reader
  BY DEF Split
<1>15. bs' = SubSeq(bs, 1, i - 1) \o m \o SubSeq(bs, i + 1, Len(bs))
  BY DEF Split
<1>3. bs[i] \in S /\ s \in Slices \cup {NoSlice} /\ bs[i].len \in Nat
  BY <1>1, <1>2, BufsFacts
<1>4. x0 \in S /\ y0 \in S /\ x0.slice = s /\ y0.slice = s
  BY <1>2, <1>3, SMT
<1>5. Bufs = Seq(S)
  BY DEF Bufs
<1> HIDE DEF x0, y0, S
<1>6. m \in Seq(S) /\ Len(m) = 2 /\ m[1] = x0 /\ m[2] = y0
  BY <1>4, SMT
<1> HIDE DEF m
<1>7. /\ bs' \in Seq(S) /\ Len(bs') = Len(bs) + 1
      /\ \A j \in 1..Len(bs) : j < i => bs'[j] = bs[j]
      /\ bs'[i] = m[1] /\ bs'[i + 1] = m[2]
      /\ \A j \in 1..Len(bs) : j > i => bs'[j + 1] = bs[j]
  <2>1. bs \in Seq(S)
    BY <1>1, <1>5
  <2> DEFINE w == SubSeq(bs, 1, i - 1) \o m \o SubSeq(bs, i + 1, Len(bs))
  <2>2. w \in Seq(S) /\ InPlace(w, bs, i, m)
    BY <1>2, <1>6, <2>1, SplitFacts
  <2>3. bs' = w
    BY <1>15
  <2> HIDE DEF w
  <2> QED BY <2>2, <2>3 DEF InPlace
<1>8. bs'[i].slice = s /\ bs'[i + 1].slice = s
  BY <1>4, <1>6, <1>7
<1>9. \A x : In(x, bs') = In(x, bs) + (IF s = x THEN 1 ELSE 0)
  <2>1. i \in 1..Len(bs) /\ bs \in Bufs
    BY <1>1, <1>2
  <2>2. bs'[i].slice = bs[i].slice /\ bs'[i + 1].slice = bs[i].slice
    BY <1>8
  <2>3. ASSUME NEW x
        PROVE  In(x, bs') = In(x, bs) + (IF bs[i].slice = x THEN 1 ELSE 0)
    BY <1>7, <2>1, <2>2, InSplit, SMT
  <2> QED BY <2>3
<1>10. In(s, bs) > 0
  BY <1>1, <1>2, InPositive
<1> HIDE DEF s
<1>11. s \in Slices => heap.refs[s] > 0
  BY <1>1, <1>10, SMT
<1>12. /\ heap' \in Heaps(Values) /\ Sound(heap')
       /\ \A x \in Slices : heap'.refs[x] = heap.refs[x] + (IF x = s THEN 1 ELSE 0)
  BY <1>1, <1>2, <1>3, <1>11, RefCounts
<1>13. \A x \in Slices : heap'.refs[x] = In(x, bs') + In(x, whole') + In(x, reader.data)
  BY <1>1, <1>2, <1>9, <1>12, SMT
<1>14. bs' \in Bufs /\ whole' \in Bufs /\ reader' = reader
  BY <1>1, <1>2, <1>5, <1>7
<1> QED BY <1>12, <1>13, <1>14, BufferStep

(* The invariant through ReadUnsafe, which frees a buffer it has read to its *)
(* end and splits one it has not.                                            *)
LEMMA ReadBufferKeeps ==
    ASSUME IInv, user = "slices", UNCHANGED <<workerVars, user>>,
           NEW i, NEW n \in ReadSizes, ReadBuffer(i, n)
    PROVE  IInv'
<1> DEFINE s == bs[i].slice
<1>1. /\ heap \in Heaps(Values) /\ Blank \in Values /\ Sound(heap)
      /\ bs \in Bufs /\ whole \in Bufs
      /\ \A x \in Slices : /\ heap.refs[x] = In(x, bs) + In(x, whole) + In(x, reader.data)
                           /\ In(x, bs) \in Nat /\ In(x, whole) \in Nat
                           /\ In(x, reader.data) \in Nat
  BY SliceFacts
<1>2. i \in 1..Len(bs) /\ whole' = whole /\ reader' = reader /\ n \in Nat
  BY SlicesAssumption DEF ReadBuffer
<1>3. bs[i] \in [slice : Slices \cup {NoSlice}, len : Nat] /\ s \in Slices \cup {NoSlice}
      /\ bs[i].len \in Nat
  BY <1>1, <1>2, BufsFacts
<1>4. CASE n >= bs[i].len
  <2>1. heap' = Free(heap, s) /\ bs' = Without(bs, i)
    BY <1>4 DEF ReadBuffer
  <2>2. In(s, bs) > 0
    BY <1>1, <1>2, InPositive
  <2>3. /\ bs' \in Bufs
        /\ \A x : In(x, bs') = In(x, bs) - (IF s = x THEN 1 ELSE 0)
    BY <1>1, <1>2, <2>1, InWithout
  <2> HIDE DEF s
  <2>4. s \in Slices => heap.refs[s] > 0
    BY <1>1, <2>2, SMT
  <2>5. /\ heap' \in Heaps(Values) /\ Sound(heap')
        /\ \A x \in Slices : heap'.refs[x] = heap.refs[x] - (IF x = s THEN 1 ELSE 0)
    BY <1>1, <1>3, <2>1, <2>4, FreeCounts
  <2>6. \A x \in Slices : heap'.refs[x] = In(x, bs') + In(x, whole') + In(x, reader.data)
    BY <1>1, <1>2, <2>3, <2>5, SMT
  <2> QED BY <1>1, <1>2, <2>3, <2>5, <2>6, BufferStep
<1>5. CASE ~(n >= bs[i].len)
  <2> DEFINE b == [slice |-> s, len |-> bs[i].len - n]
             w == [bs EXCEPT ![i].len = @ - n]
             S == [slice : Slices \cup {NoSlice}, len : Nat]
  <2>1. heap' = heap /\ bs' = w
    BY <1>5 DEF ReadBuffer
  <2>2. bs[i].len - n \in Nat
    BY <1>2, <1>3, <1>5, SMT
  <2>3. bs \in Seq(S) /\ Bufs = Seq(S) /\ bs[i] \in S
    BY <1>1, <1>3 DEF Bufs
  <2>4. [bs[i] EXCEPT !.len = @ - n] \in S /\ [bs[i] EXCEPT !.len = @ - n].slice = s
    BY <1>3, <2>2
  <2> HIDE DEF S
  <2>5. w = [bs EXCEPT ![i] = [bs[i] EXCEPT !.len = @ - n]]
    OBVIOUS
  <2> DEFINE c == [bs[i] EXCEPT !.len = @ - n]
  <2> HIDE DEF c, w
  <2>6. w = [bs EXCEPT ![i] = c] /\ c \in S /\ c.slice = s
    BY <2>4, <2>5 DEF c
  <2>7. w \in Seq(S) /\ Len(w) = Len(bs) /\ \A j \in 1..Len(bs) : w[j] = IF j = i THEN c ELSE bs[j]
    BY <1>2, <2>3, <2>6, SMT
  <2>8. \A j \in 1..Len(bs) : w[j].slice = bs[j].slice
    BY <2>6, <2>7
  <2>9. \A x : In(x, w) = In(x, bs)
    BY <2>7, <2>8, InSame
  <2>10. \A x \in Slices : heap'.refs[x] = In(x, bs') + In(x, whole') + In(x, reader.data)
    BY <1>1, <1>2, <2>1, <2>9
  <2>11. bs' \in Bufs
    BY <2>1, <2>3, <2>7
  <2> QED BY <1>1, <1>2, <2>1, <2>10, <2>11, BufferStep
<1> QED BY <1>4, <1>5

(* The invariant through MaterializeToBuffer: a reference to the only        *)
(* buffer, or a copy of them all.                                            *)
LEMMA MaterializeKeeps ==
    ASSUME IInv, user = "slices", UNCHANGED <<workerVars, user>>, MaterializeToBuffer
    PROVE  IInv'
<1>1. /\ heap \in Heaps(Values) /\ Blank \in Values /\ Sound(heap)
      /\ bs \in Bufs /\ whole \in Bufs /\ reader.data \in Bufs
      /\ \A x \in Slices : /\ heap.refs[x] = In(x, bs) + In(x, whole) + In(x, reader.data)
                           /\ In(x, bs) \in Nat /\ In(x, whole) \in Nat
                           /\ In(x, reader.data) \in Nat
  BY SliceFacts
<1>2. whole = <<>> /\ bs' = bs /\ reader' = reader
  BY DEF MaterializeToBuffer
<1>3. \A x \in Slices : In(x, whole) = 0
  BY <1>2, InEmpty
<1>4. TotalLen(bs) \in Nat
  BY <1>1, TotalFacts
<1>5. CASE Len(bs) = 1 /\ heap' = Ref(heap, bs[1].slice) /\ whole' = bs
  <2> DEFINE s == bs[1].slice
  <2>1. 1 \in 1..Len(bs) /\ s \in Slices \cup {NoSlice}
    <3>1. Len(bs) = 1
      BY <1>5
    <3>2. 1 \in 1..1
      BY SMT
    <3> QED BY <1>1, <3>1, <3>2, BufsFacts
  <2>2. In(s, bs) > 0
    BY <1>1, <2>1, InPositive
  <2>3. \A x : In(x, bs) = (IF s = x THEN 1 ELSE 0)
    <3> DEFINE b == bs[1]
    <3>1. bs = <<b>> /\ b \in [slice : Slices \cup {NoSlice}, len : Nat]
      <4>1. b \in [slice : Slices \cup {NoSlice}, len : Nat]
        BY <1>1, <2>1, BufsFacts
      <4>2. bs = <<bs[1]>>
        BY <1>1, <1>5, SMT DEF Bufs
      <4> QED BY <4>1, <4>2
    <3>2. s = b.slice
      OBVIOUS
    <3> HIDE DEF b
    <3>3. \A x : In(x, <<b>>) = (IF b.slice = x THEN 1 ELSE 0)
      BY <3>1, InOne
    <3> QED BY <3>1, <3>2, <3>3
  <2> HIDE DEF s
  <2>4. s \in Slices => heap.refs[s] > 0
    BY <1>1, <2>2, SMT
  <2>5. /\ heap' \in Heaps(Values) /\ Sound(heap')
        /\ \A x \in Slices : heap'.refs[x] = heap.refs[x] + (IF x = s THEN 1 ELSE 0)
    BY <1>1, <1>5, <2>1, <2>4, RefCounts DEF s
  <2>6. \A x \in Slices : heap'.refs[x] = In(x, bs') + In(x, whole') + In(x, reader.data)
    BY <1>1, <1>2, <1>3, <1>5, <2>3, <2>5, SMT
  <2> QED BY <1>1, <1>2, <1>5, <2>5, <2>6, BufferStep
<1>6. CASE whole' = <<[slice |-> NoSlice, len |-> 0]>> /\ heap' = heap
  <2> DEFINE b == [slice |-> NoSlice, len |-> 0]
  <2>1. b \in [slice : Slices \cup {NoSlice}, len : Nat] /\ b.slice = NoSlice /\ whole' = <<b>>
    BY <1>6
  <2> HIDE DEF b
  <2>2. whole' \in Bufs /\ \A x \in Slices : In(x, whole') = (IF b.slice = x THEN 1 ELSE 0)
    BY <2>1, InOne
  <2>3. \A x \in Slices : In(x, whole') = 0
    BY <2>1, <2>2, BuffersAssumption
  <2>4. \A x \in Slices : heap'.refs[x] = In(x, bs') + In(x, whole') + In(x, reader.data)
    BY <1>1, <1>2, <1>3, <1>6, <2>3
  <2>5. heap' \in Heaps(Values) /\ Sound(heap')
    BY <1>1, <1>6
  <2> QED BY <1>1, <1>2, <2>2, <2>4, <2>5, BufferStep
<1>7. CASE \E g \in Get(heap, TotalLen(bs)) :
                /\ heap' = NewBuffer(g.heap, g.slice)
                /\ whole' = <<[slice |-> g.slice, len |-> TotalLen(bs)]>>
  <2>1. PICK g \in Get(heap, TotalLen(bs)) :
                /\ heap' = NewBuffer(g.heap, g.slice)
                /\ whole' = <<[slice |-> g.slice, len |-> TotalLen(bs)]>>
    BY <1>7
  <2>2. /\ g.slice \in Slices /\ g.heap \in Heaps(Values) /\ Sound(g.heap)
        /\ heap.refs[g.slice] = 0 /\ g.heap.refs = heap.refs
        /\ g.heap.class[g.slice] = 0 /\ g.heap.cap[g.slice] > 0
    BY <1>1, <1>4, GetSound
  <2> DEFINE b == [slice |-> g.slice, len |-> TotalLen(bs)]
  <2>3. b \in [slice : Slices \cup {NoSlice}, len : Nat] /\ b.slice = g.slice /\ whole' = <<b>>
    BY <1>4, <2>1, <2>2
  <2> HIDE DEF b
  <2>4. whole' \in Bufs /\ \A x : In(x, whole') = (IF b.slice = x THEN 1 ELSE 0)
    BY <2>3, InOne
  <2>5. /\ heap' \in Heaps(Values) /\ Sound(heap')
        /\ \A x \in Slices : heap'.refs[x] = heap.refs[x] + (IF x = g.slice THEN 1 ELSE 0)
    BY <2>1, <2>2, NewBufferSound, SMT
  <2>6. \A x \in Slices : heap'.refs[x] = In(x, bs') + In(x, whole') + In(x, reader.data)
    BY <1>1, <1>2, <1>3, <2>3, <2>4, <2>5, SMT
  <2> QED BY <1>1, <1>2, <2>4, <2>5, <2>6, BufferStep
<1> QED BY <1>5, <1>6, <1>7 DEF MaterializeToBuffer

(* The invariant through the Free of a materialized buffer.                  *)
LEMMA FreeWholeKeeps ==
    ASSUME IInv, user = "slices", UNCHANGED <<workerVars, user>>, FreeWhole
    PROVE  IInv'
<1>1. /\ heap \in Heaps(Values) /\ Blank \in Values /\ Sound(heap)
      /\ bs \in Bufs /\ whole \in Bufs /\ reader.data \in Bufs
      /\ \A x \in Slices : /\ heap.refs[x] = In(x, bs) + In(x, whole) + In(x, reader.data)
                           /\ In(x, bs) \in Nat /\ In(x, whole) \in Nat
                           /\ In(x, reader.data) \in Nat
  BY SliceFacts
<1>2. heap' = FreeAll(heap, whole) /\ whole' = <<>> /\ bs' = bs /\ reader' = reader
  BY DEF FreeWhole
<1>3. \A x \in Slices : heap.refs[x] >= In(x, whole)
  BY <1>1, SMT
<1>4. /\ heap' \in Heaps(Values) /\ Sound(heap')
      /\ \A x \in Slices : heap'.refs[x] = heap.refs[x] - In(x, whole)
  BY <1>1, <1>2, <1>3, FreeAllCounts
<1>5. whole' \in Bufs /\ \A x \in Slices : In(x, whole') = 0
  BY <1>2, InEmpty, SMT DEF Bufs
<1>6. \A x \in Slices : heap'.refs[x] = In(x, bs') + In(x, whole') + In(x, reader.data)
  BY <1>1, <1>2, <1>4, <1>5, SMT
<1> QED BY <1>1, <1>2, <1>4, <1>5, <1>6, BufferStep

(* The invariant through BufferSlice.Free.                                   *)
LEMMA FreeSliceKeeps ==
    ASSUME IInv, user = "slices", UNCHANGED <<workerVars, user>>, FreeSlice
    PROVE  IInv'
<1>1. /\ heap \in Heaps(Values) /\ Blank \in Values /\ Sound(heap)
      /\ bs \in Bufs /\ whole \in Bufs /\ reader.data \in Bufs
      /\ \A x \in Slices : /\ heap.refs[x] = In(x, bs) + In(x, whole) + In(x, reader.data)
                           /\ In(x, bs) \in Nat /\ In(x, whole) \in Nat
                           /\ In(x, reader.data) \in Nat
  BY SliceFacts
<1>2. heap' = FreeAll(heap, bs) /\ bs' = <<>> /\ whole' = whole /\ reader' = reader
  BY DEF FreeSlice
<1>3. \A x \in Slices : heap.refs[x] >= In(x, bs)
  BY <1>1, SMT
<1>4. /\ heap' \in Heaps(Values) /\ Sound(heap')
      /\ \A x \in Slices : heap'.refs[x] = heap.refs[x] - In(x, bs)
  BY <1>1, <1>2, <1>3, FreeAllCounts
<1>5. bs' \in Bufs /\ \A x \in Slices : In(x, bs') = 0
  BY <1>2, InEmpty, SMT DEF Bufs
<1>6. \A x \in Slices : heap'.refs[x] = In(x, bs') + In(x, whole') + In(x, reader.data)
  BY <1>1, <1>2, <1>4, <1>5, SMT
<1> QED BY <1>1, <1>2, <1>4, <1>5, <1>6, BufferStep

\* References of the user beside the Reader's.
Base == [x \in Slices |-> In(x, bs) + In(x, whole)]

(* The reader of a state accounts for its references and its length.         *)
LEMMA OpenedReads ==
    ASSUME IInv, user = "slices", reader.len > 0
    PROVE  /\ Opened \in Readers(Values, Base) /\ Base \in [Slices -> Nat] /\ Blank \in Values
           /\ Opened.len = reader.len
<1>1. /\ heap \in Heaps(Values) /\ Blank \in Values /\ Sound(heap)
      /\ bs \in Bufs /\ whole \in Bufs /\ reader.data \in Bufs
      /\ \A x \in Slices : /\ heap.refs[x] = In(x, bs) + In(x, whole) + In(x, reader.data)
                           /\ In(x, bs) \in Nat /\ In(x, whole) \in Nat
                           /\ In(x, reader.data) \in Nat
  BY SliceFacts
<1>2. reader.len \in Nat /\ reader.idx \in Nat /\ RemainExact
  BY DEF IInv, TypeOK
<1>3. Base \in [Slices -> Nat] /\ \A x \in Slices : Base[x] = In(x, bs) + In(x, whole)
  BY <1>1, SMT DEF Base
<1>4. Opened \in [heap : Heaps(Values), data : Bufs, len : Nat, idx : Nat]
  BY <1>1, <1>2 DEF Opened
<1>5. /\ Opened.heap = heap /\ Opened.data = reader.data /\ Opened.len = reader.len
      /\ Opened.idx = reader.idx
  BY DEF Opened
<1>6. \A x \in Slices : heap.refs[x] = Base[x] + In(x, reader.data)
  BY <1>1, <1>3
<1>7. /\ reader.len = TotalLen(reader.data) - reader.idx
      /\ reader.data # <<>> => reader.idx <= reader.data[1].len
  <2>1. reader.data # <<>>
    BY <1>2, SMT DEF RemainExact
  <2> QED BY <1>2, <2>1 DEF RemainExact
<1>8. Opened \in Readers(Values, Base)
  BY <1>1, <1>4, <1>5, <1>6, <1>7 DEF Readers
<1> QED BY <1>1, <1>3, <1>5, <1>8

(* The invariant through whatever leaves the reader accountable.             *)
LEMMA BecomesKeeps ==
    ASSUME IInv, user = "slices", UNCHANGED <<workerVars, user>>, 
           NEW r \in Readers(Values, Base), Becomes(r)
    PROVE  IInv'
<1>1. /\ heap \in Heaps(Values) /\ Blank \in Values /\ Sound(heap)
      /\ bs \in Bufs /\ whole \in Bufs /\ reader.data \in Bufs
      /\ \A x \in Slices : /\ heap.refs[x] = In(x, bs) + In(x, whole) + In(x, reader.data)
                           /\ In(x, bs) \in Nat /\ In(x, whole) \in Nat
                           /\ In(x, reader.data) \in Nat
  BY SliceFacts
<1>2. /\ heap' = r.heap /\ bs' = bs /\ whole' = whole
      /\ reader' = [data |-> r.data, len |-> r.len, idx |-> r.idx]
  BY DEF Becomes
<1>3. Base \in [Slices -> Nat] /\ \A x \in Slices : Base[x] = In(x, bs) + In(x, whole)
  BY <1>1, SMT DEF Base
<1>4. /\ r.heap \in Heaps(Values) /\ r.data \in Bufs /\ r.len \in Nat /\ r.idx \in Nat
      /\ Sound(r.heap)
      /\ r.len = TotalLen(r.data) - r.idx
      /\ r.data # <<>> => r.idx <= r.data[1].len
      /\ \A x \in Slices : r.heap.refs[x] = Base[x] + In(x, r.data)
  BY <1>3, ReaderFacts
<1>5. reader'.data = r.data /\ reader'.len = r.len /\ reader'.idx = r.idx
  BY <1>2
<1>6. RemainExact'
  <2>1. /\ reader'.len = TotalLen(reader'.data) - reader'.idx
        /\ reader'.data # <<>> => reader'.idx <= reader'.data[1].len
    BY <1>4, <1>5
  <2>2. reader'.data = <<>> => reader'.len = 0
    <3>1. ASSUME r.data = <<>> PROVE r.len = 0
      <4>1. TotalLen(r.data) = 0 /\ r.len = TotalLen(r.data) - r.idx /\ r.len \in Nat /\ r.idx \in Nat
        BY <1>4, <3>1, TotalFacts
      <4> QED BY <4>1, SMT
    <3> QED BY <1>5, <3>1
  <2> QED BY <2>1, <2>2 DEF RemainExact, TotalLen
<1>7. \A x \in Slices : heap'.refs[x] = In(x, bs') + In(x, whole') + In(x, reader'.data)
  BY <1>2, <1>3, <1>4, <1>5
<1>8. /\ heap' \in Heaps(Values) /\ Sound(heap') /\ bs' \in Bufs /\ whole' \in Bufs
      /\ reader'.data \in Bufs /\ reader'.len \in Nat /\ reader'.idx \in Nat
      /\ reader' = [data |-> reader'.data, len |-> reader'.len, idx |-> reader'.idx]
  BY <1>1, <1>2, <1>4, <1>5
<1> QED BY <1>6, <1>7, <1>8, SliceStep

(* Read leaves the reader accountable, with as much less to read as was      *)
(* asked for, or with nothing.                                               *)
LEMMA ReadBecomes ==
    ASSUME IInv, user = "slices", NEW n \in ReadSizes, Read(n)
    PROVE  \E r \in Readers(Values, Base) :
              /\ Becomes(r)
              /\ r.len = IF n >= reader.len THEN 0 ELSE reader.len - n
<1>1. /\ Opened \in Readers(Values, Base) /\ Base \in [Slices -> Nat] /\ Blank \in Values
      /\ Opened.len = reader.len /\ n \in Nat
  BY OpenedReads, SlicesAssumption DEF Read
<1> DEFINE r == ReadLoop(Opened, n).r
<1>2. /\ r \in Readers(Values, Base)
      /\ r.len = IF n >= reader.len THEN 0 ELSE reader.len - n
  BY <1>1, ReadReads, SMT
<1>3. Becomes(r)
  BY DEF Read
<1> HIDE DEF r
<1> QED BY <1>2, <1>3

(* ReadByte leaves it accountable, with one byte less to read.               *)
LEMMA ReadByteBecomes ==
    ASSUME IInv, user = "slices", ReadByte
    PROVE  \E r \in Readers(Values, Base) : Becomes(r) /\ r.len = reader.len - 1
<1>1. /\ Opened \in Readers(Values, Base) /\ Base \in [Slices -> Nat] /\ Blank \in Values
      /\ Opened.len = reader.len /\ reader.len > 0
  BY OpenedReads DEF ReadByte
<1> DEFINE k == SkipEmpty(Opened)
           c == Copied(k, 1)
<1>2. k \in Readers(Values, Base) /\ k.len = reader.len /\ ~Finished(k)
  BY <1>1, SkipReads
<1>3. Becomes(c.r)
  BY DEF ReadByte
<1> HIDE DEF k
<1>4. k.data # <<>> /\ k.len \in Nat
  BY <1>1, <1>2, ReaderFacts, SMT
<1>5. /\ c \in [left : Nat, r : Readers(Values, Base)]
      /\ c.r.len + 1 = k.len + c.left
      /\ c.r.len < k.len
  <2>1. 1 \in Nat /\ 1 > 0
    BY SMT
  <2> QED BY <1>1, <1>2, <1>4, <2>1, CopiedReads, SMT
<1> HIDE DEF c
<1>6. c.r \in Readers(Values, Base) /\ c.left \in Nat
  BY <1>5
<1>7. c.r.len \in Nat
  BY <1>1, <1>6, ReaderFacts
<1>8. c.r.len = reader.len - 1
  <2>1. PICK a \in Nat, b \in Nat, l \in Nat : a = c.r.len /\ b = k.len /\ l = c.left
    BY <1>4, <1>6, <1>7
  <2>2. a + 1 = b + l /\ a < b
    BY <1>5, <2>1
  <2>3. a = b - 1
    BY <2>2, SMT
  <2> QED BY <1>2, <2>1, <2>3
<1> QED BY <1>3, <1>6, <1>8

(* The invariant through Reader, which takes a reference to every buffer.    *)
LEMMA NewReaderKeeps ==
    ASSUME IInv, user = "slices", UNCHANGED <<workerVars, user>>, NewReader
    PROVE  IInv'
<1>1. /\ heap \in Heaps(Values) /\ Blank \in Values /\ Sound(heap)
      /\ bs \in Bufs /\ whole \in Bufs /\ reader.data \in Bufs
      /\ \A x \in Slices : /\ heap.refs[x] = In(x, bs) + In(x, whole) + In(x, reader.data)
                           /\ In(x, bs) \in Nat /\ In(x, whole) \in Nat
                           /\ In(x, reader.data) \in Nat
  BY SliceFacts
<1>2. /\ reader.data = <<>> /\ heap' = RefAll(heap, bs) /\ bs' = bs /\ whole' = whole
      /\ reader' = [data |-> bs, len |-> TotalLen(bs), idx |-> 0] /\ bs # <<>>
  BY DEF NewReader
<1>3. \A x \in Slices : In(x, reader.data) = 0
  BY <1>2, InEmpty
<1>4. \A x \in Slices : In(x, bs) > 0 => heap.refs[x] > 0
  BY <1>1, SMT
<1>5. /\ heap' \in Heaps(Values) /\ Sound(heap')
      /\ \A x \in Slices : heap'.refs[x] = heap.refs[x] + In(x, bs)
  BY <1>1, <1>2, <1>4, RefAllCounts
<1>6. TotalLen(bs) \in Nat /\ bs[1].len \in Nat
  <2>1. 1 \in 1..Len(bs)
    BY <1>1, <1>2, InTail, SMT
  <2> QED BY <1>1, <2>1, TotalFacts, BufsFacts
<1>7. reader'.data = bs /\ reader'.len = TotalLen(bs) /\ reader'.idx = 0
  BY <1>2
<1>8. RemainExact'
  <2>1. /\ reader'.len = TotalLen(reader'.data) - reader'.idx
        /\ reader'.data # <<>> => reader'.idx <= reader'.data[1].len
    BY <1>6, <1>7, SMT
  <2> QED BY <1>2, <1>7, <2>1 DEF RemainExact, TotalLen
<1>9. \A x \in Slices : heap'.refs[x] = In(x, bs') + In(x, whole') + In(x, reader'.data)
  BY <1>1, <1>2, <1>3, <1>5, <1>7, SMT
<1>10. /\ bs' \in Bufs /\ whole' \in Bufs
       /\ reader'.data \in Bufs /\ reader'.len \in Nat /\ reader'.idx \in Nat
       /\ reader' = [data |-> reader'.data, len |-> reader'.len, idx |-> reader'.idx]
  BY <1>1, <1>2, <1>6, <1>7
<1> QED BY <1>5, <1>8, <1>9, <1>10, SliceStep

(* The invariant through Close, which gives back those that are left.        *)
LEMMA CloseReaderKeeps ==
    ASSUME IInv, user = "slices", UNCHANGED <<workerVars, user>>, CloseReader
    PROVE  IInv'
<1>1. /\ heap \in Heaps(Values) /\ Blank \in Values /\ Sound(heap)
      /\ bs \in Bufs /\ whole \in Bufs /\ reader.data \in Bufs
      /\ \A x \in Slices : /\ heap.refs[x] = In(x, bs) + In(x, whole) + In(x, reader.data)
                           /\ In(x, bs) \in Nat /\ In(x, whole) \in Nat
                           /\ In(x, reader.data) \in Nat
  BY SliceFacts
<1>2. /\ heap' = FreeAll(heap, reader.data) /\ bs' = bs /\ whole' = whole
      /\ reader' = [data |-> <<>>, len |-> 0, idx |-> reader.idx]
  BY DEF CloseReader
<1>3. \A x \in Slices : heap.refs[x] >= In(x, reader.data)
  BY <1>1, SMT
<1>4. /\ heap' \in Heaps(Values) /\ Sound(heap')
      /\ \A x \in Slices : heap'.refs[x] = heap.refs[x] - In(x, reader.data)
  BY <1>1, <1>2, <1>3, FreeAllCounts
<1>5. /\ reader'.data = <<>> /\ reader'.len = 0 /\ reader'.idx = reader.idx
      /\ reader' = [data |-> reader'.data, len |-> reader'.len, idx |-> reader'.idx]
  BY <1>2
<1>6. reader'.data \in Bufs /\ \A x \in Slices : In(x, reader'.data) = 0
  BY <1>5, InEmpty, SMT DEF Bufs
<1>7. RemainExact'
  BY <1>5 DEF RemainExact
<1>8. \A x \in Slices : heap'.refs[x] = In(x, bs') + In(x, whole') + In(x, reader'.data)
  BY <1>1, <1>2, <1>4, <1>6, SMT
<1>9. bs' \in Bufs /\ whole' \in Bufs /\ reader'.len \in Nat /\ reader'.idx \in Nat
  BY <1>1, <1>2, <1>5, SMT DEF IInv, TypeOK
<1> QED BY <1>4, <1>5, <1>6, <1>7, <1>8, <1>9, SliceStep

-----------------------------------------------------------------------------
(* The invariant and what follows from it.                                   *)

(* The invariant at the start.                                               *)
LEMMA InitIInv == Init => IInv
<1> SUFFICES ASSUME Init PROVE IInv
  OBVIOUS
<1>1. /\ heap = EmptyHeap /\ bs = <<>> /\ whole = <<>> /\ reader = NotOpened
      /\ user \in {"workers", "slices"}
      /\ stage = [p \in Workers |-> "idle"] /\ msg = [p \in Workers |-> NoMsg]
      /\ got = [p \in Workers |-> NoMsg] /\ in = [p \in Workers |-> NoSlice]
      /\ deadline = [p \in Workers |-> 0] /\ reply = [p \in Workers |-> NoMsg] /\ d = [p \in Workers |-> NoSlice]
      /\ out = [p \in Workers |-> NoSlice]
  BY DEF Init, WireInit, SlicesInit
<1>2. reader.data = <<>> /\ reader.len = 0 /\ reader.idx = 0
      /\ reader = [data |-> reader.data, len |-> reader.len, idx |-> reader.idx]
  BY <1>1 DEF NotOpened
<1>3. bs \in Bufs /\ whole \in Bufs /\ reader.data \in Bufs
  BY <1>1, <1>2, SMT DEF Bufs
<1>4. \A s \in Slices : heap.refs[s] = 0 /\ heap.cap[s] = 0 /\ heap.class[s] = 0
  BY <1>1 DEF EmptyHeap
<1>5. heap \in Heaps({Blank})
  <2>1. Len(ClassSizes) \in Nat
    BY BuffersAssumption, SMT
  <2> QED BY <1>1, <2>1, SMT DEF EmptyHeap, Heaps
<1>6. Sound(heap)
  <2> SUFFICES ASSUME NEW s \in Slices
               PROVE  /\ heap.refs[s] >= 0
                      /\ heap.cap[s] = 0 => heap.refs[s] = 0 /\ heap.class[s] = 0
                      /\ heap.cap[s] > 0 => heap.cap[s] >= ClassSizes[1]
                      /\ heap.class[s] > 0 =>
                            heap.refs[s] = 0 /\ heap.cap[s] >= ClassSizes[heap.class[s]]
    BY DEF Sound
  <2>1. PICK r \in Nat, c \in Nat, k \in Nat : r = heap.refs[s] /\ c = heap.cap[s] /\ k = heap.class[s]
    BY <1>4
  <2>2. r = 0 /\ c = 0 /\ k = 0
    BY <1>4, <2>1
  <2>3. r >= 0 /\ ~(c > 0) /\ ~(k > 0)
    BY <2>2, SMT
  <2> QED BY <2>1, <2>2, <2>3
<1>7. TypeOK
  <2>1. heap \in [cap : [Slices -> Nat], class : [Slices -> 0..Len(ClassSizes)],
                  refs : [Slices -> Nat], data : [Slices -> {heap.data[s] : s \in Slices}]]
    BY <1>5, <1>6, HeapTypes
  <2>2. WireTypeOK
    BY <1>1, <2>1 DEF WireTypeOK
  <2> QED BY <1>2, <1>3, <2>2, SMT DEF TypeOK, BuffersOK, Bufs
<1>8. \A s \in Slices : heap.refs[s] = Holders(s)
  <2>1. Lengths
    BY <1>3, BufsFacts DEF Lengths
  <2>2. Bare
    BY <1>1, <2>1 DEF Bare
  <2>3. \A s \in Slices : In(s, bs) = 0 /\ In(s, whole) = 0 /\ In(s, reader.data) = 0
    BY <1>1, <1>2, InEmpty
  <2>4. \A s \in Slices : InAll(s) = 0
    <3>1. \A s \in Slices : InAll(s) = 0 + 0 + 0
      BY <2>3 DEF InAll
    <3>2. 0 + 0 + 0 = 0
      BY SMT
    <3> QED BY <3>1, <3>2
  <2>5. \A s \in Slices : Holders(s) = InAll(s)
    BY <2>2, BareHolders DEF OnlyBuffers
  <2> QED BY <1>4, <2>4, <2>5
<1>9. /\ \A p \in Workers : WorkerOK(p)
      /\ FillersApart /\ OneUser /\ Maps(got) /\ Maps(deadline) /\ Maps(reply)
  BY <1>1 DEF WorkerOK, FillersApart, OneUser, Maps
<1>10. RemainExact
  BY <1>2 DEF RemainExact
<1> QED BY <1>2, <1>6, <1>7, <1>8, <1>9, <1>10 DEF IInv

(* The invariant through a step that changes nothing.                        *)
LEMMA StutterKeeps ==
    ASSUME IInv, UNCHANGED vars
    PROVE  IInv'
<1>1. /\ heap' = heap /\ bs' = bs /\ whole' = whole /\ reader' = reader /\ user' = user
      /\ stage' = stage /\ msg' = msg /\ got' = got /\ in' = in
      /\ deadline' = deadline /\ reply' = reply /\ d' = d /\ out' = out
  BY DEF vars, wireVars, sliceVars
<1>2. TypeOK' /\ Sound(heap)'
  BY <1>1, SMT DEF IInv, TypeOK, WireTypeOK, BuffersOK, Sound
<1>3. \A s \in Slices : (heap.refs[s] = Holders(s))'
  BY <1>1 DEF IInv, Holders, In
<1>4. \A p \in Workers : WorkerOK(p)'
  BY <1>1 DEF IInv, WorkerOK, Fresh
<1>5. FillersApart' /\ OneUser' /\ Maps(got)' /\ Maps(deadline)' /\ Maps(reply)'
  BY <1>1 DEF IInv, FillersApart, OneUser, Maps
<1>6. /\ reader' = [data |-> reader'.data, len |-> reader'.len, idx |-> reader'.idx]
      /\ RemainExact'
  <2>1. RemainExact /\ reader = [data |-> reader.data, len |-> reader.len, idx |-> reader.idx]
    BY DEF IInv
  <2> QED BY <1>1, <2>1 DEF RemainExact
<1> QED BY <1>2, <1>3, <1>4, <1>5, <1>6 DEF IInv

(* The invariant through every step of the workers, of the user of buffer    *)
(* slices and of the collector.                                              *)
LEMMA NextIInv == IInv /\ [Next]_vars => IInv'
<1> SUFFICES ASSUME IInv, [Next]_vars PROVE IInv'
  OBVIOUS
<1>1. ASSUME user = "workers", NEW p \in Workers, WorkerNext(p), UNCHANGED <<sliceVars, user>>
      PROVE  IInv'
  <2>1. ASSUME NEW r \in Requests, Receive(p, r) PROVE IInv'
    BY <1>1, <2>1, ReceiveKeeps
  <2>2. CASE Fill(p)
    BY <1>1, <2>2, FillKeeps
  <2>3. CASE FillFails(p)
    BY <1>1, <2>3, FillFailsKeeps
  <2>4. CASE Parsed(p)
    BY <1>1, <2>4, ParsedKeeps
  <2>5. CASE ServeRequest(p)
    BY <1>1, <2>5, ServeRequestKeeps
  <2>6. CASE Abandon(p)
    BY <1>1, <2>6, AbandonKeeps
  <2>7. ASSUME NEW r \in Replies, Send(p, r) PROVE IInv'
    BY <1>1, <2>7, SendKeeps
  <2>8. CASE Written(p)
    BY <1>1, <2>8, WrittenKeeps
  <2> QED BY <1>1, <2>1, <2>2, <2>3, <2>4, <2>6, <2>7, <2>8, <2>5 DEF WorkerNext
<1>2. ASSUME user = "slices", SliceNext, UNCHANGED <<workerVars, user>>
      PROVE  IInv'
  <2>1. ASSUME NEW n \in ChunkSizes, Write(n) PROVE IInv'
    BY <1>2, <2>1, WriteKeeps
  <2>2. ASSUME NEW n \in ChunkSizes, ReadAllRound(n) PROVE IInv'
    BY <1>2, <2>2, ReadAllRoundKeeps
  <2>3. ASSUME NEW i \in 1..MaxBufs, NEW n \in ReadSizes \cup {0}, Split(i, n) PROVE IInv'
    BY <1>2, <2>3, SplitKeeps
  <2>4. ASSUME NEW i \in 1..MaxBufs, NEW n \in ReadSizes, ReadBuffer(i, n) PROVE IInv'
    BY <1>2, <2>4, ReadBufferKeeps
  <2>5. CASE MaterializeToBuffer
    BY <1>2, <2>5, MaterializeKeeps
  <2>6. CASE FreeWhole
    BY <1>2, <2>6, FreeWholeKeeps
  <2>7. CASE FreeSlice
    BY <1>2, <2>7, FreeSliceKeeps
  <2>8. CASE NewReader
    BY <1>2, <2>8, NewReaderKeeps
  <2>9. ASSUME NEW n \in ReadSizes, Read(n) PROVE IInv'
    BY <1>2, <2>9, ReadBecomes, BecomesKeeps
  <2>10. CASE ReadByte
    BY <1>2, <2>10, ReadByteBecomes, BecomesKeeps
  <2>11. CASE CloseReader
    BY <1>2, <2>11, CloseReaderKeeps
  <2> QED BY <1>2, <2>1, <2>2, <2>3, <2>4, <2>5, <2>6, <2>7, <2>8, <2>9, <2>10, <2>11 DEF SliceNext
<1>3. ASSUME NEW s \in Slices, Collect(s), UNCHANGED <<sliceVars, user>>
      PROVE  IInv'
  BY <1>3, CollectKeeps
<1>4. CASE UNCHANGED vars
  BY <1>4, StutterKeeps
<1> QED BY <1>1, <1>2, <1>3, <1>4 DEF Next

(* The inductive invariant of the buffer pool and its users: mem/buffer.go,  *)
(* mem/buffer_pool.go, mem/buffer_slice.go, Decode, Encode and sendResponse. *)
THEOREM Inductive == Spec => []IInv
BY InitIInv, NextIInv, PTL DEF Spec

(* Types, which for buffers say that no length is negative: Read, split and  *)
(* freeFirstBufferIfEmpty never cut more than there is.                      *)
THEOREM TypesKept == Spec => []TypeOK
<1>1. IInv => TypeOK
  BY DEF IInv
<1> QED BY <1>1, Inductive, PTL

(* For any number of workers, slices and classes: the counter of a slice is  *)
(* the number of buffers that still have to be freed, and nobody has a       *)
(* buffer over a slice of the pool (Ref, Free, Put and Get of mem).          *)
THEOREM ReferencesCounted == Spec => []HoldersCounted
<1>1. IInv => HoldersCounted
  <2> SUFFICES ASSUME IInv, NEW s \in Slices
               PROVE  /\ heap.refs[s] = Holders(s)
                      /\ heap.class[s] > 0 =>
                            Holders(s) = 0 /\ ~\E p \in Workers : stage[p] = "fill" /\ in[p] = s
    BY DEF HoldersCounted
  <2>1. heap.refs[s] = Holders(s) /\ Sound(heap) /\ \A p \in Workers : WorkerOK(p)
    BY DEF IInv
  <2>2. heap.class[s] > 0 => heap.refs[s] = 0
    BY <2>1 DEF Sound
  <2>3. ASSUME heap.class[s] > 0, NEW p \in Workers, stage[p] = "fill", in[p] = s PROVE FALSE
    BY <2>1, <2>3, SMT DEF WorkerOK, Fresh
  <2> QED BY <2>1, <2>2, <2>3
<1> QED BY <1>1, Inductive, PTL

(* Get never gets a slice from the pool that is shorter than what it cuts    *)
(* from it: Put finds a class for a slice that it fits.                      *)
THEOREM SlicesFit == Spec => []GetFits
<1>1. IInv => GetFits
  BY DEF IInv, Sound, GetFits
<1> QED BY <1>1, Inductive, PTL

(* The bytes sendResponse writes are those Encode made of the response,      *)
(* whatever the other goroutines do with the pool.                           *)
THEOREM ResponsesIntact == Spec => []WrittenIntact
<1>1. IInv => WrittenIntact
  BY DEF IInv, WorkerOK, WrittenIntact
<1> QED BY <1>1, Inductive, PTL

(* The length of a Reader is that of the bytes it has left, and its position *)
(* is in its first buffer, through Read, ReadByte, Close and the early       *)
(* Frees.                                                                    *)
THEOREM ReaderExact == Spec => []RemainExact
<1>1. IInv => RemainExact
  BY DEF IInv
<1> QED BY <1>1, Inductive, PTL

\* Read takes as many bytes as it is asked for or all there are, ReadByte one.
ReadTakes ==
    /\ \A n \in ReadSizes : Read(n) =>
          reader'.len = IF n >= reader.len THEN 0 ELSE reader.len - n
    /\ ReadByte => reader'.len = reader.len - 1

(* The action property ReadTakes: the loops of Read and ReadByte over the    *)
(* buffers.                                                                  *)
THEOREM ReadsExact == Spec => [][ReadTakes]_vars
<1>1. IInv => ReadTakes
  <2> SUFFICES ASSUME IInv PROVE ReadTakes
    OBVIOUS
  <2>1. reader.len > 0 => user = "slices"
    <3>1. user \in {"workers", "slices"} /\ (user = "workers" => reader = NotOpened)
      BY DEF IInv, OneUser
    <3> QED BY <3>1, SMT DEF NotOpened
  <2>2. ASSUME NEW r, Becomes(r) PROVE reader'.len = r.len
    BY <2>2 DEF Becomes
  <2>3. ASSUME NEW n \in ReadSizes, Read(n)
        PROVE  reader'.len = IF n >= reader.len THEN 0 ELSE reader.len - n
    <3>1. user = "slices"
      BY <2>1, <2>3 DEF Read
    <3> QED BY <2>2, <2>3, <3>1, ReadBecomes
  <2>4. ASSUME ReadByte PROVE reader'.len = reader.len - 1
    <3>1. user = "slices"
      BY <2>1, <2>4 DEF ReadByte
    <3> QED BY <2>2, <2>4, <3>1, ReadByteBecomes
  <2> QED BY <2>3, <2>4 DEF ReadTakes
<1> QED BY <1>1, Inductive, PTL

(* What Decode makes of a request.                                           *)
LEMMA RequestDecoded ==
    ASSUME NEW r \in Requests, NEW g, g = DecodeData(Sent(r))
    PROVE  /\ g # Malformed => g.timeout = IF r.timeout > 0 THEN EncodeTimeout(r.timeout) ELSE NoTimeout
           /\ FewValues(r) => g # Malformed /\ g.md = r.md /\ g.payload = r.payload
<1> DEFINE t == IF r.timeout > 0 THEN EncodeTimeout(r.timeout) ELSE NoTimeout
           m == PrepareMessage(r.names, r.md, t, r.payload)
           w == Encode(m)
           meta == DecodeMetadata(EncodeMetadata(r.md))
<1>1. r.md \in [Keys -> Seq(STRING)] /\ r.payload \in PlainPayload
  BY WireAssumption
<1>2. m.payload = r.payload /\ m.md = r.md /\ m.timeout = t
  BY DEF PrepareMessage
<1>3. w = Sent(r)
  BY DEF Sent
<1> HIDE DEF t, m
<1>4. w.meta = EncodeMetadata(r.md) /\ w.timeout = t
  BY <1>2 DEF Encode
<1>5. Unpacked(w) = r.payload /\ r.payload # Malformed
  BY <1>1, <1>2, PayloadRoundTrip
<1> HIDE DEF w
<1> DEFINE x == [names |-> w.names, md |-> meta.md, timeout |-> w.timeout,
                 gzip |-> w.gzip, payload |-> Unpacked(w)]
<1>6. g = IF meta.expects # "key" \/ Unpacked(w) = Malformed THEN Malformed ELSE x
  BY <1>3, <1>4 DEF DecodeData, Unpacked
<1>7. x.timeout = t /\ x.md = meta.md /\ x.payload = r.payload /\ x # Malformed
  <2>1. x.timeout = t /\ x.md = meta.md /\ x.payload = r.payload
    BY <1>4, <1>5
  <2>2. DOMAIN x = {"names", "md", "timeout", "gzip", "payload"}
    OBVIOUS
  <2>3. DOMAIN Malformed = {"malformed"}
    BY DEF Malformed
  <2> HIDE DEF x
  <2>4. x # Malformed
    BY <2>2, <2>3
  <2> QED BY <2>1, <2>4
<1> HIDE DEF x, meta
<1>8. g # Malformed => g.timeout = t
  BY <1>6, <1>7
<1>9. ASSUME FewValues(r)
      PROVE  g # Malformed /\ g.md = r.md /\ g.payload = r.payload
  <2>1. \A k \in Keys : Len(r.md[k]) < ByteMod
    BY <1>9 DEF FewValues
  <2>2. meta.expects = "key" /\ meta.md = r.md
    BY <1>1, <2>1, MetadataRoundTrip DEF meta
  <2> QED BY <1>5, <1>6, <1>7, <2>2
<1> QED BY <1>8, <1>9 DEF t

-----------------------------------------------------------------------------
(* What the workers get.                                                     *)

(* Requests as Decode gives them to the workers: the payload is the one the  *)
(* peer sent whatever other goroutines do with the slice it came in, the     *)
(* metadata while nobody else has that slice (message.go:322, 387-427).      *)
THEOREM RequestsIntact == Spec => []DecodedIntact
<1>1. IInv => DecodedIntact
  <2> SUFFICES ASSUME IInv, NEW p \in Workers, got[p] # NoMsg, FewValues(msg[p])
               PROVE  /\ got[p] # Malformed
                      /\ got[p].payload = msg[p].payload
                      /\ ~Overwritten(p) => got[p].md = msg[p].md
    BY DEF DecodedIntact
  <2>1. msg[p] \in Requests /\ got[p] = DecodeData(Sent(msg[p]))
    BY DEF IInv, WorkerOK
  <2> QED BY <2>1, RequestDecoded
<1> QED BY <1>1, Inductive, PTL

(* The deadline a request is served with is not before that of the client    *)
(* and less than one unit of the header after it, and there is one only if   *)
(* the client has one, unless the header was overwritten in the pooled slice *)
(* it is a string over: the timeout goes through EncodeTimeout, the          *)
(* metadata, Decode, and DecodeTimeout in serveRequest.                      *)
THEOREM DeadlinesKept == Spec => []TimeoutKept
<1>1. IInv => TimeoutKept
  <2> SUFFICES ASSUME IInv, NEW p \in Workers, stage[p] = "use",
                      in[p] = NoSlice \/ deadline[p] # Garbage
               PROVE  IF msg[p].timeout = 0 THEN deadline[p] = 0
                                            ELSE Within(msg[p].timeout, deadline[p])
    BY DEF TimeoutKept
  <2> DEFINE t == msg[p].timeout
             e == got[p].timeout
  <2>1. /\ msg[p] \in Requests /\ got[p] = DecodeData(Sent(msg[p])) /\ got[p] # Malformed
        /\ deadline[p] = DeadlineFor(e)
    BY DEF IInv, WorkerOK
  <2>2. e = IF t > 0 THEN EncodeTimeout(t) ELSE NoTimeout
    BY <2>1, RequestDecoded
  <2>3. t \in 0..MaxInt64 /\ MaxInt64 \in Nat
    BY <2>1, WireAssumption, TimeoutAssumption
  <2> HIDE DEF t, e
  <2>4. CASE t = 0
    <3>1. e = NoTimeout
      BY <2>2, <2>4, SMT
    <3> QED BY <2>1, <2>4, <3>1 DEF DeadlineFor, t
  <2>5. CASE t # 0
    <3>1. t \in 1..MaxInt64 /\ t > 0
      BY <2>3, <2>5, SMT
    <3>2. e = EncodeTimeout(t)
      BY <2>2, <3>1
    <3>3. Within(t, DecodeTimeout(e))
      BY <3>1, <3>2, TimeoutRoundTrip
    <3>4. DecodeTimeout(e) > 0
      <4>1. DecodeTimeout(e) \in t..MaxInt64
        BY <3>3 DEF Within
      <4> QED BY <2>3, <3>1, <4>1, SMT
    <3>5. e # NoTimeout
      <4>1. e.unit = UnitFor(t) /\ UnitFor(t) \in 1..6
        BY <3>1, <3>2, UnitForFits, SMT DEF EncodeTimeout
      <4> QED BY <4>1, SMT DEF NoTimeout
    <3>6. deadline[p] = DecodeTimeout(e)
      BY <2>1, <3>4, <3>5 DEF DeadlineFor
    <3> QED BY <2>5, <3>3, <3>6 DEF t
  <2> QED BY <2>4, <2>5
<1> QED BY <1>1, Inductive, PTL
=============================================================================

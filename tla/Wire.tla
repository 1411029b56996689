-------------------------------- MODULE Wire --------------------------------
(* Goroutines of one program that decode requests and encode responses over  *)
(* the buffer pool they share: Decode and Encode of protocol/message.go,     *)
(* Marshal of codec/codec.go, and sendResponse of server.go, with the peer's *)
(* prepareMessage of call.go as the source of requests.                      *)
(*                                                                           *)
(* A worker p goes through                                                   *)
(*   "idle"   nothing held                                                   *)
(*   "fill"   Decode has a pooled slice and reads the data into it           *)
(*   "parse"  the data is read, decodeMessageData runs                       *)
(*   "decoded" the request is decoded and its buffer is back in the pool,    *)
(*            but its names and metadata are strings over that buffer, in[p] *)
(*   "use"    serveRequest has set the deadline, and the handler runs        *)
(*   "write"  the response is encoded and being written to the connection    *)
EXTENDS Buffers, Message, Timeout

CONSTANTS
    Workers,
    NoMsg,
    Requests,    \* [names, md, payload, timeout]: calls of the peer, 0 for no deadline
    Replies      \* [md, payload]: what handlers answer

ASSUME WireAssumption ==
    /\ IsFiniteSet(Workers)
    /\ \A r \in Requests : /\ r.md \in [Keys -> Seq(STRING)]
                            /\ r.timeout \in 0..MaxInt64
                            /\ r.payload \in PlainPayload
    /\ \A r \in Replies : r.md \in [Keys -> Seq(STRING)] /\ r.payload \in PlainPayload

VARIABLES stage, msg, got, in, deadline, reply, d, out

wireVars == <<heap, stage, msg, got, in, deadline, reply, d, out>>
workerVars == <<stage, msg, got, in, deadline, reply, d, out>>

WireTypeOK ==
    /\ heap \in [cap : [Slices -> Nat], class : [Slices -> 0..Len(ClassSizes)],
                 refs : [Slices -> Nat], data : [Slices -> {heap.data[s] : s \in Slices}]]
    /\ stage \in [Workers -> {"idle", "fill", "parse", "decoded", "use", "write"}]
    /\ msg \in [Workers -> Requests \cup {NoMsg}]
    /\ in \in [Workers -> Slices \cup {NoSlice}]
    /\ d \in [Workers -> Slices \cup {NoSlice}]
    /\ out \in [Workers -> Slices \cup {NoSlice}]

WireInit ==
    /\ heap = EmptyHeap
    /\ stage = [p \in Workers |-> "idle"]
    /\ msg = [p \in Workers |-> NoMsg]
    /\ got = [p \in Workers |-> NoMsg]
    /\ in = [p \in Workers |-> NoSlice]
    /\ deadline = [p \in Workers |-> 0]
    /\ reply = [p \in Workers |-> NoMsg]
    /\ d = [p \in Workers |-> NoSlice]
    /\ out = [p \in Workers |-> NoSlice]

\* h with the contents of s forgotten if p was the last that could read them.
Settled(h, s, p) ==
    IF s = NoSlice \/ h.refs[s] > 0 \/ \E q \in Workers \ {p} : in[q] = s THEN h
    ELSE [h EXCEPT !.data[s] = Blank]

\* A deadline nobody asked for, or none where one was asked for.
Garbage == -1

\* The bytes the peer sends for a request.
Sent(r) ==
    LET timeout == IF r.timeout > 0 THEN EncodeTimeout(r.timeout) ELSE NoTimeout
    IN  Encode(PrepareMessage(r.names, r.md, timeout, r.payload))

(* Decode reads the header and the length.  A message that is too long ends  *)
(* the connection; a short one is read into a slice of its own; for a long   *)
(* one a slice comes from the pool.                                          *)
Receive(p, r) ==
    /\ stage[p] = "idle"
    /\ ~Refused(Sent(r))
    /\ msg' = [msg EXCEPT ![p] = r]
    /\ IF Sent(r).dataL <= PoolingThreshold
       THEN /\ got' = [got EXCEPT ![p] = DecodeData(Sent(r))]
            /\ stage' = [stage EXCEPT ![p] = "decoded"]
            /\ UNCHANGED <<heap, in>>
       ELSE \E g \in Get(heap, Sent(r).dataL) :
                /\ heap' = g.heap
                /\ in' = [in EXCEPT ![p] = g.slice]
                /\ stage' = [stage EXCEPT ![p] = "fill"]
                /\ UNCHANGED got
    /\ UNCHANGED <<deadline, reply, d, out>>

Fill(p) ==
    /\ stage[p] = "fill"
    /\ heap' = NewBuffer([heap EXCEPT !.data[in[p]] = <<"wire", Sent(msg[p])>>], in[p])
    /\ stage' = [stage EXCEPT ![p] = "parse"]
    /\ UNCHANGED <<msg, got, in, deadline, reply, d, out>>

\* The connection fails before the data or in the middle of it.
FillFails(p) ==
    /\ stage[p] = "fill"
    /\ \E bytes \in {heap.data[in[p]], Blank} :
          heap' = Put([heap EXCEPT !.data[in[p]] = bytes], in[p])
    /\ stage' = [stage EXCEPT ![p] = "idle"]
    /\ msg' = [msg EXCEPT ![p] = NoMsg]
    /\ in' = [in EXCEPT ![p] = NoSlice]
    /\ UNCHANGED <<got, deadline, reply, d, out>>

(* decodeMessageData and the deferred Free: the payload is copied, the names *)
(* and the metadata still refer to in[p], unless it was too large for the    *)
(* pool and nobody else will get it.                                         *)
Parsed(p) ==
    /\ stage[p] = "parse"
    /\ got' = [got EXCEPT ![p] = DecodeData(heap.data[in[p]][2])]
    /\ heap' = Free(heap, in[p])
    /\ in' = [in EXCEPT ![p] = IF heap.cap[@] > MaxSize THEN NoSlice ELSE @]
    /\ stage' = [stage EXCEPT ![p] = "decoded"]
    /\ UNCHANGED <<msg, deadline, reply, d, out>>

(* Someone else has the slice that the strings of p's request refer to, or   *)
(* has had it, and has written other bytes there or is about to.             *)
Overwritten(p) ==
    /\ in[p] # NoSlice
    /\ \/ heap.data[in[p]] # <<"wire", Sent(msg[p])>>
       \/ \E q \in Workers \ {p} : stage[q] = "fill" /\ in[q] = in[p]

(* The time serveRequest gives a request with this header, 0 for no limit.   *)
DeadlineFor(timeout) ==
    IF timeout # NoTimeout /\ DecodeTimeout(timeout) > 0 THEN DecodeTimeout(timeout) ELSE 0

(* serveRequest, in a goroutine of its own, looks for the header in the      *)
(* metadata as it is now.                                                    *)
ServeRequest(p) ==
    /\ stage[p] = "decoded"
    /\ got[p] # Malformed
    /\ deadline' = [deadline EXCEPT ![p] = IF Overwritten(p) THEN Garbage
                                           ELSE DeadlineFor(got[p].timeout)]
    /\ stage' = [stage EXCEPT ![p] = "use"]
    /\ UNCHANGED <<heap, msg, got, in, reply, d, out>>

(* A request that cannot be decoded ends its connection.                     *)
Abandon(p) ==
    /\ stage[p] = "decoded"
    /\ got[p] = Malformed
    /\ stage' = [stage EXCEPT ![p] = "idle"]
    /\ msg' = [msg EXCEPT ![p] = NoMsg]
    /\ got' = [got EXCEPT ![p] = NoMsg]
    /\ in' = [in EXCEPT ![p] = NoSlice]
    /\ heap' = Settled(heap, in[p], p)
    /\ UNCHANGED <<deadline, reply, d, out>>

(* Marshal of the reply: into a pooled slice if it is long.  An error gives  *)
(* the slice back, with what was written into it, and leaves no payload.     *)
MarshalFails(h, payload, p) ==
    IF payload.size <= PoolingThreshold THEN {h}
    ELSE {Settled(Put([g.heap EXCEPT !.data[g.slice] = <<"reply">>], g.slice), g.slice, p) :
             g \in Get(h, payload.size)}
Marshal(h, payload, p) ==
    {[slice |-> a.slice, heap |-> a.heap, payload |-> payload] :
        a \in Alloc(h, payload.size, <<"reply">>)}
    \cup {[slice |-> NoSlice, heap |-> e, payload |-> Emptied(payload)] :
            e \in MarshalFails(h, payload, p)}

\* A mutant of Send: the slice of the response is freed before it is written.
SendFreed(p, r) ==
    /\ stage[p] = "use"
    /\ \E m \in Marshal(Settled(heap, in[p], p), r.payload, p) :
       LET w == Encode(Respond(got[p], r.md, m.payload))
       IN  /\ reply' = [reply EXCEPT ![p] = Respond(got[p], r.md, m.payload)]
           /\ \E g \in Get(m.heap, TotalL(w)) :
                 /\ heap' = Put([g.heap EXCEPT !.data[g.slice] = <<"wire", w>>], g.slice)
                 /\ d' = [d EXCEPT ![p] = m.slice]
                 /\ out' = [out EXCEPT ![p] = g.slice]
    /\ stage' = [stage EXCEPT ![p] = "write"]
    /\ msg' = [msg EXCEPT ![p] = NoMsg]
    /\ got' = [got EXCEPT ![p] = NoMsg]
    /\ in' = [in EXCEPT ![p] = NoSlice]
    /\ deadline' = [deadline EXCEPT ![p] = 0]

(* sendResponse up to the write: the reply is marshalled, copied out of its  *)
(* buffer, and the response encoded into a slice of the pool.  The metadata  *)
(* is that of the handler or of handleError.                                 *)
Send(p, r) ==
    /\ stage[p] = "use"
    /\ \E m \in Marshal(Settled(heap, in[p], p), r.payload, p) :
       LET w == Encode(Respond(got[p], r.md, m.payload))
       IN  /\ reply' = [reply EXCEPT ![p] = Respond(got[p], r.md, m.payload)]
           /\ \E g \in Get(m.heap, TotalL(w)) :
                 /\ heap' = NewBuffer([g.heap EXCEPT !.data[g.slice] = <<"wire", w>>], g.slice)
                 /\ d' = [d EXCEPT ![p] = m.slice]
                 /\ out' = [out EXCEPT ![p] = g.slice]
    /\ stage' = [stage EXCEPT ![p] = "write"]
    /\ msg' = [msg EXCEPT ![p] = NoMsg]
    /\ got' = [got EXCEPT ![p] = NoMsg]
    /\ in' = [in EXCEPT ![p] = NoSlice]
    /\ deadline' = [deadline EXCEPT ![p] = 0]

\* The write, well or not, and the two Frees after it.
Written(p) ==
    /\ stage[p] = "write"
    /\ heap' = Settled(Settled(Free(Free(heap, out[p]), d[p]), out[p], p), d[p], p)
    /\ stage' = [stage EXCEPT ![p] = "idle"]
    /\ reply' = [reply EXCEPT ![p] = NoMsg]
    /\ d' = [d EXCEPT ![p] = NoSlice]
    /\ out' = [out EXCEPT ![p] = NoSlice]
    /\ UNCHANGED <<msg, got, in, deadline>>

\* The collector empties pools; a slice some string refers to stays in memory.
Collect(s) ==
    /\ heap.class[s] > 0
    /\ \A p \in Workers : in[p] # s
    /\ heap' = Drop(heap, s)
    /\ UNCHANGED workerVars

WorkerNext(p) ==
    \/ \E r \in Requests : Receive(p, r)
    \/ Fill(p)
    \/ FillFails(p)
    \/ Parsed(p)
    \/ ServeRequest(p)
    \/ Abandon(p)
    \/ \E r \in Replies : Send(p, r)
    \/ Written(p)
=============================================================================

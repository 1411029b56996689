------------------------------- MODULE Message -------------------------------
(* protocol/message.go: what Encode puts on the wire and what Decode makes   *)
(* of it.                                                                    *)
(*                                                                           *)
(* Bytes are abstracted to what Encode and Decode tell apart.  A payload is  *)
(* a record [body, size, packed, zipped]: what it says, its length, its      *)
(* length once compressed (gzip is external and may not make it shorter),    *)
(* and whether these bytes are the compressed ones.  Metadata is a sequence  *)
(* of tokens, a "text" for a length with the bytes it announces and a        *)
(* "count" for the one byte that holds the number of values of a key.        *)
(* Names, metadata and length fields together count as Overhead.             *)
(* CompressThreshold is also the 1024 of sendResponse and prepareMessage.    *)
EXTENDS Integers, Sequences, FiniteSets, Functions

CONSTANTS
    Keys,                \* keys of metadata
    CompressThreshold,   \* the payload size from which Encode compresses
    ByteMod,             \* 256: what a byte can hold
    MaxLength            \* maxReceiveMessageSize, 0 for none

ASSUME MessageAssumption ==
    /\ Keys \subseteq STRING /\ IsFiniteSet(Keys)
    /\ CompressThreshold \in Nat /\ ByteMod \in Nat \ {0} /\ MaxLength \in Nat

NoTimeout == [value |-> 0, unit |-> 0]
Malformed == [malformed |-> TRUE]
Overhead == 1

Plain(body, size, packed) ==
    [body |-> body, size |-> size, packed |-> packed, zipped |-> FALSE]
\* Payloads before Encode; gzip's output has a header, even for no data.
PlainPayload == [body : STRING, size : Nat, packed : Nat \ {0}, zipped : {FALSE}]
\* No bytes, in the place of those of p.
Emptied(p) == Plain(p.body, 0, p.packed)
PayloadL(p) == IF p.zipped THEN p.packed ELSE p.size

-----------------------------------------------------------------------------
(* Compression.  Gzip.Zip gives the data itself back if it is short, if gzip *)
(* fails and if gzip does not make it shorter.                               *)
GzipZip(p) ==
    IF p.size < CompressThreshold \/ p.packed >= p.size THEN p
    ELSE [p EXCEPT !.zipped = TRUE]

\* gzip's reader refuses bytes that are not compressed.
GzipUnzip(p) == IF p.zipped THEN [p EXCEPT !.zipped = FALSE] ELSE Malformed

\* A mutant of Compresses: the flag says what was asked for, not what was done.
CompressesAsAsked(m) == m.gzip /\ m.payload.size >= CompressThreshold

(* Whether Encode leaves the compression flag of the header set.             *)
Compresses(m) ==
    /\ m.gzip
    /\ m.payload.size >= CompressThreshold
    /\ PayloadL(GzipZip(m.payload)) < m.payload.size

-----------------------------------------------------------------------------
(* Metadata: each key with the number of its values, in one byte, and them.  *)
Text(x) == [kind |-> "text", text |-> x]
Count(n) == [kind |-> "count", n |-> n]

EncodeKey(k, vs) ==
    <<Text(k), Count(Len(vs) % ByteMod)>> \o [i \in 1..Len(vs) |-> Text(vs[i])]

\* The order in which Encode happens to range over the map.
KeyOrder == CHOOSE o \in Bijection(1..Cardinality(Keys), Keys) : TRUE

EncodeMetadata(md) ==
    LET upTo[j \in 0..Cardinality(Keys)] ==
            IF j = 0 THEN <<>>
            ELSE LET k == KeyOrder[j]
                 IN  upTo[j - 1] \o (IF md[k] = <<>> THEN <<>> ELSE EncodeKey(k, md[k]))
    IN  upTo[Cardinality(Keys)]

(* The decoder expects a key, its count, or one of the values still due.     *)
(* Bytes that are taken for something else than what they were written as    *)
(* end it with "error", which stands for an error and for garbage alike.     *)
Nothing == [expects |-> "key", key |-> "", due |-> 0, md |-> [k \in Keys |-> <<>>]]

Scan(st, t) ==
    CASE st.expects = "key" /\ t.kind = "text" /\ t.text \in Keys ->
            [st EXCEPT !.expects = "count", !.key = t.text]
      [] st.expects = "count" /\ t.kind = "count" ->
            [st EXCEPT !.expects = IF t.n = 0 THEN "key" ELSE "value", !.due = t.n]
      [] st.expects = "value" /\ t.kind = "text" ->
            [st EXCEPT !.expects = IF st.due = 1 THEN "key" ELSE "value",
                       !.due = @ - 1, !.md[st.key] = Append(@, t.text)]
      [] OTHER -> [st EXCEPT !.expects = "error"]

DecodeMetadata(ts) ==
    LET after[i \in 0..Len(ts)] == IF i = 0 THEN Nothing ELSE Scan(after[i - 1], ts[i])
    IN  after[Len(ts)]

-----------------------------------------------------------------------------
(* What is on the wire after the lengths: names, metadata and payload.       *)
Encode(m) ==
    LET payload == IF Compresses(m) THEN GzipZip(m.payload) ELSE m.payload
    IN  [gzip    |-> Compresses(m),
         names   |-> m.names,
         meta    |-> EncodeMetadata(m.md),
         timeout |-> m.timeout,
         payload |-> payload,
         dataL   |-> Overhead + PayloadL(payload)]

\* The buffer of Encode also holds the header and the length.
TotalL(w) == w.dataL + Overhead

Refused(w) == MaxLength > 0 /\ MaxLength < w.dataL

(* decodeMessageData, as it reads the bytes: the flag of the header, not the *)
(* bytes, says whether the payload is decompressed.  The payload is copied;  *)
(* names, keys and values, of which the timeout is one, are strings over w.  *)
DecodeData(w) ==
    LET meta    == DecodeMetadata(w.meta)
        payload == IF w.gzip /\ PayloadL(w.payload) > 0 THEN GzipUnzip(w.payload)
                                                        ELSE w.payload
    IN  IF meta.expects # "key" \/ payload = Malformed THEN Malformed
        ELSE [names |-> w.names, md |-> meta.md, timeout |-> w.timeout,
              gzip |-> w.gzip, payload |-> payload]

(* The request of a call, and the response to a decoded request: a clone of  *)
(* it that is compressed if the request came compressed.  The timeout is the *)
(* value of one more key of the metadata.  No client looks at the names in a *)
(* response.                                                                 *)
PrepareMessage(names, md, timeout, payload) ==
    [names |-> names, md |-> md, timeout |-> timeout, payload |-> payload,
     gzip |-> payload.size > CompressThreshold]

Respond(req, md, payload) ==
    [names |-> "none", md |-> md, timeout |-> NoTimeout, payload |-> payload,
     gzip |-> payload.size > CompressThreshold /\ req.gzip]
=============================================================================

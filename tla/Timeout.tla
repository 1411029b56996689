------------------------------- MODULE Timeout -------------------------------
(* protocol/timeout.go: the remaining time of a call as the client writes    *)
(* it into the "zrpc-timeout" header and as the server reads it back.        *)
(*                                                                           *)
(* The header is a number of at most 8 digits and the letter of a unit; here *)
(* it is the record [value, unit], and "at most 8 digits" is value at most   *)
(* MaxValue.  Durations are int64 nanoseconds, so the product in             *)
(* DecodeTimeout wraps.                                                      *)
EXTENDS Integers

CONSTANTS
    Unit,       \* Unit[1..6]: nanosecond, microsecond, ..., minute, hour
    MaxValue,   \* maxTimeoutValue
    MaxInt64    \* math.MaxInt64

(* What the numbers of the code satisfy: the units grow, the largest number  *)
(* of minutes still fits in an int64, and the hours in an int64 have at most *)
(* 8 digits.                                                                 *)
ASSUME TimeoutAssumption ==
    /\ Unit \in [1..6 -> Nat \ {0}]
    /\ Unit[1] = 1
    /\ \A u \in 1..5 : Unit[u] <= Unit[u + 1]
    /\ MaxValue \in Nat
    /\ MaxInt64 \in Nat
    /\ MaxValue * Unit[5] <= MaxInt64
    /\ MaxInt64 \div Unit[6] < MaxValue

Hour == 6

\* div truncated: what a plain division would do.
DivDown(d, r) == d \div r

\* Integer division that rounds up.
Div(d, r) == IF d % r > 0 THEN d \div r + 1 ELSE d \div r

(* The first unit in which the value has few enough digits, or the hour.     *)
Fits(t, u) == u = Hour \/ Div(t, Unit[u]) <= MaxValue
UnitFor(t) == CHOOSE u \in 1..6 : Fits(t, u) /\ \A v \in 1..(u - 1) : ~Fits(t, v)

EncodeTimeout(t) ==
    IF t <= 0 THEN [value |-> 0, unit |-> 1]
              ELSE [value |-> Div(t, Unit[UnitFor(t)]), unit |-> UnitFor(t)]

\* An int64 keeps the low 64 bits of a product.
Int64(x) == ((x + MaxInt64 + 1) % (2 * (MaxInt64 + 1))) - (MaxInt64 + 1)

TooLong == -1

DecodeTimeout(h) ==
    IF h.value > MaxValue THEN TooLong
    ELSE IF h.unit = Hour /\ h.value > MaxInt64 \div Unit[Hour] THEN MaxInt64
    ELSE Int64(Unit[h.unit] * h.value)

(* d is a time the server may give a call whose client has t left: not less, *)
(* and less than one unit of the header more.                                *)
Within(t, d) ==
    /\ d \in t..MaxInt64
    /\ d < t + Unit[UnitFor(t)]
=============================================================================

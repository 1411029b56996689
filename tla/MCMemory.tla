------------------------------ MODULE MCMemory ------------------------------
(* Memory for TLC, with the numbers of the code scaled down.                 *)
EXTENDS Memory, TLC

(* Units that are not multiples of each other in the ratio of the digits, so *)
(* that every unit is used; the hours of the largest duration round up past  *)
(* the limit that DecodeTimeout clamps.                                      *)
MCUnit == <<1, 3, 12, 48, 96, 192>>
MCMaxInt64 == 1700

\* 1 KB is 2 and 4 MB is 4.
MCClassSizes == <<1, 2, 4>>

MCKeys == {"agent", "user"}
NoMD == [k \in MCKeys |-> <<>>]
SomeMD == [NoMD EXCEPT !["agent"] = <<"v">>, !["user"] = <<"u", "v">>]
TooManyMD == [NoMD EXCEPT !["user"] = <<"u", "v", "v">>]

Request(md, size, packed, timeout) ==
    [names |-> "s", md |-> md, timeout |-> timeout, payload |-> Plain("q", size, packed)]

(* Both sides of every limit: much, a little and not shorter when            *)
(* compressed, at the threshold, past the largest class, refused, empty; the *)
(* ends of the ranges of the units, and no deadline.                         *)
MCRequests ==
    {Request(SomeMD, 3, 1, 10), Request(NoMD, 3, 2, 28), Request(NoMD, 3, 3, 109),
     Request(NoMD, 2, 1, 433), Request(TooManyMD, 3, 2, 1), Request(NoMD, 5, 4, 9),
     Request(NoMD, 9, 8, 1), Request(NoMD, 0, 1, MCMaxInt64), Request(NoMD, 1, 1, 0)}

MCReplies ==
    {[md |-> SomeMD, payload |-> Plain("e", 0, 1)],
     [md |-> NoMD, payload |-> Plain("r", 3, 1)],
     [md |-> NoMD, payload |-> Plain("r", 5, 6)]}

\* Slices and workers are interchangeable.
Symmetry == Permutations(Slices) \cup Permutations(Workers)
=============================================================================

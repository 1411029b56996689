---------------------------- MODULE MCConnPool ----------------------------
(* Instances of ConnPool for TLC.                                           *)
EXTENDS ConnPool, TLC

(* Callers and connections are interchangeable: nothing orders them.        *)
Symmetry == Permutations(Callers) \cup Permutations(Conns)

=============================================================================

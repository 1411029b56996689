----------------------------- MODULE MCRpcCall -----------------------------
(* RpcCall for TLC. *)
EXTENDS RpcCall, TLC

\* Callers that differ in Timed are not interchangeable: only connections are.
Symmetry == Permutations(Conns)
=============================================================================

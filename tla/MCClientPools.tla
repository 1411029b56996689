--------------------------- MODULE MCClientPools ----------------------------
(* ClientPools with model values for goroutines and pools.                 *)
EXTENDS ClientPools
=============================================================================

------------------------------ MODULE MCServer ------------------------------
(* Server with model values for connections and requests.  Connections are *)
(* interchangeable, and so are the requests without a timeout.             *)
EXTENDS Server, TLC

Symmetry == Permutations(Conns) \cup Permutations(Reqs \ TimedReqs)
=============================================================================

--------------------------- MODULE MCEtcdRegistry ---------------------------
(* EtcdRegistry with model values for leases and goroutines.               *)
EXTENDS EtcdRegistry
=============================================================================

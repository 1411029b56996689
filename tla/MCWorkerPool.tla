---------------------------- MODULE MCWorkerPool ----------------------------
(* WorkerPool with small pools and model values for requesters.            *)
EXTENDS WorkerPool
=============================================================================

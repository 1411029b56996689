---------------------------- MODULE MCTcpClient -----------------------------
(* TcpClient with model values for connections and goroutines.             *)
EXTENDS TcpClient
=============================================================================

-------------------------- MODULE MCTcpConnection --------------------------
(* Constant values for the run of TcpConnection alone. *)
EXTENDS TcpConnection

CONSTANTS t1, loop
=============================================================================

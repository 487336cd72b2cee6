---------------------------- MODULE MCEventLoop ----------------------------
(* Constant values for the run of EventLoop alone. *)
EXTENDS EventLoop

CONSTANT t1
=============================================================================

----------------------------- MODULE Condition -----------------------------
(***************************************************************************)
(* The condition variables of muduo/base (Condition.h).  A critical        *)
(* section is one step of the models that use it, up to a wait: a thread   *)
(* that waits is in a set of waiters until it is woken, and then locks the *)
(* mutex again and goes on after the wait in a step of its own.            *)
(***************************************************************************)

(* notify: whom it may wake, one of those who wait; nobody if nobody does. *)
Notify(waiters) == IF waiters = {} THEN {{}} ELSE {{w} : w \in waiters}

(* notifyAll *)
NotifyAll(waiters) == {waiters}
=============================================================================

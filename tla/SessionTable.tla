---------------------------- MODULE SessionTable ----------------------------
(***************************************************************************)
(* What the cluster promises about sessions, whatever happens to its       *)
(* processes and connections: one table per forward server, from a uid to  *)
(* the session it may be admitted with.  A password is verified before a   *)
(* session of its uid is issued, a session goes when it is presented, and  *)
(* the sessions of a forward server go with it.  Nothing else touches      *)
(* them: hub, keeper and logon server only carry messages.                 *)
(***************************************************************************)
EXTENDS Naturals

CONSTANTS Forwards, Uids, Names, Sessions, ForwardConns

VARIABLES sessions,   \* sessions[p][u]: the session of uid u at forward process p, or NoSession
          issued,     \* sessions issued so far
          admitted,   \* the admissions, each with the serial number of its session
          verified    \* (uid, connection name) of every password found right

tableVars == <<sessions, issued, admitted, verified>>

NoSession == [serial |-> 0]
NoneLeft  == [u \in Uids |-> NoSession]

Init == /\ sessions = [p \in Forwards |-> NoneLeft]
        /\ issued = 0
        /\ admitted = {}
        /\ verified = {}

Verify(u, n) == /\ verified' = verified \cup {[uid |-> u, connname |-> n]}
                /\ UNCHANGED <<sessions, issued, admitted>>

Issue(p, u, n, s) ==
    /\ [uid |-> u, connname |-> n] \in verified
    /\ sessions' = [sessions EXCEPT ![p][u] = [session |-> s, serial |-> issued + 1]]
    /\ issued' = issued + 1
    /\ UNCHANGED <<admitted, verified>>

Used(p, u) == sessions' = [sessions EXCEPT ![p][u] = NoSession]

Admit(p, u, x) ==
    /\ sessions[p][u] # NoSession
    /\ admitted' = admitted \cup {[forward |-> p, conn |-> x, uid |-> u, serial |-> sessions[p][u].serial]}
    /\ Used(p, u)
    /\ UNCHANGED <<issued, verified>>

Reject(p, u) == Used(p, u) /\ UNCHANGED <<issued, admitted, verified>>

(* The forward server is replaced by a new one, or its process dies. *)
Forget(p) == /\ sessions' = [sessions EXCEPT ![p] = NoneLeft]
             /\ UNCHANGED <<issued, admitted, verified>>

Next == \/ \E u \in Uids, n \in Names : Verify(u, n)
        \/ \E p \in Forwards, u \in Uids, n \in Names, s \in Sessions : Issue(p, u, n, s)
        \/ \E p \in Forwards, u \in Uids, x \in ForwardConns : Admit(p, u, x)
        \/ \E p \in Forwards, u \in Uids : Reject(p, u)
        \/ \E p \in Forwards : Forget(p)

Spec == Init /\ [][Next]_tableVars
=============================================================================

-------------------------------- MODULE Net --------------------------------
(***************************************************************************)
(* The TCP connections of the logon cluster, as muduo's TcpConnection,     *)
(* TcpClient and TcpServer present them to the servers.                    *)
(*                                                                         *)
(* A connection is <<kind, owner, n>>: the n-th connection the TcpClient   *)
(* of "owner" opens on a link of that kind.  Each of its two ends is a     *)
(* TcpConnection with a state, and the bytes in flight are one FIFO of     *)
(* messages per direction.  An orderly close is a FIN message; a           *)
(* connection whose network path or whose peer process has died is "lost": *)
(* an end may then still read what had already arrived, or find the        *)
(* connection closed at any point, and nothing it sends arrives.           *)
(***************************************************************************)
EXTENDS Config

CONSTANTS MaxConn,     \* bound: connections a TcpClient with retry opens
          FaultKinds,  \* links that may be cut and processes that may restart
          MaxFaults    \* bound: cuts and restarts in one behaviour

ASSUME NetAssumption == /\ MaxConn \in Nat \ {0}
                        /\ MaxFaults \in Nat

HubKeeperConns     == {"hubkeeper"} \X Keepers \X (1..MaxConn)
HubLogonConns      == {"hublogon"} \X {"logon"} \X (1..MaxConn)
KeeperForwardConns == {"keeperforward"} \X Forwards \X (1..MaxConn)
LogonConns         == {"clientlogon"} \X Clients \X {1}
ForwardConns       == {"clientforward"} \X Clients \X (1..MaxConn)

HubConns == HubKeeperConns \cup HubLogonConns
Conns    == HubConns \cup KeeperForwardConns \cup LogonConns \cup ForwardConns

Kind(c)  == c[1]
Owner(c) == c[2]

NoConn == <<"none">>   \* a TcpConnectionPtr that is null

VARIABLES cli,     \* cli[c]: state of the TcpConnection at the connecting end
          srv,     \* srv[c]: state of the TcpConnection at the accepting end
          c2s,     \* c2s[c]: messages in flight to the accepting end
          s2c,     \* s2c[c]: messages in flight to the connecting end
          lost,    \* lost[c]: the path or the peer process has died
          faults   \* cuts and restarts so far

netVars == <<cli, srv, c2s, s2c, lost, faults>>

(***************************************************************************)
(* "none": no TcpConnection yet (for the accepting end of a connected one: *)
(* waiting in the accept queue); "up": kConnected; "shut": kDisconnecting, *)
(* our FIN is sent; "down": kDisconnected.                                 *)
(***************************************************************************)
EndState == {"none", "up", "shut", "down"}
Open     == {"up", "shut"}

FIN == [type |-> "FIN"]

NetInit == /\ cli  = [c \in Conns |-> "none"]
           /\ srv  = [c \in Conns |-> "none"]
           /\ c2s  = [c \in Conns |-> <<>>]
           /\ s2c  = [c \in Conns |-> <<>>]
           /\ lost = [c \in Conns |-> FALSE]
           /\ faults = 0

-----------------------------------------------------------------------------
(* TcpConnection::send writes only while kConnected; what is written to a *)
(* connection that is lost, or whose other end is gone, never arrives.     *)
CanSendC(c) == c # NoConn /\ cli[c] = "up" /\ srv[c] # "down" /\ ~lost[c]
CanSendS(c) == c # NoConn /\ srv[c] = "up" /\ cli[c] # "down" /\ ~lost[c]

(* Mutant: a message overtakes those still waiting in the output buffer.   *)
SendSOvertaking(q, c, m) == IF CanSendS(c) THEN [q EXCEPT ![c] = <<m>> \o @] ELSE q

(* The queues after the connecting (C) or accepting (S) end of c sends m.  *)
SendC(q, c, m) == IF CanSendC(c) THEN [q EXCEPT ![c] = Append(@, m)] ELSE q
SendS(q, c, m) == IF CanSendS(c) THEN [q EXCEPT ![c] = Append(@, m)] ELSE q

(* A complete message of type t is next at an end of c. *)
ReadsS(c, t) == srv[c] \in Open /\ c2s[c] # <<>> /\ Head(c2s[c]).type = t
ReadsC(c, t) == cli[c] \in Open /\ s2c[c] # <<>> /\ Head(s2c[c]).type = t

Recv(q, c) == [q EXCEPT ![c] = Tail(@)]

(* Mutant: the write side is never shut down. *)
ShutdownSNoFin(c, q) == srv' = [srv EXCEPT ![c] = IF @ = "up" THEN "shut" ELSE @] /\ s2c' = q

(***************************************************************************)
(* TcpConnection::shutdown: half-close, only from kConnected.  q: the      *)
(* queues after what the handler has already written.                      *)
(***************************************************************************)
ShutdownS(c, q) == /\ srv' = [srv EXCEPT ![c] = IF @ = "up" THEN "shut" ELSE @]
                   /\ s2c' = SendS(q, c, FIN)
ShutdownC(c, q) == /\ cli' = [cli EXCEPT ![c] = IF @ = "up" THEN "shut" ELSE @]
                   /\ c2s' = SendC(q, c, FIN)

(***************************************************************************)
(* TcpConnection::handleClose at one end of c: the other end's FIN has     *)
(* been read, or the connection is found dead.  Destroying the             *)
(* TcpConnection closes the socket, which sends our FIN if shutdown has    *)
(* not.                                                                    *)
(***************************************************************************)
ClosesS(c) == /\ srv[c] \in Open
              /\ lost[c] \/ (c2s[c] # <<>> /\ Head(c2s[c]) = FIN)
ClosesC(c) == /\ cli[c] \in Open
              /\ lost[c] \/ (s2c[c] # <<>> /\ Head(s2c[c]) = FIN)

Drained(q, c) == [q EXCEPT ![c] = <<>>]

CloseS(c) == /\ srv' = [srv EXCEPT ![c] = "down"]
             /\ s2c' = SendS(s2c, c, FIN)
CloseC(c) == /\ cli' = [cli EXCEPT ![c] = "down"]
             /\ s2c' = Drained(s2c, c)
             /\ c2s' = SendC(c2s, c, FIN)

(* Mutant: enableRetry forgotten. *)
MayConnectOnce(c) == cli[c] = "none" /\ c[3] = 1

(***************************************************************************)
(* TcpClient::connect, and its retry after a close: one connection at a    *)
(* time.  The hub and the keepers do nothing when a connection comes up,   *)
(* so theirs is accepted in the same step.                                 *)
(***************************************************************************)
MayConnect(c) == /\ cli[c] = "none"
                 /\ \A n \in 1..(c[3] - 1) : cli[<<Kind(c), Owner(c), n>>] = "down"

Connected(c, m) == /\ MayConnect(c)
                   /\ cli' = [cli EXCEPT ![c] = "up"]
                   /\ c2s' = [c2s EXCEPT ![c] = <<m>>]

-----------------------------------------------------------------------------
(* The network cuts connection c. *)
Cut(c) == /\ Kind(c) \in FaultKinds
          /\ faults < MaxFaults
          /\ ~lost[c]
          /\ cli[c] \in Open \/ srv[c] \in Open
          /\ lost' = [lost EXCEPT ![c] = TRUE]
          /\ faults' = faults + 1
          /\ UNCHANGED <<cli, srv, c2s, s2c>>

(* The ends E of connections vanish, and what was on its way to them. *)
Live == {c \in Conns : cli[c] # "none" /\ ~(cli[c] = "down" /\ srv[c] = "down")}

Killed(ends, E) == [c \in Conns |-> IF c \in E \cap Live THEN "down" ELSE ends[c]]
Emptied(q, E)   == [c \in Conns |-> IF c \in E THEN <<>> ELSE q[c]]
LostAlso(E)     == [c \in Conns |-> lost[c] \/ c \in E \cap Live]

(***************************************************************************)
(* A process that holds the connecting ends C and the accepting ends S     *)
(* dies: no callback runs in it, and its peers find the connections dead.  *)
(***************************************************************************)
Die(C, S) == /\ cli' = Killed(cli, C)
             /\ srv' = Killed(srv, S)
             /\ c2s' = Emptied(c2s, S)
             /\ s2c' = Emptied(s2c, C)
             /\ lost' = LostAlso(C \cup S)

(* An operator kills and restarts a process of this kind. *)
MayRestart(kind) == kind \in FaultKinds /\ faults < MaxFaults /\ faults' = faults + 1
=============================================================================

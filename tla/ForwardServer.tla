--------------------------- MODULE ForwardServer ---------------------------
(***************************************************************************)
(* A forward process (forwardserver/): the KeeperClient, which asks the    *)
(* keeper for a server id, and the ForwardServer it then creates to listen *)
(* on the port of that id.  The keeper hands it (uid, session) pairs, and  *)
(* a client that presents one is admitted.                                 *)
(*                                                                         *)
(* The main loop runs the KeeperClient and the session checks, I/O threads *)
(* the connections of the clients: onLogonForward only queues its check in *)
(* the main loop.  An address ip:port is represented by the server id it   *)
(* belongs to.                                                             *)
(***************************************************************************)
EXTENDS Net

VARIABLES alive,      \* alive[p]: the process runs (it may abort)
          keeperConn, \* keeperConn[p]: KeeperClient::conn_
          server,     \* server[p]: the id of forwardServer_, or NoServer
          sessions,   \* sessions[p]: logonSessions_, a missing key mapped to NoSession
          checks,     \* checks[p]: checkLogonForwardSession functors queued in the main loop
          peer,       \* peer[c]: the process that listened when client connection c was made
          issued,     \* history: sessions issued so far, to number them
          admitted    \* history: every "LogonForward SUCCESS"

forwardVars == <<alive, keeperConn, server, sessions, checks, peer, issued, admitted>>

NoServer  == 0
NoSession == [serial |-> 0]
Nobody    == "none"

ASSUME ForwardAssumption == Nobody \notin Forwards

ForwardInit == /\ alive = [p \in Forwards |-> TRUE]
               /\ keeperConn = [p \in Forwards |-> NoConn]
               /\ server = [p \in Forwards |-> NoServer]
               /\ sessions = [p \in Forwards |-> [u \in Uids |-> NoSession]]
               /\ checks = [p \in Forwards |-> <<>>]
               /\ peer = [c \in ForwardConns |-> Nobody]
               /\ issued = 0
               /\ admitted = {}

ForwardSendToKeeper(q, p, m) == SendC(q, keeperConn[p], m)

UpdateConns(p, oper) == [type |-> "KeeperForwardUpdateForwardConns", keeperserverid |-> KeeperOf[p],
                         forwardserverid |-> server[p], oper |-> oper]

Listening(p, id) == alive[p] /\ server[p] = id

ClientConnsOf(p) == {c \in ForwardConns : peer[c] = p}

KeeperConnsOf(p) == {c \in KeeperForwardConns : Owner(c) = p}

(* The memory of a process that has just been started, or has died. *)
Blank(p, running) == /\ alive' = [alive EXCEPT ![p] = running]
                     /\ keeperConn' = [keeperConn EXCEPT ![p] = NoConn]
                     /\ server' = [server EXCEPT ![p] = NoServer]
                     /\ sessions' = [sessions EXCEPT ![p] = [u \in Uids |-> NoSession]]
                     /\ checks' = [checks EXCEPT ![p] = <<>>]
                     /\ UNCHANGED <<peer, issued, admitted>>

Abort(p) == /\ Die(KeeperConnsOf(p), ClientConnsOf(p))
            /\ Blank(p, FALSE)
            /\ UNCHANGED faults

-----------------------------------------------------------------------------
(* KeeperClient::onConnection: UP, on connecting and on every retry. *)
ForwardConnectKeeper(p, c) ==
    /\ alive[p]
    /\ Connected(c, [type |-> "KeeperQuery", servertype |-> "FORWARD"])
    /\ srv' = [srv EXCEPT ![c] = "up"]
    /\ keeperConn' = [keeperConn EXCEPT ![p] = c]
    /\ UNCHANGED <<s2c, lost, faults, alive, server, sessions, checks, peer, issued, admitted>>

(* KeeperClient::onConnection: DOWN.  The ForwardServer stays. *)
ForwardOnKeeperConnectionDown(p, c) ==
    /\ ClosesC(c)
    /\ CloseC(c)
    /\ keeperConn' = [keeperConn EXCEPT ![p] = NoConn]
    /\ UNCHANGED <<srv, lost, faults, alive, server, sessions, checks, peer, issued, admitted>>

PortTaken(id) == \E p \in Forwards : Listening(p, id)

(***************************************************************************)
(* KeeperClient::onAnswer: forwardServer_.reset(new ForwardServer(...)).   *)
(* The new server binds its port before the old one is destroyed.  The     *)
(* destructor of the old one closes its connections from their I/O loops,  *)
(* which are being stopped: each one that was up may or may not get to     *)
(* report DEC.  Checks still queued for the old server dangle.             *)
(***************************************************************************)
ForwardOnAnswer(p, c) ==
    /\ ReadsC(c, "KeeperAnswer")
    /\ ~PortTaken(Head(s2c[c]).serverid)
    /\ \E n \in 0..Cardinality({x \in ClientConnsOf(p) : srv[x] = "up"}) :
          LET q == Emptied(c2s, ClientConnsOf(p))
          IN  c2s' = IF CanSendC(keeperConn[p])
                     THEN [q EXCEPT ![keeperConn[p]] = @ \o [i \in 1..n |-> UpdateConns(p, "DEC")]]
                     ELSE q
    /\ srv' = Killed(srv, ClientConnsOf(p))
    /\ lost' = LostAlso(ClientConnsOf(p))
    /\ server' = [server EXCEPT ![p] = Head(s2c[c]).serverid]
    /\ sessions' = [sessions EXCEPT ![p] = [u \in Uids |-> NoSession]]
    /\ checks' = [checks EXCEPT ![p] = [i \in DOMAIN @ |-> [@[i] EXCEPT !.live = FALSE]]]
    /\ s2c' = Recv(s2c, c)
    /\ UNCHANGED <<cli, faults, alive, keeperConn, peer, issued, admitted>>

(* The port is in use (LOG_SYSFATAL in sockets::bindOrDie), or the         *)
(* destructor meets a connection that is half closed: connectDestroyed     *)
(* leaves its channel enabled and Channel::remove asserts.                 *)
ForwardOnAnswerAbort(p, c) ==
    /\ ReadsC(c, "KeeperAnswer")
    /\ \/ PortTaken(Head(s2c[c]).serverid)
       \/ \E x \in ClientConnsOf(p) : srv[x] = "shut"
    /\ Abort(p)

(* KeeperClient::onKeeperForwardLogonSession and addLogonSession: a later  *)
(* session of the same uid replaces an earlier one.                        *)
ForwardOnKeeperForwardLogonSession(p, c) ==
    /\ ReadsC(c, "KeeperForwardLogonSession")
    /\ server[p] # NoServer
    /\ \E session \in Sessions :
          LET m == Head(s2c[c])
          IN  /\ sessions' = [sessions EXCEPT ![p][m.uid] = [session |-> session, serial |-> issued + 1]]
              /\ c2s' = ForwardSendToKeeper(c2s, p, [type |-> "KeeperForwardLogonSessionRet", uid |-> m.uid,
                                                     connname |-> m.connname, forward |-> server[p],
                                                     session |-> session])
    /\ issued' = issued + 1
    /\ s2c' = Recv(s2c, c)
    /\ UNCHANGED <<cli, srv, lost, faults, alive, keeperConn, server, checks, peer, admitted>>

-----------------------------------------------------------------------------
(* ForwardServer::onConnection: UP. *)
ForwardOnConnectionUp(p, x) ==
    /\ peer[x] = p
    /\ srv[x] = "none"
    /\ srv' = [srv EXCEPT ![x] = "up"]
    /\ c2s' = ForwardSendToKeeper(c2s, p, UpdateConns(p, "INC"))
    /\ UNCHANGED <<cli, s2c, lost, faults, forwardVars>>

(* Mutant: a connection this server has shut down itself is not counted off. *)
ForwardOnConnectionDownIfUp(p, x) ==
    /\ peer[x] = p
    /\ ClosesS(x)
    /\ CloseS(x)
    /\ c2s' = IF srv[x] = "up" THEN ForwardSendToKeeper(Drained(c2s, x), p, UpdateConns(p, "DEC"))
                               ELSE Drained(c2s, x)
    /\ UNCHANGED <<cli, lost, faults, forwardVars>>

(* ForwardServer::onConnection: DOWN. *)
ForwardOnConnectionDown(p, x) ==
    /\ peer[x] = p
    /\ ClosesS(x)
    /\ CloseS(x)
    /\ c2s' = ForwardSendToKeeper(Drained(c2s, x), p, UpdateConns(p, "DEC"))
    /\ UNCHANGED <<cli, lost, faults, forwardVars>>

ForwardOnLogonForward(p, x) ==
    /\ peer[x] = p
    /\ ReadsS(x, "LogonForward")
    /\ LET m == Head(c2s[x])
       IN  checks' = [checks EXCEPT ![p] = Append(@, [conn |-> x, uid |-> m.uid,
                                                      session |-> m.session, live |-> TRUE])]
    /\ c2s' = Recv(c2s, x)
    /\ UNCHANGED <<cli, srv, s2c, lost, faults, alive, keeperConn, server, sessions, peer, issued, admitted>>

(* Mutants: the session stays after use; all sessions go. *)
NotErased(map, uid) == map
AllErased(map, uid) == [u \in Uids |-> NoSession]

Erased(map, uid) == [map EXCEPT ![uid] = NoSession]

(* The entry of the uid is erased whether or not the session matched. *)
ForwardCheckLogonForwardSession(p) ==
    /\ checks[p] # <<>>
    /\ LET t == Head(checks[p])
           e == sessions[p][t.uid]
       IN  /\ t.live
           /\ IF e # NoSession /\ e.session = t.session
              THEN /\ admitted' = admitted \cup {[forward |-> p, conn |-> t.conn, uid |-> t.uid, serial |-> e.serial]}
                   /\ UNCHANGED <<srv, s2c>>
              ELSE ShutdownS(t.conn, s2c) /\ UNCHANGED admitted
           /\ sessions' = [sessions EXCEPT ![p] = Erased(@, t.uid)]
    /\ checks' = [checks EXCEPT ![p] = Tail(@)]
    /\ UNCHANGED <<cli, c2s, lost, faults, alive, keeperConn, server, peer, issued>>

(***************************************************************************)
(* A check of a destroyed ForwardServer reads a map that has been freed.   *)
(* If it finds nothing, its connection is already closed and nothing       *)
(* happens; if it finds a freed node, erasing it frees it twice.           *)
(***************************************************************************)
ForwardDanglingCheck(p) ==
    /\ checks[p] # <<>>
    /\ ~Head(checks[p]).live
    /\ \/ /\ checks' = [checks EXCEPT ![p] = Tail(@)]
          /\ UNCHANGED <<netVars, alive, keeperConn, server, sessions, peer, issued, admitted>>
       \/ Abort(p)

ForwardRestart(p) == /\ MayRestart("forward")
                     /\ Die(KeeperConnsOf(p), ClientConnsOf(p))
                     /\ Blank(p, TRUE)

ForwardStep(p) ==
    \/ \E c \in KeeperConnsOf(p) : \/ ForwardConnectKeeper(p, c)
                                   \/ ForwardOnKeeperConnectionDown(p, c)
                                   \/ ForwardOnAnswer(p, c)
                                   \/ ForwardOnAnswerAbort(p, c)
                                   \/ ForwardOnKeeperForwardLogonSession(p, c)
    \/ \E x \in ForwardConns : \/ ForwardOnConnectionUp(p, x)
                              \/ ForwardOnConnectionDown(p, x)
                              \/ ForwardOnLogonForward(p, x)
    \/ ForwardCheckLogonForwardSession(p)
    \/ ForwardDanglingCheck(p)
    \/ ForwardRestart(p)
=============================================================================

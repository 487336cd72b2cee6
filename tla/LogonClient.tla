---------------------------- MODULE LogonClient ----------------------------
(***************************************************************************)
(* A logon client (logonclient/): LogonClient connects to the logon server *)
(* and logs on; with the session it gets it creates a ForwardClient, which *)
(* connects to the forward server it was given.  Neither retries after a   *)
(* close, but a connector keeps trying until it first connects.            *)
(***************************************************************************)
EXTENDS ForwardServer

CONSTANTS ClientUid, ClientPasswd, ClientKeeper   \* what client c puts in its Logon

ASSUME ClientAssumption == ClientUid \in [Clients -> Nat]

VARIABLE forwardClient    \* forwardClient[c]: forwardClient_

clientVars == <<forwardClient>>

NoClient == [conn |-> NoConn]

ClientInit == forwardClient = [c \in Clients |-> NoClient]

LogonConnOf(c) == <<"clientlogon", c, 1>>

-----------------------------------------------------------------------------
(* LogonClient::onConnection: UP. *)
ClientConnect(c) ==
    /\ Connected(LogonConnOf(c), [type |-> "Logon", uid |-> ClientUid[c], passwd |-> ClientPasswd[c],
                                  keeperserverid |-> ClientKeeper[c]])
    /\ UNCHANGED <<srv, s2c, lost, faults, forwardVars, clientVars>>

(* LogonClient::onConnection: DOWN. *)
ClientOnConnectionDown(c) ==
    /\ ClosesC(LogonConnOf(c))
    /\ CloseC(LogonConnOf(c))
    /\ UNCHANGED <<srv, lost, faults, forwardVars, clientVars>>

ClientOnLogonRetFailed(c) ==
    LET x == LogonConnOf(c)
    IN  /\ ReadsC(x, "LogonRet")
        /\ Head(s2c[x]).status = "FAILED"
        /\ ShutdownC(x, c2s)
        /\ s2c' = Recv(s2c, x)
        /\ UNCHANGED <<srv, lost, faults, forwardVars, clientVars>>

(* The connection a new ForwardClient of c will open. *)
NextForwardConn(c) ==
    LET old == forwardClient[c].conn IN <<"clientforward", c, IF old = NoConn THEN 1 ELSE old[3] + 1>>

(* forwardClient_.reset(new ForwardClient(...)): the TcpClient of an       *)
(* earlier one force-closes its connection, or stops its connector.        *)
ClientOnLogonRetSuccess(c) ==
    LET x   == LogonConnOf(c)
        m   == Head(s2c[x])
        old == forwardClient[c].conn
    IN  /\ ReadsC(x, "LogonRet")
        /\ m.status = "SUCCESS"
        /\ NextForwardConn(c) \in ForwardConns
        /\ forwardClient' = [forwardClient EXCEPT ![c] = [conn |-> NextForwardConn(c), to |-> m.forward,
                                                         uid |-> m.uid, session |-> m.session]]
        /\ IF old # NoConn /\ cli[old] \in Open
           THEN /\ cli' = [cli EXCEPT ![old] = "down"]
                /\ s2c' = Drained(Recv(s2c, x), old)
                /\ c2s' = SendC(c2s, old, FIN)
           ELSE s2c' = Recv(s2c, x) /\ UNCHANGED <<cli, c2s>>
        /\ UNCHANGED <<srv, lost, faults, forwardVars>>

(***************************************************************************)
(* The codec leaves the padding of an encrypted message in the input       *)
(* buffer, so a second one on the same connection is misframed unless the  *)
(* padding was empty: the codec's error callback shuts the connection      *)
(* down.                                                                   *)
(***************************************************************************)
ClientOnMisframedLogonRet(c) ==
    LET x == LogonConnOf(c)
    IN  /\ ReadsC(x, "LogonRet")
        /\ forwardClient[c] # NoClient
        /\ ShutdownC(x, c2s)
        /\ s2c' = Recv(s2c, x)
        /\ UNCHANGED <<srv, lost, faults, forwardVars, clientVars>>

(* ForwardClient::onConnection: UP, once somebody listens on the port. *)
ForwardClientConnect(c, p) ==
    LET f == forwardClient[c]
    IN  /\ f # NoClient
        /\ cli[f.conn] = "none"
        /\ Listening(p, f.to)
        /\ cli' = [cli EXCEPT ![f.conn] = "up"]
        /\ c2s' = [c2s EXCEPT ![f.conn] = <<[type |-> "LogonForward", uid |-> f.uid, session |-> f.session]>>]
        /\ peer' = [peer EXCEPT ![f.conn] = p]
        /\ UNCHANGED <<srv, s2c, lost, faults, clientVars,
                       alive, keeperConn, server, sessions, checks, issued, admitted>>

(* ForwardClient::onConnection: DOWN. *)
ForwardClientOnConnectionDown(c) ==
    /\ forwardClient[c] # NoClient
    /\ ClosesC(forwardClient[c].conn)
    /\ CloseC(forwardClient[c].conn)
    /\ UNCHANGED <<srv, lost, faults, forwardVars, clientVars>>

ClientStep(c) == \/ ClientConnect(c)
                 \/ ClientOnConnectionDown(c)
                 \/ ClientOnLogonRetFailed(c)
                 \/ ClientOnLogonRetSuccess(c)
                 \/ ClientOnMisframedLogonRet(c)
                 \/ \E p \in Forwards : ForwardClientConnect(c, p)
                 \/ ForwardClientOnConnectionDown(c)
=============================================================================

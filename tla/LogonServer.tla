---------------------------- MODULE LogonServer ----------------------------
(***************************************************************************)
(* The logon server (logonserver/LogonServer.cc): checks a client's        *)
(* password in a pool of database threads, asks the hub for a forward      *)
(* server and passes the session on to the client.  A client is known by   *)
(* the name of its connection, "LogonServer:ip:port#N" with N counted from *)
(* 1 by every logon server process: the name is the number here.           *)
(***************************************************************************)
EXTENDS Net

CONSTANTS MaxNames,   \* bound: client connections accepted by one process
          DbFails     \* whether the pool may fail to give a database connection

ASSUME LogonAssumption == MaxNames \in Nat \ {0} /\ DbFails \in BOOLEAN

Names == 1..MaxNames

VARIABLES logonHubConn,   \* hubConn_
          clientConns,    \* clientConns_, a missing key mapped to NoConn
          nextConnId,     \* nextConnId_ of server_
          tasks,          \* queryLogonAccount tasks queued or running in mysqlConnectionPool_
          verified        \* history: (uid, connection name) of every password found right

logonVars == <<logonHubConn, clientConns, nextConnId, tasks, verified>>

LogonInit == /\ logonHubConn = NoConn
             /\ clientConns = [n \in Names |-> NoConn]
             /\ nextConnId = 1
             /\ tasks = {}
             /\ verified = {}

LogonSendToHub(q, m)       == SendC(q, logonHubConn, m)
LogonSendToClient(q, n, m) == SendS(q, clientConns[n], m)

(* shutdownConn after the message m; a name that is not known is ignored.  *)
LogonSendAndShutdown(n, m) ==
    LET x == clientConns[n]
    IN  IF x = NoConn THEN UNCHANGED <<srv, s2c>> ELSE ShutdownS(x, LogonSendToClient(s2c, n, m))

-----------------------------------------------------------------------------
(* hubClient_ connects or reconnects; onHubClientConnection: UP. *)
LogonConnectHub(c) ==
    /\ Connected(c, [type |-> "HubConnectionData", servertype |-> "LOGON"])
    /\ srv' = [srv EXCEPT ![c] = "up"]
    /\ logonHubConn' = c
    /\ UNCHANGED <<s2c, lost, faults, clientConns, nextConnId, tasks, verified>>

(* onHubClientConnection: DOWN. *)
LogonOnHubConnectionDown(c) ==
    /\ ClosesC(c)
    /\ CloseC(c)
    /\ logonHubConn' = NoConn
    /\ UNCHANGED <<srv, lost, faults, clientConns, nextConnId, tasks, verified>>

(* TcpServer::newConnection names the connection; onConnection: UP. *)
LogonOnConnectionUp(x) ==
    /\ srv[x] = "none"
    /\ cli[x] # "none"
    /\ nextConnId <= MaxNames
    /\ srv' = [srv EXCEPT ![x] = "up"]
    /\ clientConns' = [clientConns EXCEPT ![nextConnId] = x]
    /\ nextConnId' = nextConnId + 1
    /\ UNCHANGED <<cli, c2s, s2c, lost, faults, logonHubConn, tasks, verified>>

NameOf(x) == CHOOSE n \in Names : clientConns[n] = x

(* Mutant: the name of a closed connection is given out again. *)
LogonReusesName(x) ==
    /\ ClosesS(x)
    /\ CloseS(x)
    /\ c2s' = Drained(c2s, x)
    /\ clientConns' = [clientConns EXCEPT ![NameOf(x)] = NoConn]
    /\ nextConnId' = NameOf(x)
    /\ UNCHANGED <<cli, lost, faults, logonHubConn, tasks, verified>>

(* onConnection: DOWN. *)
LogonOnConnectionDown(x) ==
    /\ ClosesS(x)
    /\ CloseS(x)
    /\ c2s' = Drained(c2s, x)
    /\ clientConns' = [clientConns EXCEPT ![NameOf(x)] = NoConn]
    /\ UNCHANGED <<cli, lost, faults, logonHubConn, nextConnId, tasks, verified>>

LogonOnLogon(x) ==
    /\ ReadsS(x, "Logon")
    /\ LET m == Head(c2s[x])
       IN  tasks' = tasks \cup {[uid |-> m.uid, passwd |-> m.passwd, keeperserverid |-> m.keeperserverid,
                                 connname |-> NameOf(x)]}
    /\ c2s' = Recv(c2s, x)
    /\ UNCHANGED <<cli, srv, s2c, lost, faults, logonHubConn, clientConns, nextConnId, verified>>

(* queryLogonAccount takes its uid as a uint32_t. *)
TaskUid(t) == t.uid % UidModulus

PasswdMatches(t) == TaskUid(t) \in DOMAIN Account /\ Account[TaskUid(t)] = t.passwd

(* queryLogonAccount in one of the pool's threads, in any order: the       *)
(* password is right.                                                      *)
LogonQueryAccountMatch(t) ==
    /\ PasswdMatches(t)
    /\ c2s' = LogonSendToHub(c2s, [type |-> "HubLogonQueryForwardID", uid |-> TaskUid(t),
                                   connname |-> t.connname, keeperserverid |-> t.keeperserverid])
    /\ verified' = verified \cup {[uid |-> TaskUid(t), connname |-> t.connname]}
    /\ tasks' = tasks \ {t}
    /\ UNCHANGED <<cli, srv, s2c, lost, faults, logonHubConn, clientConns, nextConnId>>

(* Mutant: a wrong password does not stop the logon. *)
LogonQueryAccountIgnored(t) ==
    /\ ~PasswdMatches(t)
    /\ c2s' = LogonSendToHub(c2s, [type |-> "HubLogonQueryForwardID", uid |-> TaskUid(t),
                                   connname |-> t.connname, keeperserverid |-> t.keeperserverid])
    /\ tasks' = tasks \ {t}
    /\ UNCHANGED <<cli, srv, s2c, lost, faults, logonHubConn, clientConns, nextConnId, verified>>

(* ... the password is wrong: LogonRet FAILED and shutdownConn. *)
LogonQueryAccountMismatch(t) ==
    /\ ~PasswdMatches(t)
    /\ LogonSendAndShutdown(t.connname, [type |-> "LogonRet", status |-> "FAILED", uid |-> TaskUid(t)])
    /\ tasks' = tasks \ {t}
    /\ UNCHANGED <<cli, c2s, lost, faults, logonHubConn, clientConns, nextConnId, verified>>

(* ... the pool has no connection to give: the client is not told. *)
LogonQueryAccountNoConnection(t) ==
    /\ DbFails
    /\ tasks' = tasks \ {t}
    /\ UNCHANGED <<netVars, logonHubConn, clientConns, nextConnId, verified>>

LogonOnHubLogonAnswerForwardID(c) ==
    /\ ReadsC(c, "HubLogonAnswerForwardID")
    /\ LET m == Head(s2c[c])
       IN  s2c' = LogonSendToClient(Recv(s2c, c), m.connname,
                                    [type |-> "LogonRet", status |-> "SUCCESS", uid |-> m.uid,
                                     forward |-> m.forward, session |-> m.session])
    /\ UNCHANGED <<cli, srv, c2s, lost, faults, logonVars>>

LogonRestart ==
    /\ MayRestart("logon")
    /\ Die(HubLogonConns, LogonConns)
    /\ logonHubConn' = NoConn
    /\ clientConns' = [n \in Names |-> NoConn]
    /\ nextConnId' = 1
    /\ tasks' = {}
    /\ UNCHANGED verified

LogonStep == \/ \E c \in HubLogonConns : \/ LogonConnectHub(c)
                                         \/ LogonOnHubConnectionDown(c)
                                         \/ LogonOnHubLogonAnswerForwardID(c)
             \/ \E x \in LogonConns : \/ LogonOnConnectionUp(x)
                                      \/ LogonOnConnectionDown(x)
                                      \/ LogonOnLogon(x)
             \/ \E t \in tasks : \/ LogonQueryAccountMatch(t)
                                 \/ LogonQueryAccountMismatch(t)
                                 \/ LogonQueryAccountNoConnection(t)
             \/ LogonRestart
=============================================================================

-------------------------------- MODULE Mmvx --------------------------------
(***************************************************************************)
(* The logon cluster: hub, keepers, forward processes, logon server and    *)
(* clients over the connections of Net.  A client's logon takes eight      *)
(* messages through all of them:                                           *)
(*                                                                         *)
(*   client --Logon--> logon --HubLogonQueryForwardID--> hub               *)
(*     --HubKeeperLogonSession--> keeper --KeeperForwardLogonSession-->    *)
(*   forward --...SessionRet--> keeper --...SessionRet--> hub              *)
(*     --HubLogonAnswerForwardID--> logon --LogonRet--> client             *)
(*                                                                         *)
(* after which the client presents its session to the forward server.      *)
(***************************************************************************)
EXTENDS HubServer, KeeperServer, LogonServer, LogonClient

vars == <<netVars, hubVars, keeperVars, forwardVars, logonVars, clientVars>>

Init == /\ NetInit
        /\ HubInit
        /\ KeeperInit
        /\ ForwardInit
        /\ LogonInit
        /\ ClientInit

Hub        == HubStep /\ UNCHANGED <<keeperVars, forwardVars, logonVars, clientVars>>
Keeper(k)  == KeeperStep(k) /\ UNCHANGED <<hubVars, forwardVars, logonVars, clientVars>>
Forward(p) == ForwardStep(p) /\ UNCHANGED <<hubVars, keeperVars, logonVars, clientVars>>
Logon      == LogonStep /\ UNCHANGED <<hubVars, keeperVars, forwardVars, clientVars>>
Client(c)  == ClientStep(c) /\ UNCHANGED <<hubVars, keeperVars, logonVars>>
Network    == \E c \in Conns : Cut(c) /\ UNCHANGED <<hubVars, keeperVars, forwardVars, logonVars, clientVars>>

Next == \/ Hub
        \/ \E k \in Keepers : Keeper(k)
        \/ \E p \in Forwards : Forward(p)
        \/ Logon
        \/ \E c \in Clients : Client(c)
        \/ Network

Spec == Init /\ [][Next]_vars

-----------------------------------------------------------------------------
Opt(S, none) == S \cup {none}

Message ==
         {FIN}
    \cup [type : {"HubConnectionData"}, servertype : {"LOGON"}]
    \cup [type : {"HubConnectionData"}, servertype : {"KEEPER"}, serverid : Keepers]
    \cup [type : {"HubKeeperUpdateForwardConns", "KeeperForwardUpdateForwardConns"},
          keeperserverid : Keepers, forwardserverid : ServerIds, oper : {"ADD", "REMOVE", "INC", "DEC"}]
    \cup [type : {"KeeperQuery"}, servertype : {"FORWARD"}]
    \cup [type : {"KeeperAnswer"}, keeperserverid : Keepers, serverid : ServerIds]
    \cup [type : {"Logon"}, uid : Nat, passwd : {ClientPasswd[c] : c \in Clients},
          keeperserverid : {ClientKeeper[c] : c \in Clients}]
    \cup [type : {"HubLogonQueryForwardID"}, uid : Uids, connname : Names,
          keeperserverid : {ClientKeeper[c] : c \in Clients}]
    \cup [type : {"HubKeeperLogonSession"}, uid : Uids, connname : Names, forwardserverid : ServerIds]
    \cup [type : {"KeeperForwardLogonSession"}, uid : Uids, connname : Names]
    \cup [type : {"KeeperForwardLogonSessionRet", "HubKeeperLogonSessionRet", "HubLogonAnswerForwardID"},
          uid : Uids, connname : Names, forward : ServerIds, session : Sessions]
    \cup [type : {"LogonRet"}, status : {"FAILED"}, uid : Uids]
    \cup [type : {"LogonRet"}, status : {"SUCCESS"}, uid : Uids, forward : ServerIds, session : Sessions]
    \cup [type : {"LogonForward"}, uid : Uids, session : Sessions]

NetTypeOK == /\ cli \in [Conns -> EndState]
             /\ srv \in [Conns -> EndState]
             /\ c2s \in [Conns -> Seq(Message)]
             /\ s2c \in [Conns -> Seq(Message)]
             /\ lost \in [Conns -> BOOLEAN]
             /\ faults \in 0..MaxFaults

HubTypeOK == /\ logonConn \in Opt(HubConns, NoConn)
             /\ keeperConns \in [Keepers -> Opt(HubConns, NoConn)]
             /\ forwardConns \in [Keepers -> Seq([id : ServerIds, numConnections : UInt16])]

KeeperTypeOK == /\ serverStart \in [Keepers -> Seq(ServerStart)]
                /\ conns \in [Keepers -> [ServerIds -> Opt(KeeperForwardConns, NoConn)]]
                /\ keeperHubConn \in [Keepers -> Opt(HubKeeperConns, NoConn)]
                /\ starting \in [Keepers -> Opt([id : ServerIds, conn : KeeperForwardConns], NotStarting)]

Session == [session : Sessions, serial : Nat \ {0}]
Check   == [conn : ForwardConns, uid : Uids, session : Sessions, live : BOOLEAN]

ForwardTypeOK ==
    /\ alive \in [Forwards -> BOOLEAN]
    /\ keeperConn \in [Forwards -> Opt(KeeperForwardConns, NoConn)]
    /\ server \in [Forwards -> Opt(ServerIds, NoServer)]
    /\ sessions \in [Forwards -> [Uids -> Opt(Session, NoSession)]]
    /\ checks \in [Forwards -> Seq(Check)]
    /\ peer \in [ForwardConns -> Opt(Forwards, Nobody)]
    /\ issued \in Nat
    /\ admitted \subseteq [forward : Forwards, conn : ForwardConns, uid : Uids, serial : Nat]

LogonTypeOK == /\ logonHubConn \in Opt(HubLogonConns, NoConn)
               /\ clientConns \in [Names -> Opt(LogonConns, NoConn)]
               /\ nextConnId \in 1..(MaxNames + 1)
               /\ tasks \subseteq [uid : Nat, passwd : {ClientPasswd[c] : c \in Clients},
                                   keeperserverid : {ClientKeeper[c] : c \in Clients}, connname : Names]
               /\ verified \subseteq [uid : Uids, connname : Names]

ClientTypeOK ==
    forwardClient \in [Clients -> Opt([conn : ForwardConns, to : ServerIds, uid : Uids, session : Sessions],
                                      NoClient)]

(* Every variable of the cluster has its type: in particular every message *)
(* in flight is one that the handlers at its destination understand.       *)
TypeOK == NetTypeOK /\ HubTypeOK /\ KeeperTypeOK /\ ForwardTypeOK /\ LogonTypeOK /\ ClientTypeOK

(* Ids are unique in serverStart_, so the index at KeeperServer.cc:142 is  *)
(* within serverConfig_.                                                   *)
DistinctStarts ==
    \A k \in Keepers : \A i, j \in DOMAIN serverStart[k] :
        serverStart[k][i].id = serverStart[k][j].id => i = j

(* A client connection that a forward process still has to serve belongs   *)
(* to a ForwardServer that exists.                                         *)
ServedByServer ==
    \A x \in ForwardConns : \A p \in Forwards :
        peer[x] = p => /\ cli[x] # "none"
                       /\ srv[x] # "down" => server[p] # NoServer

(* An open client connection of the logon server is in clientConns_ under  *)
(* a name that no later connection is given.                               *)
NamedConns ==
    /\ \A x \in LogonConns : /\ srv[x] # "none" => cli[x] # "none"
                             /\ srv[x] \in Open => \E n \in Names : clientConns[n] = x
    /\ \A n \in Names : n >= nextConnId => clientConns[n] = NoConn

(* What the handlers take for granted of each other's data, whatever       *)
(* connections are cut and processes restarted.                            *)
WellFormed == DistinctStarts /\ ServedByServer /\ NamedConns

-----------------------------------------------------------------------------
(* Safety under every fault: connections cut and processes restarted.      *)

(* A forward server admits a client only for a uid whose password a        *)
(* database thread of the logon server has found right                     *)
(* (ForwardServer::checkLogonForwardSession, at the end of the chain that  *)
(* LogonServer::queryLogonAccount starts).                                 *)
Authenticated == \A a \in admitted : \E n \in Names : [uid |-> a.uid, connname |-> n] \in verified

(* A session that KeeperClient::onKeeperForwardLogonSession has issued     *)
(* admits at most one connection, even when rand() repeats itself.         *)
SingleUse == \A a, b \in admitted : a.serial = b.serial => a = b

Table == INSTANCE SessionTable

(* The whole cluster implements the session table: a session comes into    *)
(* being only at the end of the message chain that starts with a verified  *)
(* password, and goes with its first use or with its forward server,       *)
(* through every loss, restart and replacement on the way.                 *)
ImplementsSessionTable == Table!Spec

(* assert(forwardServer_) in KeeperClient::onKeeperForwardLogonSession     *)
(* holds: no request for a session reaches a forward process before the    *)
(* KeeperAnswer that makes it create its server.                           *)
SessionAfterAnswer ==
    \A p \in Forwards : \A c \in KeeperConnsOf(p) :
        ReadsC(c, "KeeperForwardLogonSession") => server[p] # NoServer

(* The keeper's conns_ is right about who serves an id: the process at the *)
(* other end serves that id, or has yet to read that it should, or has not *)
(* noticed that the connection is over.  So a session is never created at  *)
(* another forward server than the one the hub chose.                      *)
RoutingSound ==
    \A k \in Keepers : \A id \in ServerIds :
        LET c == conns[k][id]
        IN  c # NoConn /\ cli[c] \in Open =>
                \/ server[Owner(c)] = id
                \/ \E i \in DOMAIN s2c[c] : s2c[c][i] = [type |-> "KeeperAnswer", keeperserverid |-> k, serverid |-> id]
                \/ lost[c]

(* Every connection a server keeps for later use is open at its own end:   *)
(* the DOWN callbacks leave no TcpConnectionPtr behind, in whatever order  *)
(* connections of one peer come and go.                                    *)
RegisteredAreOpen ==
    /\ logonConn # NoConn => srv[logonConn] \in Open
    /\ \A k \in Keepers : /\ keeperConns[k] # NoConn => srv[keeperConns[k]] \in Open
                          /\ keeperHubConn[k] # NoConn => cli[keeperHubConn[k]] \in Open
                          /\ \A id \in ServerIds : conns[k][id] # NoConn => srv[conns[k][id]] \in Open
    /\ \A p \in Forwards : keeperConn[p] # NoConn => cli[keeperConn[p]] \in Open
    /\ logonHubConn # NoConn => cli[logonHubConn] \in Open
    /\ \A n \in Names : clientConns[n] # NoConn => srv[clientConns[n]] \in Open

-----------------------------------------------------------------------------
(* Safety while the logon server process is not restarted.                 *)

(* A client goes on to a forward server only for its own uid, and only if  *)
(* its own password is right: LogonServer::onHubLogonAnswerForwardID finds *)
(* by connection name the client that asked, however late the answer.      *)
OwnLogon ==
    \A c \in Clients : forwardClient[c] # NoClient =>
        /\ forwardClient[c].uid = ClientUid[c] % UidModulus
        /\ PasswdMatches([uid |-> ClientUid[c], passwd |-> ClientPasswd[c]])

-----------------------------------------------------------------------------
(* Safety while the connections between the servers hold.                  *)

(* The keeper gives each id to one process, so no forward process aborts   *)
(* in KeeperClient::onAnswer, and the hub lists each id once.              *)
NoIdTwice == /\ \A p \in Forwards : alive[p]
             /\ \A k \in Keepers : \A i, j \in DOMAIN forwardConns[k] :
                    forwardConns[k][i].id = forwardConns[k][j].id => i = j

InFlight(id, oper) ==
    Cardinality({ci \in UNION {{c} \X DOMAIN c2s[c] : c \in HubKeeperConns \cup KeeperForwardConns} :
                    LET m == c2s[ci[1]][ci[2]]
                    IN  /\ m.type \in {"HubKeeperUpdateForwardConns", "KeeperForwardUpdateForwardConns"}
                        /\ m.oper = oper
                        /\ m.forwardserverid = id})

(* What the hub takes for the load of a forward server is the number of    *)
(* its client connections, once the INC and DEC still on their way through *)
(* the keeper are counted: none is lost, doubled or credited to another.   *)
LoadExact ==
    \A k \in Keepers : \A i \in DOMAIN forwardConns[k] :
        LET e    == forwardConns[k][i]
            open == {x \in ForwardConns : srv[x] \in Open /\ \E p \in Forwards : peer[x] = p /\ server[p] = e.id}
        IN  e.numConnections + InFlight(e.id, "INC") = Cardinality(open) + InFlight(e.id, "DEC")

-----------------------------------------------------------------------------
(***************************************************************************)
(* Fairness: every event loop keeps serving its sockets and its queued     *)
(* functors, the database threads their queue, and a connector retries     *)
(* until it connects; a fault never has to happen.                         *)
(***************************************************************************)
NoFault == faults' = faults

FairSpec == /\ Spec
            /\ WF_vars(Hub /\ NoFault)
            /\ \A k \in Keepers : WF_vars(Keeper(k) /\ NoFault)
            /\ \A p \in Forwards : WF_vars(Forward(p) /\ NoFault)
            /\ WF_vars(Logon /\ NoFault)
            /\ \A c \in Clients : WF_vars(Client(c) /\ NoFault)

Listed(k, id) == \E i \in DOMAIN forwardConns[k] : forwardConns[k][i].id = id

(* Every server has found its place: run.sh starts the clients last. *)
Ready == /\ logonConn # NoConn
         /\ \A k \in Keepers : keeperConns[k] # NoConn
         /\ \A p \in Forwards : /\ server[p] # NoServer
                               /\ keeperConn[p] # NoConn
                               /\ conns[KeeperOf[p]][server[p]] = keeperConn[p]
                               /\ Listed(KeeperOf[p], server[p])

Admitted(c) == \E a \in admitted : Owner(a.conn) = c

(* A client that starts when the cluster is ready is decided upon: it is   *)
(* admitted by a forward server, or its connection to the logon server or  *)
(* to the forward server is closed.  Nothing on the way swallows a logon.  *)
LogonDecided ==
    \A c \in Clients : (Ready /\ cli[LogonConnOf(c)] = "none")
        ~> \/ Admitted(c)
           \/ cli[LogonConnOf(c)] = "down"
           \/ forwardClient[c] # NoClient /\ cli[forwardClient[c].conn] = "down"

(* If no two clients share a uid, those with the right password are        *)
(* admitted: the session is in logonSessions_ before the client hears of   *)
(* it, and still there when its LogonForward is checked.                   *)
LogonAdmitted ==
    \A c \in Clients :
        (/\ Ready
         /\ cli[LogonConnOf(c)] = "none"
         /\ PasswdMatches([uid |-> ClientUid[c], passwd |-> ClientPasswd[c]])) ~> Admitted(c)

(* Once faults have ceased, hub, keepers and logon server know each other  *)
(* again by the connections they really have (TcpClient::enableRetry and   *)
(* the HubConnectionData sent on every connection).                        *)
Reregistered == <>[](/\ logonConn # NoConn
                     /\ logonConn = logonHubConn
                     /\ \A k \in Keepers : keeperConns[k] # NoConn /\ keeperConns[k] = keeperHubConn[k])

(* The hub does not go on listing a forward server that nobody runs:       *)
(* KeeperServer::onConnection sends REMOVE for a process that dies.        *)
GoneIsUnlisted == \A k \in Keepers : \A id \in ServerIds : []<>(Listed(k, id) => PortTaken(id))

-----------------------------------------------------------------------------
(* KeeperServer::onQuery logs "Server Start Duplicate" when it turns a     *)
(* forward process away: every forward server is then already connected.   *)
RefusesOnlyDuplicates ==
    [][\A k \in Keepers : \A c \in KeeperForwardConns :
          KeeperOnQueryDuplicate(k, c) =>
              \A i \in DOMAIN serverConfig : serverConfig[i].ttype = "FORWARD"
                                               => conns[k][serverConfig[i].id] # NoConn]_vars
=============================================================================

---------------------------- MODULE KeeperServer ----------------------------
(***************************************************************************)
(* A keeper (keeperserver/KeeperServer.cc): hands out the server ids of    *)
(* its configuration to the forward processes that ask for one, tells the  *)
(* hub about them, and relays between the hub and the forward servers.     *)
(*                                                                         *)
(* Two threads: the main loop serves the connection to the hub, one I/O    *)
(* thread (threads = 1) the connections of the forward processes.  They    *)
(* share conns_ and hubConn_ under mutexes; serverStart_ belongs to the    *)
(* I/O thread.  onQuery publishes a forward server to the hub before it    *)
(* enters its connection in conns_, so it is two steps here.               *)
(***************************************************************************)
EXTENDS Net

VARIABLES serverStart,     \* serverStart[k]: serverStart_
          conns,           \* conns[k]: conns_, a missing key mapped to NoConn
          keeperHubConn,   \* keeperHubConn[k]: hubConn_
          starting         \* starting[k]: where the I/O thread is inside onQuery

keeperVars == <<serverStart, conns, keeperHubConn, starting>>

NotStarting == [conn |-> NoConn]

ServerStart == [id : ServerIds, start : BOOLEAN, connName : KeeperForwardConns]

KeeperInit == /\ serverStart = [k \in Keepers |-> <<>>]
              /\ conns = [k \in Keepers |-> [id \in ServerIds |-> NoConn]]
              /\ keeperHubConn = [k \in Keepers |-> NoConn]
              /\ starting = [k \in Keepers |-> NotStarting]

isStarted(k, id) == \E i \in DOMAIN serverStart[k] : serverStart[k][i].id = id /\ serverStart[k][i].start

(* Mutant: a new entry is not marked as started. *)
setStartedLater(list, id, start, conn) == Append(list, [id |-> id, start |-> FALSE, connName |-> conn])

(* An id that has an entry keeps its connection name; ids are unique.      *)
setStarted(list, id, start, conn) ==
    IF \E i \in DOMAIN list : list[i].id = id
    THEN [i \in DOMAIN list |-> IF list[i].id = id THEN [list[i] EXCEPT !.start = start] ELSE list[i]]
    ELSE Append(list, [id |-> id, start |-> start, connName |-> conn])

KeeperSendToHub(q, k, m)         == SendC(q, keeperHubConn[k], m)
KeeperSendToForward(q, k, id, m) == SendS(q, conns[k][id], m)

UpdateForwardConns(k, id, oper) == [type |-> "HubKeeperUpdateForwardConns", keeperserverid |-> k,
                                    forwardserverid |-> id, oper |-> oper]

IOThreadIdle(k) == starting[k] = NotStarting

-----------------------------------------------------------------------------
(* hubClient_ connects or reconnects; onHubConnection: UP.  The forward    *)
(* servers that are already started are not announced again.               *)
KeeperConnectHub(k, c) ==
    /\ Owner(c) = k
    /\ Connected(c, [type |-> "HubConnectionData", servertype |-> "KEEPER", serverid |-> k])
    /\ srv' = [srv EXCEPT ![c] = "up"]
    /\ keeperHubConn' = [keeperHubConn EXCEPT ![k] = c]
    /\ UNCHANGED <<s2c, lost, faults, serverStart, conns, starting>>

(* Mutant: hubConn_ is not reset. *)
KeeperKeepsHubConn(k, c) ==
    /\ Owner(c) = k
    /\ ClosesC(c)
    /\ CloseC(c)
    /\ UNCHANGED <<srv, lost, faults, keeperVars>>

(* onHubConnection: DOWN. *)
KeeperOnHubConnectionDown(k, c) ==
    /\ Owner(c) = k
    /\ ClosesC(c)
    /\ CloseC(c)
    /\ keeperHubConn' = [keeperHubConn EXCEPT ![k] = NoConn]
    /\ UNCHANGED <<srv, lost, faults, serverStart, conns, starting>>

(* Mutant: the hub is not told that the forward server is gone. *)
KeeperForgetsRemove(k, c) ==
    /\ KeeperOf[Owner(c)] = k
    /\ IOThreadIdle(k)
    /\ ClosesS(c)
    /\ CloseS(c)
    /\ c2s' = Drained(c2s, c)
    /\ conns' = [conns EXCEPT ![k] = [id \in ServerIds |-> IF @[id] = c THEN NoConn ELSE @[id]]]
    /\ UNCHANGED <<cli, lost, faults, serverStart, keeperHubConn, starting>>

(* onConnection: DOWN.  The entry of serverStart_ that belongs to the      *)
(* connection is found at index i, and setStarted is called with the id at *)
(* index i of serverConfig_.  A connection asks for one id only, so conns_ *)
(* holds it at most once.                                                  *)
KeeperOnConnectionDown(k, c) ==
    /\ KeeperOf[Owner(c)] = k
    /\ IOThreadIdle(k)
    /\ ClosesS(c)
    /\ CloseS(c)
    /\ LET mine == {i \in DOMAIN serverStart[k] : serverStart[k][i].connName = c /\ serverStart[k][i].start}
           i    == Min(mine)
       IN  IF mine = {}
           THEN c2s' = Drained(c2s, c) /\ UNCHANGED serverStart
           ELSE /\ c2s' = KeeperSendToHub(Drained(c2s, c), k, UpdateForwardConns(k, serverStart[k][i].id, "REMOVE"))
                /\ serverStart' = [serverStart EXCEPT ![k] = setStarted(@, serverConfig[i].id, FALSE, c)]
    /\ conns' = [conns EXCEPT ![k] = [id \in ServerIds |-> IF @[id] = c THEN NoConn ELSE @[id]]]
    /\ UNCHANGED <<cli, lost, faults, keeperHubConn, starting>>

(* The first configured server of the type asked for that is not started.  *)
Eligible(k, ttype) == {i \in DOMAIN serverConfig : /\ serverConfig[i].ttype = ttype
                                                   /\ ~isStarted(k, serverConfig[i].id)}

(* onQuery up to setStarted: the answer to the forward process, ADD to the *)
(* hub, the entry in serverStart_.                                         *)
KeeperOnQuery(k, c) ==
    /\ KeeperOf[Owner(c)] = k
    /\ IOThreadIdle(k)
    /\ ReadsS(c, "KeeperQuery")
    /\ LET free == Eligible(k, Head(c2s[c]).servertype)
           id   == serverConfig[Min(free)].id
       IN  /\ free # {}
           /\ s2c' = SendS(s2c, c, [type |-> "KeeperAnswer", keeperserverid |-> k, serverid |-> id])
           /\ c2s' = KeeperSendToHub(Recv(c2s, c), k, UpdateForwardConns(k, id, "ADD"))
           /\ serverStart' = [serverStart EXCEPT ![k] = setStarted(@, id, TRUE, c)]
           /\ starting' = [starting EXCEPT ![k] = [id |-> id, conn |-> c]]
    /\ UNCHANGED <<cli, srv, lost, faults, conns, keeperHubConn>>

(* Mutant: the index of serverStart_ used for serverConfig_. *)
KeeperOnQueryDoneWrongId(k) ==
    /\ ~IOThreadIdle(k)
    /\ conns' = [conns EXCEPT ![k][serverConfig[Len(serverStart[k])].id] = starting[k].conn]
    /\ starting' = [starting EXCEPT ![k] = NotStarting]
    /\ UNCHANGED <<netVars, serverStart, keeperHubConn>>

(* The rest of onQuery: the connection is entered in conns_. *)
KeeperOnQueryDone(k) ==
    /\ ~IOThreadIdle(k)
    /\ conns' = [conns EXCEPT ![k][starting[k].id] = starting[k].conn]
    /\ starting' = [starting EXCEPT ![k] = NotStarting]
    /\ UNCHANGED <<netVars, serverStart, keeperHubConn>>

(* onQuery when no server is left to hand out: "Server Start Duplicate".   *)
KeeperOnQueryDuplicate(k, c) ==
    /\ KeeperOf[Owner(c)] = k
    /\ IOThreadIdle(k)
    /\ ReadsS(c, "KeeperQuery")
    /\ Eligible(k, Head(c2s[c]).servertype) = {}
    /\ ShutdownS(c, s2c)
    /\ c2s' = Recv(c2s, c)
    /\ UNCHANGED <<cli, lost, faults, keeperVars>>

KeeperOnKeeperForwardLogonSessionRet(k, c) ==
    /\ KeeperOf[Owner(c)] = k
    /\ IOThreadIdle(k)
    /\ ReadsS(c, "KeeperForwardLogonSessionRet")
    /\ LET m == Head(c2s[c])
       IN  c2s' = KeeperSendToHub(Recv(c2s, c), k, [type |-> "HubKeeperLogonSessionRet", uid |-> m.uid,
                                              connname |-> m.connname, forward |-> m.forward,
                                              session |-> m.session])
    /\ UNCHANGED <<cli, srv, s2c, lost, faults, keeperVars>>

KeeperOnKeeperForwardUpdateForwardConns(k, c) ==
    /\ KeeperOf[Owner(c)] = k
    /\ IOThreadIdle(k)
    /\ ReadsS(c, "KeeperForwardUpdateForwardConns")
    /\ LET m == Head(c2s[c])
       IN  c2s' = KeeperSendToHub(Recv(c2s, c), k, UpdateForwardConns(m.keeperserverid, m.forwardserverid, m.oper))
    /\ UNCHANGED <<cli, srv, s2c, lost, faults, keeperVars>>

(* In the main loop, whatever the I/O thread is doing. *)
KeeperOnHubKeeperLogonSession(k, c) ==
    /\ Owner(c) = k
    /\ ReadsC(c, "HubKeeperLogonSession")
    /\ LET m == Head(s2c[c])
       IN  s2c' = KeeperSendToForward(Recv(s2c, c), k, m.forwardserverid,
                                [type |-> "KeeperForwardLogonSession", uid |-> m.uid, connname |-> m.connname])
    /\ UNCHANGED <<cli, srv, c2s, lost, faults, keeperVars>>

KeeperRestart(k) ==
    /\ MayRestart("keeper")
    /\ Die({c \in HubKeeperConns : Owner(c) = k}, {c \in KeeperForwardConns : KeeperOf[Owner(c)] = k})
    /\ serverStart' = [serverStart EXCEPT ![k] = <<>>]
    /\ conns' = [conns EXCEPT ![k] = [id \in ServerIds |-> NoConn]]
    /\ keeperHubConn' = [keeperHubConn EXCEPT ![k] = NoConn]
    /\ starting' = [starting EXCEPT ![k] = NotStarting]

KeeperStep(k) ==
    \/ \E c \in HubKeeperConns : \/ KeeperConnectHub(k, c)
                                 \/ KeeperOnHubConnectionDown(k, c)
                                 \/ KeeperOnHubKeeperLogonSession(k, c)
    \/ \E c \in KeeperForwardConns : \/ KeeperOnConnectionDown(k, c)
                                     \/ KeeperOnQuery(k, c)
                                     \/ KeeperOnQueryDuplicate(k, c)
                                     \/ KeeperOnKeeperForwardLogonSessionRet(k, c)
                                     \/ KeeperOnKeeperForwardUpdateForwardConns(k, c)
    \/ KeeperOnQueryDone(k)
    \/ KeeperRestart(k)
=============================================================================

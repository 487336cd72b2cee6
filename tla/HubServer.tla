----------------------------- MODULE HubServer -----------------------------
(***************************************************************************)
(* The hub (hubserver/HubServer.cc): the meeting point of the logon server *)
(* and the keepers.  It keeps the connection of each, and per keeper the   *)
(* list of its forward servers with their load, from which it picks the    *)
(* forward server of every logon.  All of it runs in one I/O thread        *)
(* (threads = 1 in luaconfig/hubServer.lua), so one handler is one step.   *)
(***************************************************************************)
EXTENDS Net, SequencesExt

VARIABLES logonConn,     \* logonConn_
          keeperConns,   \* keeperConns_, a missing key mapped to NoConn
          forwardConns   \* forwardConns_, a missing key mapped to <<>>

hubVars == <<logonConn, keeperConns, forwardConns>>

HubStart == /\ logonConn' = NoConn
            /\ keeperConns' = [k \in Keepers |-> NoConn]
            /\ forwardConns' = [k \in Keepers |-> <<>>]

HubInit == /\ logonConn = NoConn
           /\ keeperConns = [k \in Keepers |-> NoConn]
           /\ forwardConns = [k \in Keepers |-> <<>>]

HubSendToKeeper(q, k, m) == SendS(q, keeperConns[k], m)
HubSendToLogon(q, m)    == SendS(q, logonConn, m)

-----------------------------------------------------------------------------
(* onConnection for a connection that is down: whoever is registered with *)
(* exactly this connection is forgotten.  forwardConns_ is left alone.     *)
HubOnConnectionDown(c) ==
    /\ ClosesS(c)
    /\ CloseS(c)
    /\ c2s' = Drained(c2s, c)
    /\ IF logonConn = c
       THEN logonConn' = NoConn /\ UNCHANGED keeperConns
       ELSE /\ keeperConns' = [k \in Keepers |-> IF keeperConns[k] = c THEN NoConn ELSE keeperConns[k]]
            /\ UNCHANGED logonConn
    /\ UNCHANGED <<cli, lost, faults, forwardConns>>

HubOnHubConnectionData(c) ==
    /\ ReadsS(c, "HubConnectionData")
    /\ LET m == Head(c2s[c])
       IN  \/ /\ m.servertype = "LOGON"
              /\ logonConn' = c
              /\ UNCHANGED keeperConns
           \/ /\ m.servertype = "KEEPER"
              /\ keeperConns' = [keeperConns EXCEPT ![m.serverid] = c]
              /\ UNCHANGED logonConn
    /\ c2s' = Recv(c2s, c)
    /\ UNCHANGED <<cli, srv, s2c, lost, faults, forwardConns>>

HubOnHubKeeperLogonSessionRet(c) ==
    /\ ReadsS(c, "HubKeeperLogonSessionRet")
    /\ LET m == Head(c2s[c])
       IN  s2c' = HubSendToLogon(s2c, [type |-> "HubLogonAnswerForwardID", uid |-> m.uid,
                                    connname |-> m.connname, forward |-> m.forward,
                                    session |-> m.session])
    /\ c2s' = Recv(c2s, c)
    /\ UNCHANGED <<cli, srv, lost, faults, hubVars>>

(* The values of numConnections, a uint16_t. *)
UInt16 == {n \in Nat : n < 65536}

(* Mutant: numConnections as a signed integer. *)
SignedDecremented(n) == n - 1

(* ++numConnections, --numConnections. *)
Incremented(n) == (n + 1) % 65536
Decremented(n) == (n + 65535) % 65536

(* The list after an update: ADD appends a fresh entry whether or not the  *)
(* id is already there, the others act on the first entry with that id.    *)
(* (After a REMOVE the code reads the erased entry once more, only to log  *)
(* it.)                                                                    *)
UpdatedForwardList(list, oper, id) ==
    LET hits == {n \in DOMAIN list : list[n].id = id}
        i    == Min(hits)
    IN  CASE oper = "ADD" -> Append(list, [id |-> id, numConnections |-> 0])
          [] oper # "ADD" /\ hits = {} -> list
          [] oper = "REMOVE" /\ hits # {} -> RemoveAt(list, i)
          [] oper = "INC" /\ hits # {} -> [list EXCEPT ![i].numConnections = Incremented(@)]
          [] oper = "DEC" /\ hits # {} -> [list EXCEPT ![i].numConnections = Decremented(@)]

HubOnHubKeeperUpdateForwardConns(c) ==
    /\ ReadsS(c, "HubKeeperUpdateForwardConns")
    /\ LET m == Head(c2s[c])
       IN  forwardConns' = [forwardConns EXCEPT
                              ![m.keeperserverid] = UpdatedForwardList(@, m.oper, m.forwardserverid)]
    /\ c2s' = Recv(c2s, c)
    /\ UNCHANGED <<cli, srv, s2c, lost, faults, logonConn, keeperConns>>

(* std::min_element: the first entry with the fewest connections. *)
LeastLoaded(list) ==
    LET least == {i \in DOMAIN list :
                    \A j \in DOMAIN list : list[i].numConnections <= list[j].numConnections}
    IN  list[Min(least)]

(* A query for a keeper with no forward server known is not answered. *)
HubOnHubLogonQueryForwardID(c) ==
    /\ ReadsS(c, "HubLogonQueryForwardID")
    /\ LET m == Head(c2s[c])
           k == m.keeperserverid
       IN  IF k \in Keepers /\ forwardConns[k] # <<>>
           THEN s2c' = HubSendToKeeper(s2c, k, [type |-> "HubKeeperLogonSession", uid |-> m.uid,
                                             connname |-> m.connname,
                                             forwardserverid |-> LeastLoaded(forwardConns[k]).id])
           ELSE UNCHANGED s2c
    /\ c2s' = Recv(c2s, c)
    /\ UNCHANGED <<cli, srv, lost, faults, hubVars>>

HubRestart == /\ MayRestart("hub")
              /\ Die({}, HubConns)
              /\ HubStart

HubStep == \/ \E c \in HubConns : \/ HubOnConnectionDown(c)
                                  \/ HubOnHubConnectionData(c)
                                  \/ HubOnHubKeeperLogonSessionRet(c)
                                  \/ HubOnHubKeeperUpdateForwardConns(c)
                                  \/ HubOnHubLogonQueryForwardID(c)
           \/ HubRestart
=============================================================================

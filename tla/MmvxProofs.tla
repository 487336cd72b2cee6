----------------------------- MODULE MmvxProofs -----------------------------
(***************************************************************************)
(* Type correctness of the whole cluster, under every fault. TypeOK is not *)
(* inductive: that a report carries a configured id needs that the         *)
(* ForwardServer that sends it exists, that a task carries a name needs    *)
(* that open connections are named, and that the id a keeper clears is     *)
(* configured needs that serverStart_ has no duplicates. TypeInv adds      *)
(* these (WellFormed), and that every request for a session that is in     *)
(* flight has been verified (Mail), which the proofs about sessions use.   *)
(*                                                                         *)
(* The first part has lemmas about the operators the model is built from:  *)
(* the kinds of connections, the messages and the queues that hold them,   *)
(* the hub's list of forward servers and the keeper's serverStart_.        *)
(***************************************************************************)
EXTENDS Mmvx, TLAPS, FiniteSetTheorems, WellFoundedInduction, SequenceTheorems

(* The five kinds of connections are told apart by their first component. *)
LEMMA ConnKinds ==
  /\ \A c \in HubKeeperConns : c \in Conns /\ c \in HubConns /\ c[1] = "hubkeeper" /\ c[2] \in Keepers
  /\ \A c \in HubLogonConns : c \in Conns /\ c \in HubConns /\ c[1] = "hublogon"
  /\ \A c \in KeeperForwardConns : c \in Conns /\ c[1] = "keeperforward" /\ c[2] \in Forwards
  /\ \A c \in LogonConns : c \in Conns /\ c[1] = "clientlogon"
  /\ \A c \in ForwardConns : c \in Conns /\ c[1] = "clientforward"
  /\ \A c \in HubConns : c \in Conns /\ c[1] \in {"hubkeeper", "hublogon"}
BY DEF Conns, HubConns, HubKeeperConns, HubLogonConns, KeeperForwardConns, LogonConns, ForwardConns

(* The null TcpConnectionPtr is not a connection. *)
LEMMA NoConnNotConn == NoConn \notin Conns
<1> SUFFICES ASSUME NoConn \in Conns PROVE FALSE
  OBVIOUS
<1>1. DOMAIN NoConn = 1..3
  BY DEF Conns, HubConns, HubKeeperConns, HubLogonConns, KeeperForwardConns, LogonConns, ForwardConns
<1>2. DOMAIN NoConn = 1..1
  BY DEF NoConn
<1>3. 3 \in 1..3 /\ 3 \notin 1..1
  OBVIOUS
<1> QED
  BY <1>1, <1>2, <1>3

(* The least element of a set of natural numbers, which the loops that     *)
(* stop at the first match find.                                           *)
LEMMA MinProperty ==
  ASSUME NEW S \in SUBSET Nat, S # {}
  PROVE  Min(S) \in S /\ \A y \in S : Min(S) <= y
<1> DEFINE R == {ss \in Nat \X Nat : ss[1] < ss[2]}
<1>0. R = OpToRel(<, Nat)
  BY DEF OpToRel
<1>1. IsWellFoundedOn(R, Nat)
  BY <1>0, NatLessThanWellFounded
<1> HIDE DEF R
<1>2. PICK x \in S : \A y \in S : ~(<<y, x>> \in R)
  BY <1>1, WFMin
<1>3. ASSUME NEW y \in S PROVE x <= y
  <2>1. x \in Nat /\ y \in Nat /\ <<y, x>> \notin R
    BY <1>2
  <2>2. <<y, x>> \in Nat \X Nat /\ <<y, x>>[1] = y /\ <<y, x>>[2] = x
    BY <2>1
  <2>3. ~(y < x)
    BY <2>1, <2>2 DEF R
  <2> QED
    BY <2>1, <2>3
<1> QED
  BY <1>3 DEF Min

-----------------------------------------------------------------------------
(* The messages on the way from a verified password to the session of its  *)
(* uid, and back to the logon server.                                      *)
Certificates == {"HubLogonQueryForwardID", "HubKeeperLogonSession", "KeeperForwardLogonSession",
                 "KeeperForwardLogonSessionRet", "HubKeeperLogonSessionRet", "HubLogonAnswerForwardID"}

(* The messages that may be in flight when v has been verified. *)
Vetted(v) == {m \in Message : m.type \in Certificates => [uid |-> m.uid, connname |-> m.connname] \in v}

(* Messages without fields from other messages are vetted, whatever has    *)
(* been verified.                                                          *)
LEMMA PlainMessages ==
  ASSUME NEW v
  PROVE  /\ FIN \in Vetted(v)
         /\ [type |-> "HubConnectionData", servertype |-> "LOGON"] \in Vetted(v)
         /\ \A k \in Keepers : [type |-> "HubConnectionData", servertype |-> "KEEPER", serverid |-> k] \in Vetted(v)
         /\ [type |-> "KeeperQuery", servertype |-> "FORWARD"] \in Vetted(v)
         /\ \A k \in Keepers : \A id \in ServerIds :
               [type |-> "KeeperAnswer", keeperserverid |-> k, serverid |-> id] \in Vetted(v)
         /\ \A u \in Uids : [type |-> "LogonRet", status |-> "FAILED", uid |-> u] \in Vetted(v)
BY DEF Vetted, Certificates, Message, FIN

(* The ADD, REMOVE, INC and DEC reports about a forward server are vetted. *)
LEMMA UpdateMessages ==
  ASSUME NEW v, NEW k \in Keepers, NEW id \in ServerIds, NEW oper \in {"ADD", "REMOVE", "INC", "DEC"}
  PROVE  /\ [type |-> "HubKeeperUpdateForwardConns", keeperserverid |-> k,
             forwardserverid |-> id, oper |-> oper] \in Vetted(v)
         /\ [type |-> "KeeperForwardUpdateForwardConns", keeperserverid |-> k,
             forwardserverid |-> id, oper |-> oper] \in Vetted(v)
BY DEF Vetted, Certificates, Message

(* The three messages that ask for a session, and the three that carry it  *)
(* back, are vetted once their pair of uid and connection name is.         *)
LEMMA CertificateMessages ==
  ASSUME NEW v, NEW u \in Uids, NEW n \in Names, [uid |-> u, connname |-> n] \in v
  PROVE  /\ \A c \in Clients : [type |-> "HubLogonQueryForwardID", uid |-> u, connname |-> n,
                                keeperserverid |-> ClientKeeper[c]] \in Vetted(v)
         /\ \A id \in ServerIds : [type |-> "HubKeeperLogonSession", uid |-> u, connname |-> n,
                                   forwardserverid |-> id] \in Vetted(v)
         /\ [type |-> "KeeperForwardLogonSession", uid |-> u, connname |-> n] \in Vetted(v)
         /\ \A t \in {"KeeperForwardLogonSessionRet", "HubKeeperLogonSessionRet", "HubLogonAnswerForwardID"} :
               \A f \in ServerIds : \A s \in Sessions :
                  [type |-> t, uid |-> u, connname |-> n, forward |-> f, session |-> s] \in Vetted(v)
BY DEF Vetted, Certificates, Message

(* The LogonRet that gives a client its session, and the client's          *)
(* LogonForward, are vetted.                                               *)
LEMMA SessionMessages ==
  ASSUME NEW v, NEW u \in Uids, NEW f \in ServerIds, NEW s \in Sessions
  PROVE  /\ [type |-> "LogonRet", status |-> "SUCCESS", uid |-> u, forward |-> f, session |-> s] \in Vetted(v)
         /\ [type |-> "LogonForward", uid |-> u, session |-> s] \in Vetted(v)
BY DEF Vetted, Certificates, Message

(* A client's Logon is vetted: it certifies nothing. *)
LEMMA LogonMessage ==
  ASSUME NEW v, NEW c \in Clients
  PROVE  [type |-> "Logon", uid |-> ClientUid[c], passwd |-> ClientPasswd[c],
          keeperserverid |-> ClientKeeper[c]] \in Vetted(v)
BY ClientAssumption DEF Vetted, Certificates, Message

(* What a handler may rely on in the fields of a message of its type. *)
LEMMA MessageFields ==
  ASSUME NEW v, NEW m \in Vetted(v)
  PROVE  /\ m.type = "HubConnectionData" => m.servertype = "LOGON" \/ m.serverid \in Keepers
         /\ m.type \in {"HubKeeperUpdateForwardConns", "KeeperForwardUpdateForwardConns"} =>
               /\ m.keeperserverid \in Keepers
               /\ m.forwardserverid \in ServerIds
               /\ m.oper \in {"ADD", "REMOVE", "INC", "DEC"}
         /\ m.type = "KeeperAnswer" => m.serverid \in ServerIds
         /\ m.type = "Logon" => /\ m.uid \in Nat
                                /\ m.passwd \in {ClientPasswd[c] : c \in Clients}
                                /\ m.keeperserverid \in {ClientKeeper[c] : c \in Clients}
         /\ m.type \in Certificates => /\ m.uid \in Uids
                                       /\ m.connname \in Names
                                       /\ [uid |-> m.uid, connname |-> m.connname] \in v
         /\ m.type = "HubKeeperLogonSession" => m.forwardserverid \in ServerIds
         /\ m.type \in {"KeeperForwardLogonSessionRet", "HubKeeperLogonSessionRet", "HubLogonAnswerForwardID"} =>
               /\ m.uid \in Uids
               /\ m.connname \in Names
               /\ m.forward \in ServerIds
               /\ m.session \in Sessions
         /\ m.type = "LogonRet" /\ m.status = "SUCCESS" =>
               m.uid \in Uids /\ m.forward \in ServerIds /\ m.session \in Sessions
         /\ m.type = "LogonForward" => m.uid \in Uids /\ m.session \in Sessions
BY DEF Vetted, Certificates, Message, FIN

(* A message stays vetted when more is verified. *)
LEMMA VettedMonotone ==
  ASSUME NEW v, NEW w, v \subseteq w
  PROVE  Vetted(v) \subseteq Vetted(w) /\ Vetted(v) \subseteq Message
BY DEF Vetted

-----------------------------------------------------------------------------
(* Queues of messages from M, one per connection. *)
Queues(M) == [Conns -> Seq(M)]

(* TcpConnection::send puts a message in the queue or leaves the queues as *)
(* they are.                                                               *)
LEMMA SendType ==
  ASSUME NEW M, NEW q \in Queues(M), NEW c \in Conns \cup {NoConn}, NEW m \in M
  PROVE  SendS(q, c, m) \in Queues(M) /\ SendC(q, c, m) \in Queues(M)
BY DEF SendS, CanSendS, SendC, CanSendC, Queues

(* Reading takes the first message of a queue that is not empty. *)
LEMMA RecvType ==
  ASSUME NEW M, NEW q \in Queues(M), NEW c \in Conns, q[c] # <<>>
  PROVE  Recv(q, c) \in Queues(M) /\ Head(q[c]) \in M
BY DEF Recv, Queues

(* Closing an end discards its queue. *)
LEMMA DrainedType ==
  ASSUME NEW M, NEW q \in Queues(M), NEW c \in Conns
  PROVE  Drained(q, c) \in Queues(M)
BY DEF Drained, Queues

(* The death of a process discards the queues to it. *)
LEMMA EmptiedType ==
  ASSUME NEW M, NEW q \in Queues(M), NEW E
  PROVE  Emptied(q, E) \in Queues(M)
BY DEF Emptied, Queues

(* A new connection starts with the message its TcpClient sends when it is *)
(* up.                                                                     *)
LEMMA SetType ==
  ASSUME NEW M, NEW q \in Queues(M), NEW c \in Conns, NEW m \in M
  PROVE  [q EXCEPT ![c] = <<m>>] \in Queues(M)
BY DEF Queues

(* A burst of n equal messages, of which there may be none. *)
LEMMA RepeatedType ==
  ASSUME NEW M, NEW q \in Queues(M), NEW c \in Conns, NEW n \in Nat, NEW m, n # 0 => m \in M
  PROVE  [q EXCEPT ![c] = @ \o [i \in 1..n |-> m]] \in Queues(M)
<1>1. [i \in 1..n |-> m] \in Seq(M)
  <2>1. \A i \in 1..n : m \in M
    OBVIOUS
  <2> QED
    BY <2>1
<1>2. q[c] \o [i \in 1..n |-> m] \in Seq(M)
  BY <1>1 DEF Queues
<1> QED
  BY <1>2 DEF Queues

(* More messages allowed, more queues allowed. *)
LEMMA QueuesMonotone ==
  ASSUME NEW M, NEW N, M \subseteq N
  PROVE  Queues(M) \subseteq Queues(N)
<1>1. Seq(M) \subseteq Seq(N)
  OBVIOUS
<1> QED
  BY <1>1 DEF Queues

-----------------------------------------------------------------------------
(* An element of the hub's list, ForwardServerData. *)
ForwardEntry == [id : ServerIds, numConnections : UInt16]

(* A uint16_t counter stays one when it is incremented or decremented, at  *)
(* its bounds too.                                                         *)
LEMMA CountType ==
  ASSUME NEW n \in UInt16
  PROVE  Incremented(n) \in UInt16 /\ Decremented(n) \in UInt16
BY DEF Incremented, Decremented, UInt16

(* Writing the counter of one entry leaves a list of entries. *)
LEMMA RecountedType ==
  ASSUME NEW list \in Seq(ForwardEntry), NEW i \in DOMAIN list, NEW n \in UInt16
  PROVE  [list EXCEPT ![i].numConnections = n] \in Seq(ForwardEntry)
<1> DEFINE e == [list[i] EXCEPT !.numConnections = n]
<1>1. list[i] \in ForwardEntry
  OBVIOUS
<1>2. e \in ForwardEntry
  BY <1>1 DEF ForwardEntry
<1> HIDE DEF e
<1>3. [list EXCEPT ![i] = e] \in Seq(ForwardEntry)
  BY <1>2
<1> QED
  BY <1>3 DEF e

(* HubServer::onHubKeeperUpdateForwardConns leaves a list of entries,      *)
(* whether or not the id is listed.                                        *)
LEMMA UpdatedForwardListType ==
  ASSUME NEW list \in Seq(ForwardEntry), NEW id \in ServerIds, NEW oper \in {"ADD", "REMOVE", "INC", "DEC"}
  PROVE  UpdatedForwardList(list, oper, id) \in Seq(ForwardEntry)
<1> DEFINE hits == {n \in DOMAIN list : list[n].id = id}
           i    == Min(hits)
<1>1. hits # {} => i \in DOMAIN list
  BY MinProperty
<1> HIDE DEF hits
<1>2. CASE oper = "ADD"
  <2>1. UpdatedForwardList(list, oper, id) = Append(list, [id |-> id, numConnections |-> 0])
    BY <1>2, Zenon DEF UpdatedForwardList
  <2>2. [id |-> id, numConnections |-> 0] \in ForwardEntry
    BY DEF ForwardEntry, UInt16
  <2> QED
    BY <2>1, <2>2
<1>3. CASE oper # "ADD" /\ hits = {}
  BY <1>3, Zenon DEF UpdatedForwardList, hits
<1>4. CASE oper = "REMOVE" /\ hits # {}
  <2>1. UpdatedForwardList(list, oper, id) = RemoveAt(list, i)
    BY <1>4, Zenon DEF UpdatedForwardList, hits
  <2>2. SubSeq(list, 1, i - 1) \in Seq(ForwardEntry) /\ SubSeq(list, i + 1, Len(list)) \in Seq(ForwardEntry)
    BY <1>1, <1>4
  <2> QED
    BY <2>1, <2>2 DEF RemoveAt
<1>5. CASE oper = "INC" /\ hits # {}
  <2>1. UpdatedForwardList(list, oper, id) = [list EXCEPT ![i].numConnections = Incremented(@)]
    BY <1>5, Zenon DEF UpdatedForwardList, hits
  <2>2. i \in DOMAIN list /\ list[i] \in ForwardEntry
    BY <1>1, <1>5
  <2>3. Incremented(list[i].numConnections) \in UInt16
    BY <2>2, CountType DEF ForwardEntry
  <2> QED
    BY <2>1, <2>2, <2>3, RecountedType
<1>6. CASE oper = "DEC" /\ hits # {}
  <2>1. UpdatedForwardList(list, oper, id) = [list EXCEPT ![i].numConnections = Decremented(@)]
    BY <1>6, Zenon DEF UpdatedForwardList, hits
  <2>2. i \in DOMAIN list /\ list[i] \in ForwardEntry
    BY <1>1, <1>6
  <2>3. Decremented(list[i].numConnections) \in UInt16
    BY <2>2, CountType DEF ForwardEntry
  <2> QED
    BY <2>1, <2>2, <2>3, RecountedType
<1> QED
  BY <1>2, <1>3, <1>4, <1>5, <1>6

(* std::min_element on a list that is not empty finds the id of a          *)
(* configured server.                                                      *)
LEMMA LeastLoadedType ==
  ASSUME NEW list \in Seq(ForwardEntry), list # <<>>
  PROVE  LeastLoaded(list).id \in ServerIds
<1> DEFINE load  == {list[i].numConnections : i \in DOMAIN list}
           least == {i \in DOMAIN list :
                        \A j \in DOMAIN list : list[i].numConnections <= list[j].numConnections}
<1>1. \A i \in DOMAIN list : list[i] \in ForwardEntry /\ list[i].numConnections \in Nat
  <2>1. \A i \in DOMAIN list : list[i] \in ForwardEntry
    OBVIOUS
  <2> QED
    BY <2>1 DEF ForwardEntry, UInt16
<1>2. load \in SUBSET Nat /\ load # {}
  BY <1>1
<1>3. PICK i \in DOMAIN list : list[i].numConnections = Min(load)
  BY <1>2, MinProperty
<1>4. \A j \in DOMAIN list : Min(load) <= list[j].numConnections
  <2> SUFFICES ASSUME NEW j \in DOMAIN list PROVE Min(load) <= list[j].numConnections
    OBVIOUS
  <2>1. list[j].numConnections \in load
    OBVIOUS
  <2> HIDE DEF load
  <2> QED
    BY <1>2, <2>1, MinProperty
<1>5. least \in SUBSET Nat /\ least # {}
  BY <1>3, <1>4, SMTT(30)
<1>6. Min(least) \in DOMAIN list
  BY <1>5, MinProperty
<1> QED
  BY <1>1, <1>6 DEF LeastLoaded, ForwardEntry

-----------------------------------------------------------------------------
(* No id occurs twice in a list. *)
UniqueIds(list) == \A i, j \in DOMAIN list : list[i].id = list[j].id => i = j

(* KeeperServer::setStarted never enters an id twice. *)
LEMMA SetStartedType ==
  ASSUME NEW list \in Seq(ServerStart), UniqueIds(list), NEW id \in ServerIds, NEW start \in BOOLEAN,
         NEW c \in KeeperForwardConns
  PROVE  /\ setStarted(list, id, start, c) \in Seq(ServerStart)
         /\ UniqueIds(setStarted(list, id, start, c))
<1>1. CASE \E i \in DOMAIN list : list[i].id = id
  <2> DEFINE new == [i \in DOMAIN list |-> IF list[i].id = id THEN [list[i] EXCEPT !.start = start] ELSE list[i]]
  <2>1. setStarted(list, id, start, c) = new
    BY <1>1 DEF setStarted
  <2>2. \A i \in DOMAIN list : new[i] \in ServerStart /\ new[i].id = list[i].id
    <3>1. \A i \in DOMAIN list : list[i] \in ServerStart
      OBVIOUS
    <3> QED
      BY <3>1 DEF ServerStart
  <2>3. new \in Seq(ServerStart)
    BY <2>2
  <2>4. UniqueIds(new)
    BY <2>2 DEF UniqueIds
  <2> QED
    BY <2>1, <2>3, <2>4
<1>2. CASE ~\E i \in DOMAIN list : list[i].id = id
  <2> DEFINE e == [id |-> id, start |-> start, connName |-> c]
  <2>1. setStarted(list, id, start, c) = Append(list, e)
    BY <1>2 DEF setStarted
  <2>2. e \in ServerStart
    BY DEF ServerStart
  <2>3. Append(list, e) \in Seq(ServerStart)
    BY <2>2
  <2>4. UniqueIds(Append(list, e))
    <3> SUFFICES ASSUME NEW i \in 1..(Len(list) + 1), NEW j \in 1..(Len(list) + 1),
                        Append(list, e)[i].id = Append(list, e)[j].id
                 PROVE  i = j
      BY DEF UniqueIds
    <3>1. \A n \in DOMAIN list : Append(list, e)[n] = list[n] /\ list[n].id # id
      BY <1>2
    <3>2. Append(list, e)[Len(list) + 1].id = id
      OBVIOUS
    <3> QED
      BY <3>1, <3>2 DEF UniqueIds
  <2> QED
    BY <2>1, <2>3, <2>4
<1> QED
  BY <1>1, <1>2

(* An index into serverStart_ is an index into serverConfig_:              *)
(* KeeperServer::onConnection uses it for both. A list without duplicate   *)
(* ids is no longer than the configuration, by the pigeonhole principle.   *)
LEMMA ServerStartIndex ==
  ASSUME NEW list \in Seq(ServerStart), UniqueIds(list)
  PROVE  DOMAIN list \subseteq DOMAIN serverConfig
<1> DEFINE n == Len(list)
           m == Len(serverConfig)
           f == [i \in 1..n |-> list[i].id]
           g == [i \in 1..m |-> serverConfig[i].id]
<1>0. n \in Nat /\ m \in Nat /\ DOMAIN list = 1..n /\ DOMAIN serverConfig = 1..m
  BY ConfigAssumption
<1>1. f \in Injection(1..n, ServerIds)
  <2>1. \A i \in 1..n : list[i] \in ServerStart
    OBVIOUS
  <2>2. f \in [1..n -> ServerIds]
    BY <2>1 DEF ServerStart
  <2>3. \A a, b \in 1..n : f[a] = f[b] => a = b
    BY <1>0 DEF UniqueIds
  <2> HIDE DEF f
  <2> QED
    BY <2>2, <2>3 DEF Injection, IsInjective
<1>2. g \in Surjection(1..m, ServerIds)
  <2>1. ServerIds = {serverConfig[i].id : i \in 1..m}
    BY <1>0 DEF ServerIds
  <2>2. g \in [1..m -> ServerIds]
    BY <2>1
  <2>3. \A t \in ServerIds : \E i \in 1..m : g[i] = t
    BY <2>1
  <2> HIDE DEF g
  <2> QED
    BY <2>2, <2>3 DEF Surjection
<1>3. IsFiniteSet(1..m) /\ Cardinality(1..m) = m /\ Cardinality(1..n) = n
  <2> HIDE DEF m, n
  <2> QED
    BY <1>0, FS_Interval
<1>4. IsFiniteSet(ServerIds) /\ Cardinality(ServerIds) <= m
  BY <1>2, <1>3, FS_Surjection
<1>5. n <= Cardinality(ServerIds)
  BY <1>1, <1>3, <1>4, FS_Injection
<1>6. Cardinality(ServerIds) \in Nat
  BY <1>4, FS_CardinalityType
<1> QED
  BY <1>0, <1>4, <1>5, <1>6

-----------------------------------------------------------------------------
(* The ends of the connections and the number of faults have their types. *)
Ends == /\ cli \in [Conns -> EndState]
        /\ srv \in [Conns -> EndState]
        /\ lost \in [Conns -> BOOLEAN]
        /\ faults \in 0..MaxFaults

(* Every message in flight is vetted. *)
Mail == /\ c2s \in Queues(Vetted(verified))
        /\ s2c \in Queues(Vetted(verified))

(* The inductive invariant. *)
TypeInv == /\ Ends
           /\ Mail
           /\ HubTypeOK
           /\ KeeperTypeOK
           /\ ForwardTypeOK
           /\ LogonTypeOK
           /\ ClientTypeOK
           /\ WellFormed

(* The inductive invariant implies the type invariant the runs check. *)
LEMMA TypeInvImpliesTypeOK == TypeInv => TypeOK
<1> SUFFICES ASSUME TypeInv PROVE NetTypeOK
  BY DEF TypeInv, TypeOK
<1>1. Queues(Vetted(verified)) \subseteq Queues(Message)
  BY VettedMonotone, QueuesMonotone
<1> QED
  BY <1>1 DEF TypeInv, Ends, Mail, NetTypeOK, Queues

(* The inductive invariant holds when run.sh has just started the servers. *)
LEMMA InitTypeInv == Init => TypeInv
<1> SUFFICES ASSUME Init PROVE TypeInv
  OBVIOUS
<1> USE DEF Init
<1>1. Ends /\ Mail
  BY NetAssumption DEF NetInit, Ends, Mail, EndState, Queues
<1>2. HubTypeOK
  BY DEF HubInit, HubTypeOK, Opt
<1>3. KeeperTypeOK
  BY DEF KeeperInit, KeeperTypeOK, Opt
<1>4. ForwardTypeOK
  BY DEF ForwardInit, ForwardTypeOK, Opt
<1>5. LogonTypeOK
  BY LogonAssumption DEF LogonInit, LogonTypeOK, Opt
<1>6. ClientTypeOK
  BY DEF ClientInit, ClientTypeOK, Opt
<1>7. DistinctStarts
  BY DEF KeeperInit, DistinctStarts
<1>8. ServedByServer
  BY ForwardAssumption DEF ForwardInit, ServedByServer
<1>9. NamedConns
  BY ConnKinds DEF NetInit, LogonInit, NamedConns, Open
<1> QED
  BY <1>1, <1>2, <1>3, <1>4, <1>5, <1>6, <1>7, <1>8, <1>9 DEF TypeInv, WellFormed

-----------------------------------------------------------------------------
(* A message that an accepting end reads is vetted and of the type its     *)
(* handler is registered for.                                              *)
LEMMA ReadAtServer ==
  ASSUME TypeInv, NEW c \in Conns, NEW t, ReadsS(c, t)
  PROVE  /\ Head(c2s[c]) \in Vetted(verified)
         /\ Head(c2s[c]).type = t
         /\ Recv(c2s, c) \in Queues(Vetted(verified))
BY RecvType DEF TypeInv, Mail, ReadsS

(* A message that a connecting end reads is vetted and of the type its     *)
(* handler is registered for.                                              *)
LEMMA ReadAtClient ==
  ASSUME TypeInv, NEW c \in Conns, NEW t, ReadsC(c, t)
  PROVE  /\ Head(s2c[c]) \in Vetted(verified)
         /\ Head(s2c[c]).type = t
         /\ Recv(s2c, c) \in Queues(Vetted(verified))
BY RecvType DEF TypeInv, Mail, ReadsC

(* The step does not accept, open again or forget connection x. *)
Quiet(x) == /\ cli[x] # "none" => cli'[x] # "none"
            /\ srv[x] = "down" => srv'[x] = "down"
            /\ srv'[x] \in Open => srv[x] \in Open
            /\ srv'[x] # "none" => srv[x] # "none"

(* A step that is quiet on the client connections and destroys no          *)
(* ForwardServer keeps ServedByServer.                                     *)
LEMMA ServedStep ==
  ASSUME TypeInv, UNCHANGED peer, \A p \in Forwards : server[p] # NoServer => server'[p] # NoServer,
         \A x \in ForwardConns : Quiet(x)
  PROVE  ServedByServer'
BY DEF TypeInv, WellFormed, ServedByServer, Quiet

(* A step that is quiet on the logon connections and leaves clientConns_   *)
(* alone keeps NamedConns.                                                 *)
LEMMA NamedStep ==
  ASSUME TypeInv, UNCHANGED <<clientConns, nextConnId>>, \A x \in LogonConns : Quiet(x)
  PROVE  NamedConns'
BY DEF TypeInv, WellFormed, NamedConns, Quiet

(* What the death of a process does to the connections. *)
LEMMA DieType ==
  ASSUME TypeInv, NEW C, NEW S, Die(C, S), UNCHANGED verified
  PROVE  /\ cli' \in [Conns -> EndState]
         /\ srv' \in [Conns -> EndState]
         /\ lost' \in [Conns -> BOOLEAN]
         /\ Mail'
         /\ \A c \in Conns : /\ cli[c] # "none" => cli'[c] # "none"
                             /\ srv'[c] = IF c \in S /\ c \in Live THEN "down" ELSE srv[c]
<1>1. cli' \in [Conns -> EndState] /\ srv' \in [Conns -> EndState]
  BY DEF TypeInv, Ends, Die, Killed, EndState
<1>2. lost' \in [Conns -> BOOLEAN]
  BY Zenon DEF Die, LostAlso
<1>3. Mail'
  BY EmptiedType DEF TypeInv, Mail, Die
<1>4. \A c \in Conns : /\ cli[c] # "none" => cli'[c] # "none"
                       /\ srv'[c] = IF c \in S /\ c \in Live THEN "down" ELSE srv[c]
  BY DEF Die, Killed
<1> QED
  BY <1>1, <1>2, <1>3, <1>4

(* A restart is counted as a fault and stays within the bound. *)
LEMMA RestartFaults ==
  ASSUME Ends, NEW kind, MayRestart(kind)
  PROVE  faults' \in 0..MaxFaults
BY NetAssumption DEF Ends, MayRestart

(* The hub's handlers keep their own state, the connections and the        *)
(* messages typed.                                                         *)
LEMMA HubActions ==
  ASSUME TypeInv, HubStep, UNCHANGED verified
  PROVE  Ends' /\ Mail' /\ HubTypeOK' /\ \A x \in ForwardConns \cup LogonConns : Quiet(x)
<1> USE DEF TypeInv
<1> DEFINE Goal == Ends' /\ Mail' /\ HubTypeOK' /\ \A x \in ForwardConns \cup LogonConns : Quiet(x)
<1>0. /\ \A c \in HubConns : c \in Conns /\ \A x \in ForwardConns \cup LogonConns : x # c
      /\ \A x \in ForwardConns \cup LogonConns : x \in Conns /\ x \notin HubConns
  BY ConnKinds
<1>1. ASSUME NEW c \in HubConns, HubOnConnectionDown(c) PROVE Goal
  <2>1. Ends'
    BY <1>0, <1>1 DEF HubOnConnectionDown, CloseS, Ends, EndState
  <2>2. Mail'
    BY <1>0, <1>1, SendType, DrainedType, PlainMessages DEF HubOnConnectionDown, CloseS, Mail
  <2>3. HubTypeOK'
    BY <1>1 DEF HubOnConnectionDown, HubTypeOK, Opt
  <2>4. \A x \in ForwardConns \cup LogonConns : Quiet(x)
    BY <1>0, <1>1 DEF HubOnConnectionDown, CloseS, Ends, Quiet
  <2> QED
    BY <2>1, <2>2, <2>3, <2>4
<1>2. ASSUME NEW c \in HubConns, UNCHANGED <<cli, srv, lost, faults>>
      PROVE  Ends' /\ \A x \in ForwardConns \cup LogonConns : Quiet(x)
  BY <1>2 DEF Ends, Quiet
<1>3. ASSUME NEW c \in HubConns, HubOnHubConnectionData(c) PROVE Goal
  <2>1. /\ Head(c2s[c]) \in Vetted(verified)
        /\ Head(c2s[c]).type = "HubConnectionData"
        /\ Recv(c2s, c) \in Queues(Vetted(verified))
    BY <1>0, <1>3, ReadAtServer DEF HubOnHubConnectionData
  <2>2. Head(c2s[c]).servertype = "LOGON" \/ Head(c2s[c]).serverid \in Keepers
    BY <2>1, MessageFields
  <2>3. Mail'
    BY <1>3, <2>1 DEF HubOnHubConnectionData, Mail
  <2>4. HubTypeOK'
    BY <1>3, <2>2 DEF HubOnHubConnectionData, HubTypeOK, Opt
  <2> QED
    BY <1>2, <1>3, <2>3, <2>4 DEF HubOnHubConnectionData
<1>4. ASSUME NEW c \in HubConns, HubOnHubKeeperLogonSessionRet(c) PROVE Goal
  <2> DEFINE m == Head(c2s[c])
             r == [type |-> "HubLogonAnswerForwardID", uid |-> m.uid, connname |-> m.connname,
                   forward |-> m.forward, session |-> m.session]
  <2>1. m \in Vetted(verified) /\ m.type = "HubKeeperLogonSessionRet" /\ Recv(c2s, c) \in Queues(Vetted(verified))
    BY <1>0, <1>4, ReadAtServer DEF HubOnHubKeeperLogonSessionRet
  <2>2. r \in Vetted(verified)
    BY <2>1, MessageFields, CertificateMessages DEF Certificates
  <2>3. logonConn \in Conns \cup {NoConn}
    BY <1>0 DEF HubTypeOK, Opt
  <2>4. s2c' = SendS(s2c, logonConn, r) /\ c2s' = Recv(c2s, c)
    BY <1>4 DEF HubOnHubKeeperLogonSessionRet, HubSendToLogon
  <2> HIDE DEF m, r
  <2>5. Mail'
    BY <2>1, <2>2, <2>3, <2>4, SendType DEF Mail
  <2>6. HubTypeOK'
    BY <1>4 DEF HubOnHubKeeperLogonSessionRet, HubTypeOK, hubVars
  <2> QED
    BY <1>2, <1>4, <2>5, <2>6 DEF HubOnHubKeeperLogonSessionRet
<1>5. ASSUME NEW c \in HubConns, HubOnHubKeeperUpdateForwardConns(c) PROVE Goal
  <2> DEFINE m == Head(c2s[c])
  <2>1. m \in Vetted(verified) /\ m.type = "HubKeeperUpdateForwardConns" /\ Recv(c2s, c) \in Queues(Vetted(verified))
    BY <1>0, <1>5, ReadAtServer DEF HubOnHubKeeperUpdateForwardConns
  <2>2. /\ m.keeperserverid \in Keepers
        /\ m.forwardserverid \in ServerIds
        /\ m.oper \in {"ADD", "REMOVE", "INC", "DEC"}
    BY <2>1, MessageFields
  <2>3. forwardConns' = [forwardConns EXCEPT ![m.keeperserverid] = UpdatedForwardList(@, m.oper, m.forwardserverid)]
    BY <1>5 DEF HubOnHubKeeperUpdateForwardConns
  <2> HIDE DEF m
  <2>4. forwardConns \in [Keepers -> Seq(ForwardEntry)]
    BY DEF HubTypeOK, ForwardEntry
  <2>5. UpdatedForwardList(forwardConns[m.keeperserverid], m.oper, m.forwardserverid) \in Seq(ForwardEntry)
    BY <2>2, <2>4, UpdatedForwardListType
  <2>6. forwardConns' \in [Keepers -> Seq(ForwardEntry)]
    BY <2>3, <2>4, <2>5
  <2>7. HubTypeOK'
    BY <1>5, <2>6 DEF HubOnHubKeeperUpdateForwardConns, HubTypeOK, ForwardEntry
  <2>8. Mail'
    BY <1>5, <2>1 DEF HubOnHubKeeperUpdateForwardConns, Mail
  <2> QED
    BY <1>2, <1>5, <2>7, <2>8 DEF HubOnHubKeeperUpdateForwardConns
<1>6. ASSUME NEW c \in HubConns, HubOnHubLogonQueryForwardID(c) PROVE Goal
  <2> DEFINE m == Head(c2s[c])
             k == m.keeperserverid
             r == [type |-> "HubKeeperLogonSession", uid |-> m.uid, connname |-> m.connname,
                   forwardserverid |-> LeastLoaded(forwardConns[k]).id]
  <2>1. m \in Vetted(verified) /\ m.type = "HubLogonQueryForwardID" /\ Recv(c2s, c) \in Queues(Vetted(verified))
    BY <1>0, <1>6, ReadAtServer DEF HubOnHubLogonQueryForwardID
  <2>2. m.uid \in Uids /\ m.connname \in Names /\ [uid |-> m.uid, connname |-> m.connname] \in verified
    BY <2>1, MessageFields DEF Certificates
  <2>3. ASSUME k \in Keepers, forwardConns[k] # <<>>
        PROVE  r \in Vetted(verified) /\ keeperConns[k] \in Conns \cup {NoConn}
    <3>1. forwardConns[k] \in Seq(ForwardEntry) /\ keeperConns[k] \in Conns \cup {NoConn}
      BY <1>0, <2>3 DEF HubTypeOK, ForwardEntry, Opt
    <3>2. LeastLoaded(forwardConns[k]).id \in ServerIds
      BY <2>3, <3>1, LeastLoadedType
    <3> QED
      BY <2>2, <3>1, <3>2, CertificateMessages
  <2>4. /\ IF k \in Keepers /\ forwardConns[k] # <<>> THEN s2c' = SendS(s2c, keeperConns[k], r) ELSE s2c' = s2c
        /\ c2s' = Recv(c2s, c)
    BY <1>6 DEF HubOnHubLogonQueryForwardID, HubSendToKeeper
  <2> HIDE DEF m, k, r
  <2>5. s2c' \in Queues(Vetted(verified))
    <3>1. CASE k \in Keepers /\ forwardConns[k] # <<>>
      BY <2>3, <2>4, <3>1, SendType DEF Mail
    <3>2. CASE ~(k \in Keepers /\ forwardConns[k] # <<>>)
      BY <2>4, <3>2 DEF Mail
    <3> QED
      BY <3>1, <3>2
  <2>6. Mail'
    BY <2>1, <2>4, <2>5 DEF Mail
  <2>7. HubTypeOK'
    BY <1>6 DEF HubOnHubLogonQueryForwardID, HubTypeOK, hubVars
  <2> QED
    BY <1>2, <1>6, <2>6, <2>7 DEF HubOnHubLogonQueryForwardID
<1>7. ASSUME HubRestart PROVE Goal
  <2>1. Ends' /\ Mail'
    BY <1>7, DieType, RestartFaults DEF HubRestart, Ends
  <2>2. HubTypeOK'
    BY <1>7 DEF HubRestart, HubStart, HubTypeOK, Opt
  <2>3. \A x \in ForwardConns \cup LogonConns : Quiet(x)
    BY <1>0, <1>7, DieType DEF HubRestart, Quiet
  <2> QED
    BY <2>1, <2>2, <2>3
<1> QED
  BY <1>1, <1>3, <1>4, <1>5, <1>6, <1>7 DEF HubStep

(* A step of the hub keeps the inductive invariant. *)
LEMMA HubStepType ==
  ASSUME TypeInv, Hub
  PROVE  TypeInv'
<1>1. HubStep /\ UNCHANGED <<keeperVars, forwardVars, logonVars, clientVars>>
  BY DEF Hub
<1>2. KeeperTypeOK' /\ ForwardTypeOK' /\ LogonTypeOK' /\ ClientTypeOK' /\ DistinctStarts'
  BY <1>1 DEF keeperVars, forwardVars, logonVars, clientVars, KeeperTypeOK, ForwardTypeOK, LogonTypeOK,
         ClientTypeOK, TypeInv, WellFormed, DistinctStarts
<1>3. Ends' /\ Mail' /\ HubTypeOK' /\ \A x \in ForwardConns \cup LogonConns : Quiet(x)
  BY <1>1, HubActions DEF logonVars
<1>4. ServedByServer' /\ NamedConns'
  BY <1>1, <1>3, ServedStep, NamedStep DEF forwardVars, logonVars
<1> QED
  BY <1>2, <1>3, <1>4 DEF TypeInv, WellFormed

-----------------------------------------------------------------------------
(* A keeper that updates one entry of serverStart_ keeps the ids in it     *)
(* distinct.                                                               *)
LEMMA SetStartedStep ==
  ASSUME TypeInv, NEW k \in Keepers, NEW id \in ServerIds, NEW start \in BOOLEAN, NEW c \in KeeperForwardConns,
         serverStart' = [serverStart EXCEPT ![k] = setStarted(@, id, start, c)]
  PROVE  serverStart' \in [Keepers -> Seq(ServerStart)] /\ DistinctStarts'
<1>1. \A l \in Keepers : serverStart[l] \in Seq(ServerStart) /\ UniqueIds(serverStart[l])
  BY DEF TypeInv, KeeperTypeOK, WellFormed, DistinctStarts, UniqueIds
<1>2. /\ setStarted(serverStart[k], id, start, c) \in Seq(ServerStart)
      /\ UniqueIds(setStarted(serverStart[k], id, start, c))
  BY <1>1, SetStartedType
<1>3. serverStart \in [Keepers -> Seq(ServerStart)]
  BY DEF TypeInv, KeeperTypeOK
<1>4. serverStart' \in [Keepers -> Seq(ServerStart)] /\ \A l \in Keepers : UniqueIds(serverStart'[l])
  BY <1>1, <1>2, <1>3
<1> QED
  BY <1>4 DEF DistinctStarts, UniqueIds

(* The keeper's handlers, in both of its threads, keep their own state,    *)
(* the connections and the messages typed, and the ids in serverStart_     *)
(* distinct.                                                               *)
LEMMA KeeperActions ==
  ASSUME TypeInv, NEW k \in Keepers, KeeperStep(k), UNCHANGED verified
  PROVE  Ends' /\ Mail' /\ KeeperTypeOK' /\ DistinctStarts' /\ \A x \in ForwardConns \cup LogonConns : Quiet(x)
<1> USE DEF TypeInv
<1> DEFINE Calm == \A x \in ForwardConns \cup LogonConns : Quiet(x)
           Goal == Ends' /\ Mail' /\ KeeperTypeOK' /\ DistinctStarts' /\ Calm
           V    == Vetted(verified)
<1>0. /\ \A c \in HubKeeperConns \cup KeeperForwardConns :
             c \in Conns /\ \A x \in ForwardConns \cup LogonConns : x # c
      /\ \A x \in ForwardConns \cup LogonConns : x \in Conns /\ x \notin KeeperForwardConns
  BY ConnKinds
<1>a. DistinctStarts /\ keeperHubConn[k] \in Conns \cup {NoConn}
  BY <1>0 DEF WellFormed, KeeperTypeOK, Opt
<1>b. ASSUME UNCHANGED <<cli, srv, lost, faults>> PROVE Ends' /\ Calm
  BY <1>b DEF Ends, Quiet
<1>c. ASSUME UNCHANGED serverStart PROVE DistinctStarts'
  BY <1>a, <1>c DEF DistinctStarts
<1>1. ASSUME NEW c \in HubKeeperConns, KeeperConnectHub(k, c) PROVE Goal
  <2>1. Ends' /\ Calm
    BY <1>0, <1>1 DEF KeeperConnectHub, Connected, Ends, EndState, Quiet
  <2>2. Mail'
    BY <1>0, <1>1, PlainMessages, SetType DEF KeeperConnectHub, Connected, Mail
  <2>3. KeeperTypeOK'
    BY <1>1 DEF KeeperConnectHub, KeeperTypeOK, Opt
  <2> QED
    BY <1>1, <1>c, <2>1, <2>2, <2>3 DEF KeeperConnectHub
<1>2. ASSUME NEW c \in HubKeeperConns, KeeperOnHubConnectionDown(k, c) PROVE Goal
  <2>1. Ends' /\ Calm
    BY <1>0, <1>2 DEF KeeperOnHubConnectionDown, CloseC, Ends, EndState, Quiet
  <2>2. Mail'
    BY <1>0, <1>2, PlainMessages, SendType, DrainedType DEF KeeperOnHubConnectionDown, CloseC, Mail
  <2>3. KeeperTypeOK'
    BY <1>2 DEF KeeperOnHubConnectionDown, KeeperTypeOK, Opt
  <2> QED
    BY <1>2, <1>c, <2>1, <2>2, <2>3 DEF KeeperOnHubConnectionDown
<1>3. ASSUME NEW c \in HubKeeperConns, KeeperOnHubKeeperLogonSession(k, c) PROVE Goal
  <2> DEFINE m == Head(s2c[c])
             r == [type |-> "KeeperForwardLogonSession", uid |-> m.uid, connname |-> m.connname]
  <2>1. m \in V /\ m.type = "HubKeeperLogonSession" /\ Recv(s2c, c) \in Queues(V)
    BY <1>0, <1>3, ReadAtClient DEF KeeperOnHubKeeperLogonSession
  <2>2. r \in V /\ m.forwardserverid \in ServerIds
    BY <2>1, MessageFields, CertificateMessages DEF Certificates
  <2>3. conns[k][m.forwardserverid] \in Conns \cup {NoConn}
    BY <1>0, <2>2 DEF KeeperTypeOK, Opt
  <2>4. s2c' = SendS(Recv(s2c, c), conns[k][m.forwardserverid], r) /\ c2s' = c2s
    BY <1>3 DEF KeeperOnHubKeeperLogonSession, KeeperSendToForward
  <2> HIDE DEF m, r
  <2>5. Mail'
    BY <2>1, <2>2, <2>3, <2>4, SendType DEF Mail
  <2>6. KeeperTypeOK' /\ UNCHANGED serverStart
    BY <1>3 DEF KeeperOnHubKeeperLogonSession, KeeperTypeOK, keeperVars
  <2> QED
    BY <1>3, <1>b, <1>c, <2>5, <2>6 DEF KeeperOnHubKeeperLogonSession
<1>4. ASSUME NEW c \in KeeperForwardConns, KeeperOnConnectionDown(k, c) PROVE Goal
  <2> DEFINE mine == {i \in DOMAIN serverStart[k] : serverStart[k][i].connName = c /\ serverStart[k][i].start}
             i    == Min(mine)
             r    == UpdateForwardConns(k, serverStart[k][i].id, "REMOVE")
  <2>1. Ends' /\ Calm
    BY <1>0, <1>4 DEF KeeperOnConnectionDown, CloseS, Ends, EndState, Quiet
  <2>2. conns' \in [Keepers -> [ServerIds -> Opt(KeeperForwardConns, NoConn)]] /\ UNCHANGED <<keeperHubConn, starting>>
    BY <1>4 DEF KeeperOnConnectionDown, KeeperTypeOK, Opt
  <2>3. s2c' \in Queues(V) /\ Drained(c2s, c) \in Queues(V)
    BY <1>0, <1>4, PlainMessages, SendType, DrainedType DEF KeeperOnConnectionDown, CloseS, Mail
  <2>4. CASE mine = {}
    <3>1. c2s' = Drained(c2s, c) /\ UNCHANGED serverStart
      BY <1>4, <2>4 DEF KeeperOnConnectionDown
    <3> QED
      BY <1>c, <2>1, <2>2, <2>3, <3>1 DEF Mail, KeeperTypeOK
  <2>5. CASE mine # {}
    <3>1. /\ c2s' = SendC(Drained(c2s, c), keeperHubConn[k], r)
          /\ serverStart' = [serverStart EXCEPT ![k] = setStarted(@, serverConfig[i].id, FALSE, c)]
      BY <1>4, <2>5 DEF KeeperOnConnectionDown, KeeperSendToHub
    <3>2. serverStart[k] \in Seq(ServerStart) /\ UniqueIds(serverStart[k])
      BY <1>a DEF KeeperTypeOK, DistinctStarts, UniqueIds
    <3>3. i \in DOMAIN serverStart[k]
      BY <2>5, <3>2, MinProperty, SMTT(30)
    <3> HIDE DEF i
    <3>4. i \in DOMAIN serverConfig
      BY <3>2, <3>3, ServerStartIndex
    <3>5. serverConfig[i].id \in ServerIds
      BY <3>4 DEF ServerIds
    <3>6. serverStart[k][i] \in ServerStart
      BY <3>2, <3>3
    <3>7. r \in V
      BY <3>6, UpdateMessages DEF UpdateForwardConns, ServerStart
    <3> HIDE DEF r
    <3>8. c2s' \in Queues(V)
      BY <1>a, <2>3, <3>1, <3>7, SendType
    <3>9. serverStart' \in [Keepers -> Seq(ServerStart)] /\ DistinctStarts'
      BY <3>1, <3>5, SetStartedStep
    <3> QED
      BY <2>1, <2>2, <2>3, <3>8, <3>9 DEF Mail, KeeperTypeOK
  <2> QED
    BY <2>4, <2>5
<1>5. ASSUME NEW c \in KeeperForwardConns, KeeperOnQuery(k, c) PROVE Goal
  <2> DEFINE free == Eligible(k, Head(c2s[c]).servertype)
             id   == serverConfig[Min(free)].id
             a    == [type |-> "KeeperAnswer", keeperserverid |-> k, serverid |-> id]
             r    == UpdateForwardConns(k, id, "ADD")
  <2>1. /\ free # {}
        /\ s2c' = SendS(s2c, c, a)
        /\ c2s' = SendC(Recv(c2s, c), keeperHubConn[k], r)
        /\ serverStart' = [serverStart EXCEPT ![k] = setStarted(@, id, TRUE, c)]
        /\ starting' = [starting EXCEPT ![k] = [id |-> id, conn |-> c]]
    BY <1>5 DEF KeeperOnQuery, KeeperSendToHub
  <2>2. Min(free) \in DOMAIN serverConfig
    <3>1. free \in SUBSET DOMAIN serverConfig /\ DOMAIN serverConfig \in SUBSET Nat
      BY ConfigAssumption DEF Eligible
    <3> HIDE DEF free
    <3> QED
      BY <2>1, <3>1, MinProperty
  <2>3. id \in ServerIds
    BY <2>2 DEF ServerIds
  <2> HIDE DEF id
  <2>4. Recv(c2s, c) \in Queues(V)
    BY <1>0, <1>5, ReadAtServer DEF KeeperOnQuery
  <2>5. a \in V /\ r \in V
    BY <2>3, PlainMessages, UpdateMessages DEF UpdateForwardConns
  <2> HIDE DEF a, r
  <2>6. Mail'
    BY <1>0, <1>a, <2>1, <2>4, <2>5, SendType DEF Mail
  <2>7. serverStart' \in [Keepers -> Seq(ServerStart)] /\ DistinctStarts'
    BY <2>1, <2>3, SetStartedStep
  <2>8. starting' \in [Keepers -> Opt([id : ServerIds, conn : KeeperForwardConns], NotStarting)]
    BY <2>1, <2>3 DEF KeeperTypeOK, Opt
  <2>9. KeeperTypeOK'
    BY <1>5, <2>7, <2>8 DEF KeeperOnQuery, KeeperTypeOK
  <2> QED
    BY <1>5, <1>b, <2>6, <2>7, <2>9 DEF KeeperOnQuery
<1>6. ASSUME NEW c \in KeeperForwardConns, KeeperOnQueryDuplicate(k, c) PROVE Goal
  <2>1. Ends' /\ Calm
    BY <1>0, <1>6 DEF KeeperOnQueryDuplicate, ShutdownS, Ends, EndState, Quiet, Open
  <2>2. Recv(c2s, c) \in Queues(V)
    BY <1>0, <1>6, ReadAtServer DEF KeeperOnQueryDuplicate
  <2>3. Mail'
    BY <1>0, <1>6, <2>2, PlainMessages, SendType DEF KeeperOnQueryDuplicate, ShutdownS, Mail
  <2>4. KeeperTypeOK' /\ UNCHANGED serverStart
    BY <1>6 DEF KeeperOnQueryDuplicate, KeeperTypeOK, keeperVars
  <2> QED
    BY <1>c, <2>1, <2>3, <2>4
<1>7. ASSUME NEW c \in KeeperForwardConns, KeeperOnKeeperForwardLogonSessionRet(k, c) PROVE Goal
  <2> DEFINE m == Head(c2s[c])
             r == [type |-> "HubKeeperLogonSessionRet", uid |-> m.uid, connname |-> m.connname,
                   forward |-> m.forward, session |-> m.session]
  <2>1. m \in V /\ m.type = "KeeperForwardLogonSessionRet" /\ Recv(c2s, c) \in Queues(V)
    BY <1>0, <1>7, ReadAtServer DEF KeeperOnKeeperForwardLogonSessionRet
  <2>2. r \in V
    BY <2>1, MessageFields, CertificateMessages DEF Certificates
  <2>3. c2s' = SendC(Recv(c2s, c), keeperHubConn[k], r) /\ s2c' = s2c
    BY <1>7 DEF KeeperOnKeeperForwardLogonSessionRet, KeeperSendToHub
  <2> HIDE DEF m, r
  <2>4. Mail'
    BY <1>a, <2>1, <2>2, <2>3, SendType DEF Mail
  <2>5. KeeperTypeOK' /\ UNCHANGED serverStart
    BY <1>7 DEF KeeperOnKeeperForwardLogonSessionRet, KeeperTypeOK, keeperVars
  <2> QED
    BY <1>7, <1>b, <1>c, <2>4, <2>5 DEF KeeperOnKeeperForwardLogonSessionRet
<1>8. ASSUME NEW c \in KeeperForwardConns, KeeperOnKeeperForwardUpdateForwardConns(k, c) PROVE Goal
  <2> DEFINE m == Head(c2s[c])
             r == UpdateForwardConns(m.keeperserverid, m.forwardserverid, m.oper)
  <2>1. m \in V /\ m.type = "KeeperForwardUpdateForwardConns" /\ Recv(c2s, c) \in Queues(V)
    BY <1>0, <1>8, ReadAtServer DEF KeeperOnKeeperForwardUpdateForwardConns
  <2>2. r \in V
    BY <2>1, MessageFields, UpdateMessages DEF UpdateForwardConns
  <2>3. c2s' = SendC(Recv(c2s, c), keeperHubConn[k], r) /\ s2c' = s2c
    BY <1>8 DEF KeeperOnKeeperForwardUpdateForwardConns, KeeperSendToHub
  <2> HIDE DEF m, r
  <2>4. Mail'
    BY <1>a, <2>1, <2>2, <2>3, SendType DEF Mail
  <2>5. KeeperTypeOK' /\ UNCHANGED serverStart
    BY <1>8 DEF KeeperOnKeeperForwardUpdateForwardConns, KeeperTypeOK, keeperVars
  <2> QED
    BY <1>8, <1>b, <1>c, <2>4, <2>5 DEF KeeperOnKeeperForwardUpdateForwardConns
<1>9. ASSUME KeeperOnQueryDone(k) PROVE Goal
  <2>1. starting[k] \in [id : ServerIds, conn : KeeperForwardConns]
    BY <1>9 DEF KeeperOnQueryDone, IOThreadIdle, KeeperTypeOK, Opt
  <2>2. starting[k].id \in ServerIds /\ starting[k].conn \in KeeperForwardConns
    BY <2>1
  <2>3. KeeperTypeOK'
    BY <1>9, <2>2 DEF KeeperOnQueryDone, KeeperTypeOK, Opt
  <2>4. Mail' /\ Ends' /\ Calm
    BY <1>9, <1>b DEF KeeperOnQueryDone, netVars, Mail
  <2> QED
    BY <1>9, <1>c, <2>3, <2>4 DEF KeeperOnQueryDone
<1>10. ASSUME KeeperRestart(k) PROVE Goal
  <2>1. Ends' /\ Mail'
    BY <1>10, DieType, RestartFaults DEF KeeperRestart, Ends
  <2>2. KeeperTypeOK'
    BY <1>10 DEF KeeperRestart, KeeperTypeOK, Opt
  <2>3. Calm
    BY <1>0, <1>10, DieType DEF KeeperRestart, Quiet
  <2>4. DistinctStarts'
    BY <1>10, <1>a DEF KeeperRestart, KeeperTypeOK, DistinctStarts
  <2> QED
    BY <2>1, <2>2, <2>3, <2>4
<1> QED
  BY <1>1, <1>2, <1>3, <1>4, <1>5, <1>6, <1>7, <1>8, <1>9, <1>10 DEF KeeperStep

(* A step of a keeper keeps the inductive invariant. *)
LEMMA KeeperStepType ==
  ASSUME TypeInv, NEW k \in Keepers, Keeper(k)
  PROVE  TypeInv'
<1>1. KeeperStep(k) /\ UNCHANGED <<hubVars, forwardVars, logonVars, clientVars>>
  BY DEF Keeper
<1>2. HubTypeOK' /\ ForwardTypeOK' /\ LogonTypeOK' /\ ClientTypeOK'
  BY <1>1 DEF hubVars, forwardVars, logonVars, clientVars, HubTypeOK, ForwardTypeOK, LogonTypeOK, ClientTypeOK, TypeInv
<1>3. Ends' /\ Mail' /\ KeeperTypeOK' /\ DistinctStarts' /\ \A x \in ForwardConns \cup LogonConns : Quiet(x)
  BY <1>1, KeeperActions DEF logonVars
<1>4. ServedByServer' /\ NamedConns'
  BY <1>1, <1>3, ServedStep, NamedStep DEF forwardVars, logonVars
<1> QED
  BY <1>2, <1>3, <1>4 DEF TypeInv, WellFormed

-----------------------------------------------------------------------------
(* A forward process that has a ForwardServer reports about a configured   *)
(* id.                                                                     *)
LEMMA ServerUpdate ==
  ASSUME TypeInv, NEW p \in Forwards, server[p] # NoServer, NEW oper \in {"INC", "DEC"}
  PROVE  UpdateConns(p, oper) \in Vetted(verified)
<1>1. KeeperOf[p] \in Keepers
  BY ConfigAssumption
<1>2. server[p] \in ServerIds
  BY DEF TypeInv, ForwardTypeOK, Opt
<1> QED
  BY <1>1, <1>2, UpdateMessages DEF UpdateConns

(* The memory of a process that has just been started is typed. *)
LEMMA BlankType ==
  ASSUME TypeInv, NEW p \in Forwards, NEW running \in BOOLEAN, Blank(p, running)
  PROVE  ForwardTypeOK'
<1>1. /\ alive' \in [Forwards -> BOOLEAN]
      /\ keeperConn' \in [Forwards -> Opt(KeeperForwardConns, NoConn)]
      /\ server' \in [Forwards -> Opt(ServerIds, NoServer)]
  BY DEF TypeInv, ForwardTypeOK, Blank, Opt
<1>2. sessions' \in [Forwards -> [Uids -> Opt(Session, NoSession)]]
  BY DEF TypeInv, ForwardTypeOK, Blank, Opt
<1>3. checks' \in [Forwards -> Seq(Check)]
  BY DEF TypeInv, ForwardTypeOK, Blank
<1>4. UNCHANGED <<peer, issued, admitted>>
  BY DEF Blank
<1> QED
  BY <1>1, <1>2, <1>3, <1>4 DEF TypeInv, ForwardTypeOK

(* When a forward process dies, none of its client connections is left to  *)
(* be served.                                                              *)
LEMMA ForwardDies ==
  ASSUME TypeInv, UNCHANGED verified, NEW p \in Forwards, NEW running \in BOOLEAN,
         Die(KeeperConnsOf(p), ClientConnsOf(p)), Blank(p, running), faults' \in 0..MaxFaults
  PROVE  Ends' /\ Mail' /\ ForwardTypeOK' /\ ServedByServer' /\ \A x \in LogonConns : Quiet(x)
<1>1. Ends' /\ Mail'
  BY DieType DEF Ends
<1>2. ForwardTypeOK'
  BY BlankType
<1>3. \A x \in LogonConns : Quiet(x)
  <2>1. \A x \in LogonConns : x \in Conns /\ x \notin ClientConnsOf(p)
    BY ConnKinds DEF ClientConnsOf
  <2> QED
    BY <2>1, DieType DEF Quiet
<1>4. ServedByServer'
  <2> SUFFICES ASSUME NEW x \in ForwardConns, NEW q \in Forwards, peer'[x] = q
               PROVE  cli'[x] # "none" /\ (srv'[x] # "down" => server'[q] # NoServer)
    BY DEF ServedByServer
  <2>1. x \in Conns /\ peer[x] = q /\ cli[x] # "none" /\ (srv[x] # "down" => server[q] # NoServer)
    BY ConnKinds DEF Blank, TypeInv, WellFormed, ServedByServer
  <2>2. cli'[x] # "none" /\ srv'[x] = IF x \in ClientConnsOf(p) /\ x \in Live THEN "down" ELSE srv[x]
    BY <2>1, DieType
  <2>3. CASE q = p
    <3>1. x \in ClientConnsOf(p) /\ (x \in Live \/ srv[x] = "down")
      BY <2>1, <2>3 DEF ClientConnsOf, Live
    <3> QED
      BY <2>2, <3>1
  <2>4. CASE q # p
    <3>1. server'[q] = server[q] /\ x \notin ClientConnsOf(p)
      BY <2>1, <2>4 DEF Blank, ClientConnsOf, TypeInv, ForwardTypeOK
    <3> QED
      BY <2>1, <2>2, <3>1
  <2> QED
    BY <2>3, <2>4
<1> QED
  BY <1>1, <1>2, <1>3, <1>4

(* The handlers and functors of a forward process keep their own state,    *)
(* the connections and the messages typed, and serve connections only with *)
(* a ForwardServer.                                                        *)
LEMMA ForwardActions ==
  ASSUME TypeInv, NEW p \in Forwards, ForwardStep(p), UNCHANGED verified
  PROVE  Ends' /\ Mail' /\ ForwardTypeOK' /\ ServedByServer' /\ \A x \in LogonConns : Quiet(x)
<1> USE DEF TypeInv
<1> DEFINE Calm == \A x \in LogonConns : Quiet(x)
           Goal == Ends' /\ Mail' /\ ForwardTypeOK' /\ ServedByServer' /\ Calm
           V    == Vetted(verified)
<1>0. /\ \A c \in KeeperConnsOf(p) : /\ c \in KeeperForwardConns
                                     /\ c \in Conns
                                     /\ \A x \in ForwardConns \cup LogonConns : x # c
      /\ \A x \in LogonConns : x \in Conns /\ x \notin ForwardConns
      /\ \A x \in ForwardConns : x \in Conns
  BY ConnKinds DEF KeeperConnsOf
<1>a. keeperConn[p] \in Conns \cup {NoConn}
  BY ConnKinds DEF ForwardTypeOK, Opt
<1>b. ASSUME UNCHANGED <<cli, srv, lost, faults>>
      PROVE  Ends' /\ Calm /\ \A x \in ForwardConns : Quiet(x)
  BY <1>b DEF Ends, Quiet
<1>1. ASSUME NEW c \in KeeperConnsOf(p), ForwardConnectKeeper(p, c) PROVE Goal
  <2>1. Ends' /\ Calm /\ \A x \in ForwardConns : Quiet(x)
    BY <1>0, <1>1 DEF ForwardConnectKeeper, Connected, Ends, EndState, Quiet
  <2>2. Mail'
    BY <1>0, <1>1, PlainMessages, SetType DEF ForwardConnectKeeper, Connected, Mail
  <2>3. ForwardTypeOK'
    BY <1>0, <1>1 DEF ForwardConnectKeeper, ForwardTypeOK, Opt
  <2>4. ServedByServer'
    BY <1>1, <2>1, ServedStep DEF ForwardConnectKeeper
  <2> QED
    BY <2>1, <2>2, <2>3, <2>4
<1>2. ASSUME NEW c \in KeeperConnsOf(p), ForwardOnKeeperConnectionDown(p, c) PROVE Goal
  <2>1. Ends' /\ Calm /\ \A x \in ForwardConns : Quiet(x)
    BY <1>0, <1>2 DEF ForwardOnKeeperConnectionDown, CloseC, Ends, EndState, Quiet
  <2>2. Mail'
    BY <1>0, <1>2, PlainMessages, SendType, DrainedType DEF ForwardOnKeeperConnectionDown, CloseC, Mail
  <2>3. ForwardTypeOK'
    BY <1>2 DEF ForwardOnKeeperConnectionDown, ForwardTypeOK, Opt
  <2>4. ServedByServer'
    BY <1>2, <2>1, ServedStep DEF ForwardOnKeeperConnectionDown
  <2> QED
    BY <2>1, <2>2, <2>3, <2>4
<1>3. ASSUME NEW c \in KeeperConnsOf(p), ForwardOnAnswer(p, c) PROVE Goal
  <2> DEFINE up == {x \in ClientConnsOf(p) : srv[x] = "up"}
             q  == Emptied(c2s, ClientConnsOf(p))
             d  == UpdateConns(p, "DEC")
             id == Head(s2c[c]).serverid
  <2>1. id \in ServerIds /\ id # NoServer /\ Recv(s2c, c) \in Queues(V)
    <3>1. Head(s2c[c]) \in V /\ Head(s2c[c]).type = "KeeperAnswer" /\ Recv(s2c, c) \in Queues(V)
      BY <1>0, <1>3, ReadAtClient DEF ForwardOnAnswer
    <3>2. id \in ServerIds
      BY <3>1, MessageFields
    <3> QED
      BY <3>1, <3>2, ConfigAssumption DEF NoServer
  <2>2. PICK n \in 0..Cardinality(up) :
           c2s' = IF CanSendC(keeperConn[p]) THEN [q EXCEPT ![keeperConn[p]] = @ \o [i \in 1..n |-> d]] ELSE q
    BY <1>3 DEF ForwardOnAnswer
  <2>3. server[p] = NoServer => n = 0
    <3> SUFFICES ASSUME server[p] = NoServer PROVE n = 0
      OBVIOUS
    <3>1. up = {}
      BY DEF ClientConnsOf, WellFormed, ServedByServer
    <3> HIDE DEF up
    <3>2. Cardinality(up) = 0
      BY <3>1, FS_EmptySet
    <3> QED
      BY <2>2, <3>2
  <2>4. n \in Nat /\ (n # 0 => d \in V)
    <3>1. n # 0 => d \in V
      BY <2>3, ServerUpdate
    <3>2. n \in Nat
      OBVIOUS
    <3> QED
      BY <3>1, <3>2
  <2>5. q \in Queues(V)
    BY EmptiedType DEF Mail
  <2>6. /\ s2c' = Recv(s2c, c)
        /\ srv' = Killed(srv, ClientConnsOf(p))
        /\ lost' = LostAlso(ClientConnsOf(p))
        /\ server' = [server EXCEPT ![p] = id]
        /\ sessions' = [sessions EXCEPT ![p] = [u \in Uids |-> NoSession]]
        /\ checks' = [checks EXCEPT ![p] = [i \in DOMAIN @ |-> [@[i] EXCEPT !.live = FALSE]]]
        /\ UNCHANGED <<cli, faults, alive, keeperConn, peer, issued, admitted>>
    BY <1>3 DEF ForwardOnAnswer
  <2> HIDE DEF up, q, d, id
  <2>7. Mail'
    <3>1. CASE CanSendC(keeperConn[p])
      <4>1. keeperConn[p] \in Conns
        BY <1>a, <3>1 DEF CanSendC
      <4>2. c2s' \in Queues(V)
        BY <2>2, <2>4, <2>5, <3>1, <4>1, RepeatedType, ZenonT(30)
      <4> QED
        BY <2>1, <2>6, <4>2 DEF Mail
    <3>2. CASE ~CanSendC(keeperConn[p])
      BY <2>1, <2>2, <2>5, <2>6, <3>2 DEF Mail
    <3> QED
      BY <3>1, <3>2
  <2>8. Ends'
    <3>1. lost' \in [Conns -> BOOLEAN]
      BY <2>6, Zenon DEF LostAlso
    <3> QED
      BY <2>6, <3>1 DEF Ends, Killed, EndState
  <2>9. Calm
    <3>1. \A x \in LogonConns : srv'[x] = srv[x]
      BY <1>0, <2>6 DEF Killed, ClientConnsOf
    <3> QED
      BY <2>6, <3>1 DEF Quiet
  <2>10. ForwardTypeOK'
    <3>1. server' \in [Forwards -> Opt(ServerIds, NoServer)]
      BY <2>1, <2>6 DEF ForwardTypeOK, Opt
    <3>2. sessions' \in [Forwards -> [Uids -> Opt(Session, NoSession)]]
      BY <2>6 DEF ForwardTypeOK, Opt
    <3>3. checks' \in [Forwards -> Seq(Check)]
      <4> DEFINE new == [i \in DOMAIN checks[p] |-> [checks[p][i] EXCEPT !.live = FALSE]]
      <4>1. checks \in [Forwards -> Seq(Check)]
        BY DEF ForwardTypeOK
      <4>2. \A i \in DOMAIN checks[p] : checks[p][i] \in Check
        BY <4>1
      <4>3. \A i \in DOMAIN checks[p] : [checks[p][i] EXCEPT !.live = FALSE] \in Check
        BY <4>2 DEF Check
      <4>4. new \in Seq(Check)
        BY <4>1, <4>3
      <4>5. checks' = [checks EXCEPT ![p] = new]
        BY <2>6
      <4> HIDE DEF new
      <4> QED
        BY <4>1, <4>4, <4>5
    <3> QED
      BY <2>6, <3>1, <3>2, <3>3 DEF ForwardTypeOK
  <2>11. ServedByServer'
    <3> SUFFICES ASSUME NEW x \in ForwardConns, NEW r \in Forwards, peer[x] = r
                 PROVE  cli[x] # "none" /\ (srv'[x] # "down" => server'[r] # NoServer)
      BY <2>6 DEF ServedByServer
    <3>1. cli[x] # "none" /\ (srv[x] # "down" => server[r] # NoServer)
      BY DEF WellFormed, ServedByServer
    <3>2. srv'[x] # "down" => srv[x] # "down"
      BY <1>0, <2>6 DEF Killed
    <3>3. server[r] # NoServer => server'[r] # NoServer
      BY <2>1, <2>6 DEF ForwardTypeOK
    <3> QED
      BY <3>1, <3>2, <3>3
  <2> QED
    BY <2>7, <2>8, <2>9, <2>10, <2>11
<1>4. ASSUME NEW c \in KeeperConnsOf(p), ForwardOnAnswerAbort(p, c) PROVE Goal
  BY <1>4, ForwardDies DEF ForwardOnAnswerAbort, Abort, Ends
<1>5. ASSUME NEW c \in KeeperConnsOf(p), ForwardOnKeeperForwardLogonSession(p, c) PROVE Goal
  <2> DEFINE m    == Head(s2c[c])
             r(s) == [type |-> "KeeperForwardLogonSessionRet", uid |-> m.uid, connname |-> m.connname,
                      forward |-> server[p], session |-> s]
             e(s) == [session |-> s, serial |-> issued + 1]
  <2>1. m \in V /\ m.type = "KeeperForwardLogonSession" /\ Recv(s2c, c) \in Queues(V)
    BY <1>0, <1>5, ReadAtClient DEF ForwardOnKeeperForwardLogonSession
  <2>2. PICK s \in Sessions : /\ sessions' = [sessions EXCEPT ![p][m.uid] = e(s)]
                              /\ c2s' = SendC(c2s, keeperConn[p], r(s))
    BY <1>5 DEF ForwardOnKeeperForwardLogonSession, ForwardSendToKeeper
  <2>3. m.uid \in Uids /\ m.connname \in Names /\ [uid |-> m.uid, connname |-> m.connname] \in verified
    BY <2>1, MessageFields DEF Certificates
  <2>4. r(s) \in V
    <3>1. server[p] \in ServerIds
      BY <1>5 DEF ForwardOnKeeperForwardLogonSession, ForwardTypeOK, Opt
    <3> HIDE DEF m
    <3> QED
      BY <2>3, <3>1, CertificateMessages
  <2>5. e(s) \in Opt(Session, NoSession)
    BY DEF ForwardTypeOK, Opt, Session
  <2>6. s2c' = Recv(s2c, c) /\ issued' = issued + 1
        /\ UNCHANGED <<cli, srv, lost, faults, alive, keeperConn, server, checks, peer, admitted>>
    BY <1>5 DEF ForwardOnKeeperForwardLogonSession
  <2> HIDE DEF m, r, e
  <2>7. Mail'
    BY <1>a, <2>1, <2>2, <2>4, <2>6, SendType DEF Mail
  <2>8. sessions' \in [Forwards -> [Uids -> Opt(Session, NoSession)]]
    BY <2>2, <2>3, <2>5 DEF ForwardTypeOK
  <2>9. ForwardTypeOK'
    BY <2>6, <2>8 DEF ForwardTypeOK
  <2>10. ServedByServer'
    BY <1>b, <2>6, ServedStep
  <2> QED
    BY <1>b, <2>6, <2>7, <2>9, <2>10
<1>6. ASSUME NEW x \in ForwardConns, ForwardOnConnectionUp(p, x) PROVE Goal
  <2>1. server[p] # NoServer
    BY <1>6 DEF ForwardOnConnectionUp, WellFormed, ServedByServer
  <2>2. Ends' /\ Calm
    BY <1>0, <1>6 DEF ForwardOnConnectionUp, Ends, EndState, Quiet
  <2>3. Mail'
    BY <1>6, <1>a, <2>1, ServerUpdate, SendType DEF ForwardOnConnectionUp, ForwardSendToKeeper, Mail
  <2>4. ForwardTypeOK'
    BY <1>6 DEF ForwardOnConnectionUp, ForwardTypeOK, forwardVars
  <2>5. ServedByServer'
    BY <1>0, <1>6, <2>1 DEF ForwardOnConnectionUp, WellFormed, ServedByServer, forwardVars, Ends
  <2> QED
    BY <2>2, <2>3, <2>4, <2>5
<1>7. ASSUME NEW x \in ForwardConns, ForwardOnConnectionDown(p, x) PROVE Goal
  <2>1. server[p] # NoServer
    BY <1>7 DEF ForwardOnConnectionDown, ClosesS, Open, WellFormed, ServedByServer
  <2>2. Ends' /\ Calm /\ \A y \in ForwardConns : Quiet(y)
    BY <1>0, <1>7 DEF ForwardOnConnectionDown, CloseS, ClosesS, Open, Ends, EndState, Quiet
  <2>3. Mail'
    <3>1. s2c' \in Queues(V)
      BY <1>0, <1>7, PlainMessages, SendType DEF ForwardOnConnectionDown, CloseS, Mail
    <3>2. Drained(c2s, x) \in Queues(V)
      BY <1>0, DrainedType DEF Mail
    <3> QED
      BY <1>7, <1>a, <2>1, <3>1, <3>2, ServerUpdate, SendType DEF ForwardOnConnectionDown, ForwardSendToKeeper, Mail
  <2>4. ForwardTypeOK'
    BY <1>7 DEF ForwardOnConnectionDown, ForwardTypeOK, forwardVars
  <2>5. ServedByServer'
    BY <1>7, <2>2, ServedStep DEF ForwardOnConnectionDown, forwardVars
  <2> QED
    BY <2>2, <2>3, <2>4, <2>5
<1>8. ASSUME NEW x \in ForwardConns, ForwardOnLogonForward(p, x) PROVE Goal
  <2> DEFINE m == Head(c2s[x])
             t == [conn |-> x, uid |-> m.uid, session |-> m.session, live |-> TRUE]
  <2>1. m \in V /\ m.type = "LogonForward" /\ Recv(c2s, x) \in Queues(V)
    BY <1>0, <1>8, ReadAtServer DEF ForwardOnLogonForward
  <2>2. m.uid \in Uids /\ m.session \in Sessions
    BY <2>1, MessageFields
  <2>3. /\ checks' = [checks EXCEPT ![p] = Append(@, t)]
        /\ c2s' = Recv(c2s, x)
        /\ UNCHANGED <<cli, srv, s2c, lost, faults, alive, keeperConn, server, sessions, peer, issued, admitted>>
    BY <1>8 DEF ForwardOnLogonForward
  <2>4. t \in Check /\ checks \in [Forwards -> Seq(Check)]
    BY <2>2 DEF ForwardTypeOK, Check
  <2> HIDE DEF m, t
  <2>5. checks' \in [Forwards -> Seq(Check)]
    BY <2>3, <2>4
  <2>6. ForwardTypeOK'
    BY <2>3, <2>5 DEF ForwardTypeOK
  <2>7. Mail'
    BY <2>1, <2>3 DEF Mail
  <2> QED
    BY <1>b, <2>3, <2>6, <2>7, ServedStep
<1>9. ASSUME ForwardCheckLogonForwardSession(p) PROVE Goal
  <2> DEFINE t == Head(checks[p])
             e == sessions[p][t.uid]
             a == [forward |-> p, conn |-> t.conn, uid |-> t.uid, serial |-> e.serial]
  <2>1. /\ checks[p] # <<>>
        /\ \/ /\ e # NoSession
              /\ admitted' = admitted \cup {a}
              /\ UNCHANGED <<srv, s2c>>
           \/ ShutdownS(t.conn, s2c) /\ UNCHANGED admitted
        /\ sessions' = [sessions EXCEPT ![p] = [@ EXCEPT ![t.uid] = NoSession]]
        /\ checks' = [checks EXCEPT ![p] = Tail(@)]
        /\ UNCHANGED <<cli, c2s, lost, faults, alive, keeperConn, server, peer, issued>>
    BY <1>9 DEF ForwardCheckLogonForwardSession, Erased
  <2>2. checks \in [Forwards -> Seq(Check)]
    BY DEF ForwardTypeOK
  <2>3. t \in Check
    BY <2>1, <2>2
  <2>4. t.conn \in ForwardConns /\ t.uid \in Uids
    BY <2>3 DEF Check
  <2>5. checks' \in [Forwards -> Seq(Check)]
    BY <2>1, <2>2
  <2> HIDE DEF t
  <2>6. e # NoSession => a \in [forward : Forwards, conn : ForwardConns, uid : Uids, serial : Nat]
    <3>1. e \in Opt(Session, NoSession)
      BY <2>4 DEF ForwardTypeOK
    <3> HIDE DEF e
    <3>2. e # NoSession => e.serial \in Nat
      BY <3>1 DEF Opt, Session
    <3> QED
      BY <2>4, <3>2
  <2> HIDE DEF a, e
  <2>7. sessions' \in [Forwards -> [Uids -> Opt(Session, NoSession)]]
    BY <2>1, <2>4 DEF ForwardTypeOK, Opt
  <2>8. admitted' \subseteq [forward : Forwards, conn : ForwardConns, uid : Uids, serial : Nat]
    BY <2>1, <2>6 DEF ForwardTypeOK
  <2>9. ForwardTypeOK'
    BY <2>1, <2>5, <2>7, <2>8 DEF ForwardTypeOK
  <2>10. Ends' /\ Mail' /\ Calm /\ \A y \in ForwardConns : Quiet(y)
    <3>1. CASE UNCHANGED <<srv, s2c>>
      BY <1>b, <2>1, <3>1 DEF Mail
    <3>2. CASE ShutdownS(t.conn, s2c)
      <4>1. Mail'
        BY <1>0, <2>1, <2>4, <3>2, PlainMessages, SendType DEF ShutdownS, Mail
      <4>2. Ends' /\ Calm /\ \A y \in ForwardConns : Quiet(y)
        BY <1>0, <2>1, <2>4, <3>2 DEF ShutdownS, Ends, EndState, Quiet, Open
      <4> QED
        BY <4>1, <4>2
    <3> QED
      BY <2>1, <3>1, <3>2
  <2> QED
    BY <2>1, <2>9, <2>10, ServedStep
<1>10. ASSUME ForwardDanglingCheck(p) PROVE Goal
  <2>1. CASE Abort(p)
    BY <2>1, ForwardDies DEF Abort, Ends
  <2>2. CASE ~Abort(p)
    <3>1. /\ checks[p] # <<>>
          /\ checks' = [checks EXCEPT ![p] = Tail(@)]
          /\ UNCHANGED <<netVars, alive, keeperConn, server, sessions, peer, issued, admitted>>
      BY <1>10, <2>2 DEF ForwardDanglingCheck
    <3>2. ForwardTypeOK'
      BY <3>1 DEF ForwardTypeOK
    <3>3. Mail'
      BY <3>1 DEF netVars, Mail
    <3> QED
      BY <1>b, <3>1, <3>2, <3>3, ServedStep DEF netVars
  <2> QED
    BY <2>1, <2>2
<1>11. ASSUME ForwardRestart(p) PROVE Goal
  BY <1>11, RestartFaults, ForwardDies DEF ForwardRestart
<1> QED
  BY <1>1, <1>2, <1>3, <1>4, <1>5, <1>6, <1>7, <1>8, <1>9, <1>10, <1>11 DEF ForwardStep

(* A step of a forward process keeps the inductive invariant. *)
LEMMA ForwardStepType ==
  ASSUME TypeInv, NEW p \in Forwards, Forward(p)
  PROVE  TypeInv'
<1>1. ForwardStep(p) /\ UNCHANGED <<hubVars, keeperVars, logonVars, clientVars>>
  BY DEF Forward
<1>2. HubTypeOK' /\ KeeperTypeOK' /\ LogonTypeOK' /\ ClientTypeOK' /\ DistinctStarts'
  BY <1>1 DEF hubVars, keeperVars, logonVars, clientVars, HubTypeOK, KeeperTypeOK, LogonTypeOK, ClientTypeOK,
         TypeInv, WellFormed, DistinctStarts
<1>3. Ends' /\ Mail' /\ ForwardTypeOK' /\ ServedByServer' /\ \A x \in LogonConns : Quiet(x)
  BY <1>1, ForwardActions DEF logonVars
<1>4. NamedConns'
  BY <1>1, <1>3, NamedStep DEF logonVars
<1> QED
  BY <1>2, <1>3, <1>4 DEF TypeInv, WellFormed

-----------------------------------------------------------------------------
(* An open client connection of the logon server has a name. *)
LEMMA NameOfOpen ==
  ASSUME TypeInv, NEW x \in LogonConns, srv[x] \in Open
  PROVE  NameOf(x) \in Names /\ clientConns[NameOf(x)] = x
<1>1. \E n \in Names : clientConns[n] = x
  BY DEF TypeInv, WellFormed, NamedConns
<1> QED
  BY <1>1 DEF NameOf

(* A task carries a name, a keeper that a client asked for and, cut to a   *)
(* uint32_t, a uid.                                                        *)
LEMMA TaskUidType ==
  ASSUME LogonTypeOK, NEW t \in tasks
  PROVE  /\ TaskUid(t) \in Uids
         /\ t.connname \in Names
         /\ \E c \in Clients : t.keeperserverid = ClientKeeper[c]
<1>1. /\ t.uid \in Nat
      /\ t.connname \in Names
      /\ t.keeperserverid \in {ClientKeeper[c] : c \in Clients}
  BY DEF LogonTypeOK
<1>2. t.uid % UidModulus \in 0..(UidModulus - 1)
  BY <1>1, ConfigAssumption
<1> QED
  BY <1>1, <1>2 DEF TaskUid, Uids

(* The handlers and database threads of the logon server keep their own    *)
(* state, the connections and the messages typed and vetted, and open      *)
(* connections named.                                                      *)
LEMMA LogonActions ==
  ASSUME TypeInv, LogonStep
  PROVE  Ends' /\ Mail' /\ LogonTypeOK' /\ NamedConns' /\ \A x \in ForwardConns : Quiet(x)
<1> USE DEF TypeInv
<1> DEFINE Calm == \A x \in ForwardConns : Quiet(x)
           Goal == Ends' /\ Mail' /\ LogonTypeOK' /\ NamedConns' /\ Calm
           V    == Vetted(verified)
<1>0. /\ \A c \in HubLogonConns : c \in Conns /\ \A x \in ForwardConns \cup LogonConns : x # c
      /\ \A x \in LogonConns : x \in Conns /\ x # NoConn /\ x \notin ForwardConns
      /\ \A x \in ForwardConns : x \in Conns
  BY ConnKinds, NoConnNotConn
<1>a. logonHubConn \in Conns \cup {NoConn} /\ \A n \in Names : clientConns[n] \in Conns \cup {NoConn}
  BY <1>0 DEF LogonTypeOK, Opt
<1>b. ASSUME UNCHANGED <<cli, srv, lost, faults>>
      PROVE  Ends' /\ Calm /\ \A x \in LogonConns : Quiet(x)
  BY <1>b DEF Ends, Quiet
<1>1. ASSUME NEW c \in HubLogonConns, LogonConnectHub(c) PROVE Goal
  <2>1. Ends' /\ Calm /\ \A x \in LogonConns : Quiet(x)
    BY <1>0, <1>1 DEF LogonConnectHub, Connected, Ends, EndState, Quiet
  <2>2. Mail'
    BY <1>0, <1>1, PlainMessages, SetType DEF LogonConnectHub, Connected, Mail
  <2>3. LogonTypeOK'
    BY <1>1 DEF LogonConnectHub, LogonTypeOK, Opt
  <2> QED
    BY <1>1, <2>1, <2>2, <2>3, NamedStep DEF LogonConnectHub
<1>2. ASSUME NEW c \in HubLogonConns, LogonOnHubConnectionDown(c) PROVE Goal
  <2>1. Ends' /\ Calm /\ \A x \in LogonConns : Quiet(x)
    BY <1>0, <1>2 DEF LogonOnHubConnectionDown, CloseC, Ends, EndState, Quiet
  <2>2. Mail'
    BY <1>0, <1>2, PlainMessages, SendType, DrainedType DEF LogonOnHubConnectionDown, CloseC, Mail
  <2>3. LogonTypeOK'
    BY <1>2 DEF LogonOnHubConnectionDown, LogonTypeOK, Opt
  <2> QED
    BY <1>2, <2>1, <2>2, <2>3, NamedStep DEF LogonOnHubConnectionDown
<1>3. ASSUME NEW c \in HubLogonConns, LogonOnHubLogonAnswerForwardID(c) PROVE Goal
  <2> DEFINE m == Head(s2c[c])
             r == [type |-> "LogonRet", status |-> "SUCCESS", uid |-> m.uid, forward |-> m.forward,
                   session |-> m.session]
  <2>1. m \in V /\ m.type = "HubLogonAnswerForwardID" /\ Recv(s2c, c) \in Queues(V)
    BY <1>0, <1>3, ReadAtClient DEF LogonOnHubLogonAnswerForwardID
  <2>2. m.connname \in Names /\ r \in V
    BY <2>1, MessageFields, SessionMessages
  <2>3. s2c' = SendS(Recv(s2c, c), clientConns[m.connname], r)
    BY <1>3 DEF LogonOnHubLogonAnswerForwardID, LogonSendToClient
  <2>4. UNCHANGED <<cli, srv, c2s, lost, faults, logonVars>>
    BY <1>3 DEF LogonOnHubLogonAnswerForwardID
  <2> HIDE DEF m, r
  <2>5. Mail'
    BY <1>a, <2>1, <2>2, <2>3, <2>4, SendType DEF Mail, logonVars
  <2>6. LogonTypeOK'
    BY <2>4 DEF LogonTypeOK, logonVars
  <2> QED
    BY <1>b, <2>4, <2>5, <2>6, NamedStep DEF logonVars
<1>4. ASSUME NEW x \in LogonConns, LogonOnConnectionUp(x) PROVE Goal
  <2>1. Ends' /\ Calm
    BY <1>0, <1>4 DEF LogonOnConnectionUp, Ends, EndState, Quiet
  <2>2. Mail'
    BY <1>4 DEF LogonOnConnectionUp, Mail
  <2>3. nextConnId \in Names /\ nextConnId \in Nat /\ MaxNames \in Nat /\ nextConnId' = nextConnId + 1
    BY <1>4, LogonAssumption DEF LogonOnConnectionUp, LogonTypeOK, Names
  <2>4. clientConns' = [clientConns EXCEPT ![nextConnId] = x]
    BY <1>4 DEF LogonOnConnectionUp
  <2>5. LogonTypeOK'
    <3>1. clientConns' \in [Names -> Opt(LogonConns, NoConn)]
      BY <2>3, <2>4 DEF LogonTypeOK, Opt
    <3>2. nextConnId' \in 1..(MaxNames + 1)
      BY <2>3 DEF Names
    <3> QED
      BY <1>4, <3>1, <3>2 DEF LogonOnConnectionUp, LogonTypeOK
  <2>6. \A n \in Names : n >= nextConnId' => clientConns'[n] = NoConn
    BY <2>3, <2>4 DEF WellFormed, NamedConns, Names, LogonTypeOK
  <2>7. \A y \in LogonConns : y # x => cli'[y] = cli[y] /\ srv'[y] = srv[y]
    BY <1>0, <1>4 DEF LogonOnConnectionUp, Ends
  <2>8. \A y \in LogonConns : srv'[y] # "none" => cli'[y] # "none"
    BY <1>4, <2>7 DEF LogonOnConnectionUp, WellFormed, NamedConns
  <2>9. ASSUME NEW y \in LogonConns, srv'[y] \in Open PROVE \E n \in Names : clientConns'[n] = y
    <3>1. CASE y = x
      BY <2>3, <2>4, <3>1 DEF LogonTypeOK
    <3>2. CASE y # x
      <4>1. PICK n \in Names : clientConns[n] = y
        BY <2>7, <2>9, <3>2 DEF WellFormed, NamedConns
      <4>2. ~(n >= nextConnId)
        BY <1>0, <4>1 DEF WellFormed, NamedConns
      <4>3. clientConns'[n] = y
        BY <2>3, <2>4, <4>1, <4>2 DEF LogonTypeOK, Names
      <4> QED
        BY <4>3
    <3> QED
      BY <3>1, <3>2
  <2> QED
    BY <2>1, <2>2, <2>5, <2>6, <2>8, <2>9 DEF NamedConns
<1>5. ASSUME NEW x \in LogonConns, LogonOnConnectionDown(x) PROVE Goal
  <2> DEFINE o == NameOf(x)
  <2>1. o \in Names /\ clientConns[o] = x
    BY <1>5, NameOfOpen DEF LogonOnConnectionDown, ClosesS
  <2>2. clientConns' = [clientConns EXCEPT ![o] = NoConn] /\ nextConnId' = nextConnId
    BY <1>5 DEF LogonOnConnectionDown
  <2> HIDE DEF o
  <2>3. Ends' /\ Calm /\ \A y \in LogonConns : Quiet(y)
    BY <1>0, <1>5 DEF LogonOnConnectionDown, CloseS, ClosesS, Open, Ends, EndState, Quiet
  <2>4. Mail'
    BY <1>0, <1>5, PlainMessages, SendType, DrainedType DEF LogonOnConnectionDown, CloseS, Mail
  <2>5. LogonTypeOK'
    BY <1>5, <2>1, <2>2 DEF LogonOnConnectionDown, LogonTypeOK, Opt
  <2>6. \A n \in Names : n >= nextConnId' => clientConns'[n] = NoConn
    BY <2>1, <2>2 DEF WellFormed, NamedConns, LogonTypeOK
  <2>7. srv'[x] = "down"
    BY <1>0, <1>5 DEF LogonOnConnectionDown, CloseS, Ends
  <2>8. ASSUME NEW y \in LogonConns, srv'[y] \in Open PROVE \E n \in Names : clientConns'[n] = y
    <3>1. y # x /\ srv[y] \in Open
      BY <2>3, <2>7, <2>8 DEF Quiet, Open
    <3>2. PICK n \in Names : clientConns[n] = y
      BY <3>1 DEF WellFormed, NamedConns
    <3>3. clientConns'[n] = y
      BY <2>1, <2>2, <3>1, <3>2 DEF LogonTypeOK
    <3> QED
      BY <3>3
  <2>9. \A y \in LogonConns : srv'[y] # "none" => cli'[y] # "none"
    BY <2>3 DEF Quiet, WellFormed, NamedConns
  <2> QED
    BY <2>3, <2>4, <2>5, <2>6, <2>8, <2>9 DEF NamedConns
<1>6. ASSUME NEW x \in LogonConns, LogonOnLogon(x) PROVE Goal
  <2> DEFINE m == Head(c2s[x])
             t == [uid |-> m.uid, passwd |-> m.passwd, keeperserverid |-> m.keeperserverid, connname |-> NameOf(x)]
  <2>1. m \in V /\ m.type = "Logon" /\ Recv(c2s, x) \in Queues(V)
    BY <1>0, <1>6, ReadAtServer DEF LogonOnLogon
  <2>2. /\ m.uid \in Nat
        /\ m.passwd \in {ClientPasswd[c] : c \in Clients}
        /\ m.keeperserverid \in {ClientKeeper[c] : c \in Clients}
    BY <2>1, MessageFields
  <2>3. NameOf(x) \in Names
    BY <1>6, NameOfOpen DEF LogonOnLogon, ReadsS
  <2>4. /\ tasks' = tasks \cup {t}
        /\ c2s' = Recv(c2s, x)
        /\ UNCHANGED <<cli, srv, s2c, lost, faults, logonHubConn, clientConns, nextConnId, verified>>
    BY <1>6 DEF LogonOnLogon
  <2>5. LogonTypeOK'
    <3> HIDE DEF m
    <3> QED
      BY <2>2, <2>3, <2>4 DEF LogonTypeOK
  <2>6. Mail'
    BY <2>1, <2>4 DEF Mail
  <2> QED
    BY <1>b, <2>4, <2>5, <2>6, NamedStep
<1>7. ASSUME NEW t \in tasks, LogonQueryAccountMatch(t) PROVE Goal
  <2> DEFINE r == [type |-> "HubLogonQueryForwardID", uid |-> TaskUid(t), connname |-> t.connname,
                   keeperserverid |-> t.keeperserverid]
             e == [uid |-> TaskUid(t), connname |-> t.connname]
  <2>1. /\ c2s' = SendC(c2s, logonHubConn, r)
        /\ verified' = verified \cup {e}
        /\ tasks' = tasks \ {t}
        /\ UNCHANGED <<cli, srv, s2c, lost, faults, logonHubConn, clientConns, nextConnId>>
    BY <1>7 DEF LogonQueryAccountMatch, LogonSendToHub
  <2>2. /\ TaskUid(t) \in Uids
        /\ t.connname \in Names
        /\ \E c \in Clients : t.keeperserverid = ClientKeeper[c]
    BY TaskUidType
  <2>3. e \in [uid : Uids, connname : Names]
    BY <2>2
  <2>4. r \in Vetted(verified')
    BY <2>1, <2>2, CertificateMessages
  <2>5. c2s \in Queues(Vetted(verified')) /\ s2c \in Queues(Vetted(verified'))
    <3>1. verified \subseteq verified'
      BY <2>1
    <3>2. Vetted(verified) \subseteq Vetted(verified')
      BY <3>1, VettedMonotone
    <3> QED
      BY <3>2, QueuesMonotone DEF Mail
  <2> HIDE DEF r, e
  <2>6. Mail'
    BY <1>a, <2>1, <2>4, <2>5, SendType DEF Mail
  <2>7. LogonTypeOK'
    BY <2>1, <2>3 DEF LogonTypeOK
  <2> QED
    BY <1>b, <2>1, <2>6, <2>7, NamedStep
<1>8. ASSUME NEW t \in tasks, LogonQueryAccountMismatch(t) PROVE Goal
  <2> DEFINE x == clientConns[t.connname]
             r == [type |-> "LogonRet", status |-> "FAILED", uid |-> TaskUid(t)]
  <2>1. /\ IF x = NoConn THEN UNCHANGED <<srv, s2c>> ELSE ShutdownS(x, SendS(s2c, x, r))
        /\ tasks' = tasks \ {t}
        /\ UNCHANGED <<cli, c2s, lost, faults, logonHubConn, clientConns, nextConnId, verified>>
    BY <1>8 DEF LogonQueryAccountMismatch, LogonSendAndShutdown, LogonSendToClient
  <2>2. r \in V /\ x \in LogonConns \cup {NoConn}
    <3>1. TaskUid(t) \in Uids /\ t.connname \in Names
      BY TaskUidType
    <3> QED
      BY <3>1, PlainMessages DEF LogonTypeOK, Opt
  <2> HIDE DEF x, r
  <2>3. Mail'
    <3>1. CASE x = NoConn
      BY <2>1, <3>1 DEF Mail
    <3>2. CASE x # NoConn
      <4>1. x \in Conns
        BY <1>0, <2>2, <3>2
      <4>2. SendS(s2c, x, r) \in Queues(V)
        BY <2>2, <4>1, SendType DEF Mail
      <4>3. s2c' \in Queues(V)
        BY <2>1, <3>2, <4>1, <4>2, PlainMessages, SendType DEF ShutdownS
      <4> QED
        BY <2>1, <4>3 DEF Mail
    <3> QED
      BY <3>1, <3>2
  <2>4. Ends' /\ Calm /\ \A y \in LogonConns : Quiet(y)
    <3>1. CASE x = NoConn
      BY <1>b, <2>1, <3>1
    <3>2. CASE x # NoConn
      BY <1>0, <2>1, <2>2, <3>2 DEF ShutdownS, Ends, EndState, Quiet, Open
    <3> QED
      BY <3>1, <3>2
  <2>5. LogonTypeOK'
    BY <2>1 DEF LogonTypeOK
  <2> QED
    BY <2>1, <2>3, <2>4, <2>5, NamedStep
<1>9. ASSUME NEW t \in tasks, LogonQueryAccountNoConnection(t) PROVE Goal
  <2>1. tasks' = tasks \ {t} /\ UNCHANGED <<netVars, logonHubConn, clientConns, nextConnId, verified>>
    BY <1>9 DEF LogonQueryAccountNoConnection
  <2>2. LogonTypeOK'
    BY <2>1 DEF LogonTypeOK
  <2> QED
    BY <1>b, <2>1, <2>2, NamedStep DEF netVars, Mail
<1>10. ASSUME LogonRestart PROVE Goal
  <2>1. Die(HubLogonConns, LogonConns) /\ UNCHANGED verified
    BY <1>10 DEF LogonRestart
  <2>2. Ends' /\ Mail'
    BY <1>10, <2>1, DieType, RestartFaults DEF LogonRestart, Ends
  <2>3. LogonTypeOK'
    BY <1>10, LogonAssumption DEF LogonRestart, LogonTypeOK, Opt
  <2>4. Calm
    BY <1>0, <2>1, DieType DEF Quiet
  <2>5. ASSUME NEW x \in LogonConns
        PROVE  (srv'[x] # "none" => cli'[x] # "none") /\ srv'[x] \notin Open
    <3>1. /\ cli[x] # "none" => cli'[x] # "none"
          /\ srv'[x] = IF x \in Live THEN "down" ELSE srv[x]
      BY <1>0, <2>1, DieType
    <3>2. srv[x] # "none" => cli[x] # "none"
      BY DEF WellFormed, NamedConns
    <3>3. x \notin Live => srv[x] \in {"none", "down"}
      BY <1>0, <3>2 DEF Live
    <3>4. x \in Live => cli[x] # "none"
      BY DEF Live
    <3> QED
      BY <3>1, <3>2, <3>3, <3>4 DEF Open
  <2>6. NamedConns'
    BY <1>10, <2>5 DEF LogonRestart, NamedConns
  <2> QED
    BY <2>2, <2>3, <2>4, <2>6
<1> QED
  BY <1>1, <1>2, <1>3, <1>4, <1>5, <1>6, <1>7, <1>8, <1>9, <1>10 DEF LogonStep

(* A step of the logon server keeps the inductive invariant. *)
LEMMA LogonStepType ==
  ASSUME TypeInv, Logon
  PROVE  TypeInv'
<1>1. LogonStep /\ UNCHANGED <<hubVars, keeperVars, forwardVars, clientVars>>
  BY DEF Logon
<1>2. HubTypeOK' /\ KeeperTypeOK' /\ ForwardTypeOK' /\ ClientTypeOK' /\ DistinctStarts'
  BY <1>1 DEF hubVars, keeperVars, forwardVars, clientVars, HubTypeOK, KeeperTypeOK, ForwardTypeOK, ClientTypeOK,
         TypeInv, WellFormed, DistinctStarts
<1>3. Ends' /\ Mail' /\ LogonTypeOK' /\ NamedConns' /\ \A x \in ForwardConns : Quiet(x)
  BY <1>1, LogonActions
<1>4. ServedByServer'
  BY <1>1, <1>3, ServedStep DEF forwardVars
<1> QED
  BY <1>2, <1>3, <1>4 DEF TypeInv, WellFormed

-----------------------------------------------------------------------------
(* A client's handlers keep their own state, the connections and the       *)
(* messages typed, and connect only to a process with a ForwardServer.     *)
LEMMA ClientActions ==
  ASSUME TypeInv, NEW c \in Clients, ClientStep(c), UNCHANGED verified
  PROVE  Ends' /\ Mail' /\ ForwardTypeOK' /\ ClientTypeOK' /\ ServedByServer' /\ \A y \in LogonConns : Quiet(y)
<1> USE DEF TypeInv
<1> DEFINE Calm == \A y \in ForwardConns \cup LogonConns : Quiet(y)
           Goal == /\ Ends' /\ Mail' /\ ForwardTypeOK' /\ ClientTypeOK' /\ ServedByServer'
                   /\ \A y \in LogonConns : Quiet(y)
           V    == Vetted(verified)
           x    == LogonConnOf(c)
           f    == forwardClient[c]
           F    == [conn : ForwardConns, to : ServerIds, uid : Uids, session : Sessions]
<1>0. x \in LogonConns /\ x \in Conns
  <2>1. x \in LogonConns
    BY DEF LogonConnOf, LogonConns
  <2> QED
    BY <2>1, ConnKinds
<1> HIDE DEF x
<1>a. forwardClient \in [Clients -> F \cup {NoClient}]
  BY DEF ClientTypeOK, Opt
<1>b. f # NoClient => /\ f.conn \in ForwardConns
                      /\ f.conn \in Conns
                      /\ f.to \in ServerIds
                      /\ f.uid \in Uids
                      /\ f.session \in Sessions
  <2>1. f # NoClient => f \in F
    BY <1>a
  <2> HIDE DEF f
  <2> QED
    BY <2>1, ConnKinds
<1>c. ASSUME UNCHANGED <<forwardVars, clientVars>>, Calm PROVE ForwardTypeOK' /\ ClientTypeOK' /\ ServedByServer'
  <2>1. ForwardTypeOK' /\ ClientTypeOK'
    BY <1>c DEF forwardVars, clientVars, ForwardTypeOK, ClientTypeOK
  <2>2. ServedByServer'
    BY <1>c, ServedStep DEF forwardVars
  <2> QED
    BY <2>1, <2>2
<1>d. ASSUME NEW y \in Conns, CloseC(y), UNCHANGED <<srv, lost, faults>> PROVE Ends' /\ Mail' /\ Calm
  <2>1. Ends' /\ Calm
    BY <1>d, ConnKinds DEF CloseC, Ends, EndState, Quiet
  <2>2. Mail'
    BY <1>d, PlainMessages, SendType, DrainedType DEF CloseC, Mail
  <2> QED
    BY <2>1, <2>2
<1>e. ASSUME ReadsC(x, "LogonRet"), ShutdownC(x, c2s), s2c' = Recv(s2c, x), UNCHANGED <<srv, lost, faults>>
      PROVE  Ends' /\ Mail' /\ Calm
  <2>1. Ends' /\ Calm
    BY <1>0, <1>e, ConnKinds DEF ShutdownC, Ends, EndState, Quiet
  <2>2. Recv(s2c, x) \in Queues(V)
    BY <1>0, <1>e, ReadAtClient
  <2>3. Mail'
    BY <1>0, <1>e, <2>2, PlainMessages, SendType DEF ShutdownC, Mail
  <2> QED
    BY <2>1, <2>3
<1>1. ASSUME ClientConnect(c) PROVE Goal
  <2> DEFINE m == [type |-> "Logon", uid |-> ClientUid[c], passwd |-> ClientPasswd[c],
                   keeperserverid |-> ClientKeeper[c]]
  <2>1. Connected(x, m) /\ UNCHANGED <<srv, s2c, lost, faults, forwardVars, clientVars>>
    BY <1>1 DEF ClientConnect, x
  <2>2. m \in V
    BY LogonMessage
  <2> HIDE DEF m
  <2>3. Ends' /\ Calm
    BY <1>0, <2>1, ConnKinds DEF Connected, Ends, EndState, Quiet
  <2>4. Mail'
    BY <1>0, <2>1, <2>2, SetType DEF Connected, Mail
  <2> QED
    BY <1>c, <2>1, <2>3, <2>4
<1>2. ASSUME ClientOnConnectionDown(c) PROVE Goal
  BY <1>0, <1>2, <1>c, <1>d DEF ClientOnConnectionDown, x
<1>3. ASSUME ClientOnLogonRetFailed(c) PROVE Goal
  BY <1>3, <1>c, <1>e DEF ClientOnLogonRetFailed, x
<1>4. ASSUME ClientOnMisframedLogonRet(c) PROVE Goal
  BY <1>4, <1>c, <1>e DEF ClientOnMisframedLogonRet, x
<1>5. ASSUME ClientOnLogonRetSuccess(c) PROVE Goal
  <2> DEFINE m   == Head(s2c[x])
             old == f.conn
             new == [conn |-> NextForwardConn(c), to |-> m.forward, uid |-> m.uid, session |-> m.session]
  <2>1. /\ ReadsC(x, "LogonRet")
        /\ m.status = "SUCCESS"
        /\ NextForwardConn(c) \in ForwardConns
        /\ forwardClient' = [forwardClient EXCEPT ![c] = new]
        /\ \/ /\ old # NoConn
              /\ cli' = [cli EXCEPT ![old] = "down"]
              /\ s2c' = Drained(Recv(s2c, x), old)
              /\ c2s' = SendC(c2s, old, FIN)
           \/ s2c' = Recv(s2c, x) /\ UNCHANGED <<cli, c2s>>
        /\ UNCHANGED <<srv, lost, faults, forwardVars>>
    BY <1>5 DEF ClientOnLogonRetSuccess, x
  <2>2. m \in V /\ m.type = "LogonRet" /\ Recv(s2c, x) \in Queues(V)
    BY <1>0, <2>1, ReadAtClient
  <2>3. new \in F
    BY <2>1, <2>2, MessageFields
  <2>4. old # NoConn => old \in Conns
    BY <1>b DEF NoClient
  <2> HIDE DEF m, new, F, f
  <2>5. ClientTypeOK'
    <3>1. forwardClient' \in [Clients -> F \cup {NoClient}]
      BY <1>a, <2>1, <2>3
    <3> QED
      BY <3>1 DEF ClientTypeOK, Opt, F
  <2>6. Ends' /\ Mail' /\ Calm
    <3>1. CASE s2c' = Recv(s2c, x) /\ UNCHANGED <<cli, c2s>>
      BY <2>1, <2>2, <3>1 DEF Ends, Mail, Quiet
    <3>2. CASE /\ old # NoConn
               /\ cli' = [cli EXCEPT ![old] = "down"]
               /\ s2c' = Drained(Recv(s2c, x), old)
               /\ c2s' = SendC(c2s, old, FIN)
      <4> HIDE DEF old
      <4>1. Ends' /\ Calm
        BY <2>1, <2>4, <3>2, ConnKinds DEF Ends, EndState, Quiet
      <4>2. Mail'
        BY <2>2, <2>4, <3>2, PlainMessages, SendType, DrainedType DEF Mail
      <4> QED
        BY <4>1, <4>2
    <3> QED
      BY <2>1, <3>1, <3>2
  <2>7. ForwardTypeOK'
    BY <2>1 DEF ForwardTypeOK, forwardVars
  <2>8. ServedByServer'
    BY <2>1, <2>6, ServedStep DEF forwardVars
  <2> QED
    BY <2>5, <2>6, <2>7, <2>8
<1>6. ASSUME NEW p \in Forwards, ForwardClientConnect(c, p) PROVE Goal
  <2> DEFINE m == [type |-> "LogonForward", uid |-> f.uid, session |-> f.session]
             y == f.conn
  <2>1. /\ f # NoClient
        /\ cli[y] = "none"
        /\ server[p] = f.to
        /\ cli' = [cli EXCEPT ![y] = "up"]
        /\ c2s' = [c2s EXCEPT ![y] = <<m>>]
        /\ peer' = [peer EXCEPT ![y] = p]
        /\ UNCHANGED <<srv, s2c, lost, faults, clientVars,
                       alive, keeperConn, server, sessions, checks, issued, admitted>>
    BY <1>6 DEF ForwardClientConnect, Listening
  <2>2. y \in ForwardConns /\ y \in Conns /\ m \in V /\ server[p] # NoServer
    <3>1. m \in V
      BY <1>b, <2>1, SessionMessages
    <3> QED
      BY <1>b, <2>1, <3>1, ConfigAssumption DEF NoServer
  <2> HIDE DEF m, y, f
  <2>3. Ends' /\ \A z \in LogonConns : Quiet(z)
    BY <2>1, <2>2, ConnKinds DEF Ends, EndState, Quiet
  <2>4. Mail'
    BY <2>1, <2>2, SetType DEF Mail
  <2>5. ForwardTypeOK' /\ ClientTypeOK'
    <3>1. peer' \in [ForwardConns -> Opt(Forwards, Nobody)]
      BY <2>1, <2>2 DEF ForwardTypeOK, Opt
    <3> QED
      BY <2>1, <3>1 DEF ForwardTypeOK, ClientTypeOK, clientVars
  <2>6. ServedByServer'
    <3> SUFFICES ASSUME NEW z \in ForwardConns, NEW q \in Forwards, peer'[z] = q
                 PROVE  cli'[z] # "none" /\ (srv[z] # "down" => server[q] # NoServer)
      BY <2>1 DEF ServedByServer
    <3>1. CASE z = y
      BY <2>1, <2>2, <3>1 DEF Ends, ForwardTypeOK
    <3>2. CASE z # y
      BY <2>1, <2>2, <3>2, ConnKinds DEF Ends, ForwardTypeOK, WellFormed, ServedByServer
    <3> QED
      BY <3>1, <3>2
  <2> QED
    BY <2>3, <2>4, <2>5, <2>6
<1>7. ASSUME ForwardClientOnConnectionDown(c) PROVE Goal
  BY <1>7, <1>b, <1>c, <1>d DEF ForwardClientOnConnectionDown
<1> QED
  BY <1>1, <1>2, <1>3, <1>4, <1>5, <1>6, <1>7 DEF ClientStep

(* A step of a client keeps the inductive invariant. *)
LEMMA ClientStepType ==
  ASSUME TypeInv, NEW c \in Clients, Client(c)
  PROVE  TypeInv'
<1>1. ClientStep(c) /\ UNCHANGED <<hubVars, keeperVars, logonVars>>
  BY DEF Client
<1>2. HubTypeOK' /\ KeeperTypeOK' /\ LogonTypeOK' /\ DistinctStarts'
  BY <1>1 DEF hubVars, keeperVars, logonVars, HubTypeOK, KeeperTypeOK, LogonTypeOK,
         TypeInv, WellFormed, DistinctStarts
<1>3. /\ Ends' /\ Mail' /\ ForwardTypeOK' /\ ClientTypeOK' /\ ServedByServer'
      /\ \A y \in LogonConns : Quiet(y)
  BY <1>1, ClientActions DEF logonVars
<1>4. NamedConns'
  BY <1>1, <1>3, NamedStep DEF logonVars
<1> QED
  BY <1>2, <1>3, <1>4 DEF TypeInv, WellFormed

(* A cut of a connection keeps the inductive invariant. *)
LEMMA NetworkStepType ==
  ASSUME TypeInv, Network
  PROVE  TypeInv'
<1>1. PICK c \in Conns : Cut(c) /\ UNCHANGED <<hubVars, keeperVars, forwardVars, logonVars, clientVars>>
  BY DEF Network
<1>2. /\ HubTypeOK' /\ KeeperTypeOK' /\ ForwardTypeOK' /\ LogonTypeOK' /\ ClientTypeOK' /\ DistinctStarts'
  BY <1>1 DEF hubVars, keeperVars, forwardVars, logonVars, clientVars, HubTypeOK, KeeperTypeOK, ForwardTypeOK,
         LogonTypeOK, ClientTypeOK, TypeInv, WellFormed, DistinctStarts
<1>3. lost' \in [Conns -> BOOLEAN]
  <2>1. lost \in [Conns -> BOOLEAN] /\ lost' = [lost EXCEPT ![c] = TRUE]
    BY <1>1 DEF Cut, TypeInv, Ends
  <2> QED
    BY <2>1
<1>4. faults' \in 0..MaxFaults
  BY <1>1, NetAssumption DEF Cut, TypeInv, Ends
<1>5. Ends' /\ Mail' /\ \A x \in ForwardConns \cup LogonConns : Quiet(x)
  BY <1>1, <1>3, <1>4 DEF Cut, TypeInv, Ends, Mail, Quiet, logonVars
<1>6. ServedByServer' /\ NamedConns'
  BY <1>1, <1>5, ServedStep, NamedStep DEF forwardVars, logonVars
<1> QED
  BY <1>2, <1>5, <1>6 DEF TypeInv, WellFormed

-----------------------------------------------------------------------------
(* The inductive invariant holds in every state the cluster can reach, for *)
(* any number of servers, clients, connections and faults.                 *)
THEOREM TypeInvariance == Spec => []TypeInv
<1>1. Init => TypeInv
  BY InitTypeInv
<1>2. TypeInv /\ [Next]_vars => TypeInv'
  <2> SUFFICES ASSUME TypeInv, [Next]_vars PROVE TypeInv'
    OBVIOUS
  <2>1. CASE Next
    BY <2>1, HubStepType, KeeperStepType, ForwardStepType, LogonStepType, ClientStepType, NetworkStepType DEF Next
  <2>2. CASE UNCHANGED vars
    <3>1. UNCHANGED <<cli, srv, c2s, s2c, lost, faults, verified>>
      BY <2>2 DEF vars, netVars, logonVars
    <3>2. Ends' /\ Mail'
      BY <3>1 DEF TypeInv, Ends, Mail
    <3>3. UNCHANGED <<hubVars, keeperVars, forwardVars, logonVars, clientVars>>
      BY <2>2 DEF vars
    <3>4. HubTypeOK' /\ KeeperTypeOK' /\ ForwardTypeOK' /\ LogonTypeOK' /\ ClientTypeOK' /\ DistinctStarts'
      BY <3>3 DEF hubVars, keeperVars, forwardVars, logonVars, clientVars, HubTypeOK, KeeperTypeOK, ForwardTypeOK,
             LogonTypeOK, ClientTypeOK, TypeInv, WellFormed, DistinctStarts
    <3>5. ServedByServer' /\ NamedConns'
      BY <3>1, <3>3, ServedStep, NamedStep DEF forwardVars, logonVars, Quiet
    <3> QED
      BY <3>2, <3>4, <3>5 DEF TypeInv, WellFormed
  <2> QED
    BY <2>1, <2>2
<1> QED
  BY <1>1, <1>2, PTL DEF Spec

(* Every variable has its type and every message in flight is one its      *)
(* destination understands, whatever connections are cut and processes     *)
(* restarted.                                                              *)
THEOREM TypeCorrect == Spec => []TypeOK
BY TypeInvariance, TypeInvImpliesTypeOK, PTL

(* The index at KeeperServer.cc:142 is within serverConfig_, a connection  *)
(* to be served has its ForwardServer, and an open client connection of    *)
(* the logon server is in clientConns_ under a name that no later one is   *)
(* given.                                                                  *)
THEOREM WellFormedData == Spec => []WellFormed
<1>1. TypeInv => WellFormed
  BY DEF TypeInv
<1> QED
  BY <1>1, TypeInvariance, PTL
=============================================================================

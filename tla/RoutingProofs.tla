---------------------------- MODULE RoutingProofs ----------------------------
(***************************************************************************)
(* Who is at the other end of the connections the servers keep.            *)
(*                                                                         *)
(* RegInv: a process keeps in its tables only connections that are open at *)
(* its end, of the kind and with the owner that the table is for. It holds *)
(* because a connection leaves every table in the handler that closes it,  *)
(* and because the type a hub connection introduces itself with is that of *)
(* the program at its other end.                                           *)
(*                                                                         *)
(* RouteInv: the id a keeper has given to a connection is the id of the    *)
(* ForwardServer behind it, once the answer has been read; the answer is   *)
(* in flight until then, and every session request is behind it. This      *)
(* takes the whole course of a registration: a forward process asks once   *)
(* per connection, and has one connection at a time.                       *)
(*                                                                         *)
(* The first part frames the processes' steps: which connections a step of *)
(* one process can touch, and what it can do to the queues of the others.  *)
(***************************************************************************)
EXTENDS MmvxProofs

(* The step leaves connection c as it is, at both ends and in between. *)
Untouched(c) == /\ cli'[c] = cli[c]
                /\ srv'[c] = srv[c]
                /\ c2s'[c] = c2s[c]
                /\ s2c'[c] = s2c[c]
                /\ lost'[c] = lost[c]

(* The messages of type t in a queue. *)
Sent(q, t) == {q[i] : i \in {j \in DOMAIN q : q[j].type = t}}

(* Of an empty queue and of one with a single message. *)
LEMMA SentOne ==
  ASSUME NEW m, NEW t
  PROVE  /\ Sent(<<>>, t) = {}
         /\ m.type = t => Sent(<<m>>, t) = {m}
         /\ m.type # t => Sent(<<m>>, t) = {}
BY DEF Sent

(* Sending adds the message to those of its type. *)
LEMMA SentAppend ==
  ASSUME NEW M, NEW q \in Seq(M), NEW m, NEW t
  PROVE  /\ m.type = t => Sent(Append(q, m), t) = Sent(q, t) \cup {m}
         /\ m.type # t => Sent(Append(q, m), t) = Sent(q, t)
<1>1. DOMAIN Append(q, m) = 1..(Len(q) + 1) /\ DOMAIN q = 1..Len(q) /\ Len(q) \in Nat
  OBVIOUS
<1>2. \A i \in 1..Len(q) : Append(q, m)[i] = q[i]
  OBVIOUS
<1>3. Append(q, m)[Len(q) + 1] = m
  OBVIOUS
<1>4. 1..(Len(q) + 1) = 1..Len(q) \cup {Len(q) + 1}
  BY <1>1
<1> QED
  BY <1>1, <1>2, <1>3, <1>4 DEF Sent

(* Reading takes at most the first message away. *)
LEMMA SentTail ==
  ASSUME NEW M, NEW q \in Seq(M), q # <<>>, NEW t
  PROVE  /\ Sent(Tail(q), t) \subseteq Sent(q, t)
         /\ Sent(q, t) \subseteq Sent(Tail(q), t) \cup {Head(q)}
         /\ Head(q).type # t => Sent(Tail(q), t) = Sent(q, t)
<1>1. DOMAIN Tail(q) = 1..(Len(q) - 1) /\ DOMAIN q = 1..Len(q) /\ Len(q) \in Nat /\ Len(q) > 0 /\ Head(q) = q[1]
  OBVIOUS
<1>2. \A i \in 1..(Len(q) - 1) : Tail(q)[i] = q[i + 1] /\ i + 1 \in 1..Len(q)
  OBVIOUS
<1>3. \A i \in 1..Len(q) : i = 1 \/ (i - 1 \in 1..(Len(q) - 1) /\ Tail(q)[i - 1] = q[i])
  OBVIOUS
<1>4. /\ Sent(Tail(q), t) = {Tail(q)[i] : i \in {j \in 1..(Len(q) - 1) : Tail(q)[j].type = t}}
      /\ Sent(q, t) = {q[i] : i \in {j \in 1..Len(q) : q[j].type = t}}
  BY <1>1 DEF Sent
<1>5. \A i \in 1..(Len(q) - 1) : Tail(q)[i].type = t => Tail(q)[i] \in Sent(q, t)
  BY <1>2, <1>4
<1>6. \A i \in 1..Len(q) : q[i].type = t => i = 1 \/ q[i] \in Sent(Tail(q), t)
  BY <1>3, <1>4
<1>7. \A x \in Sent(Tail(q), t) : x \in Sent(q, t)
  BY <1>4, <1>5
<1>8. \A x \in Sent(q, t) : x \in Sent(Tail(q), t) \/ (x = Head(q) /\ Head(q).type = t)
  BY <1>1, <1>4, <1>6
<1> QED
  BY <1>7, <1>8

(* Sending on connection c a message that is not of type t leaves those of *)
(* type t as they are, on every connection d.                              *)
LEMMA SentOther ==
  ASSUME NEW M, NEW q \in Queues(M), NEW d \in Conns, NEW c, NEW m, NEW t, m.type # t
  PROVE  Sent(SendC(q, c, m)[d], t) = Sent(q[d], t) /\ Sent(SendS(q, c, m)[d], t) = Sent(q[d], t)
<1> DEFINE s == q[d]
<1>1. s \in Seq(M)
  BY DEF Queues
<1>2. SendC(q, c, m)[d] \in {s, Append(s, m)} /\ SendS(q, c, m)[d] \in {s, Append(s, m)}
  BY DEF SendC, SendS, Queues
<1> HIDE DEF s
<1>3. Sent(Append(s, m), t) = Sent(s, t)
  BY <1>1, SentAppend
<1> QED
  BY <1>2, <1>3 DEF s

(* What is discarded or read is not there any more; nothing is added. *)
LEMMA SentMail ==
  ASSUME NEW M, NEW q \in Queues(M), NEW d \in Conns, NEW t
  PROVE  /\ \A c : /\ Sent(Drained(q, c)[d], t) \subseteq Sent(q[d], t)
                   /\ Sent(Emptied(q, c)[d], t) \subseteq Sent(q[d], t)
         /\ \A c \in Conns : q[c] # <<>> => Sent(Recv(q, c)[d], t) \subseteq Sent(q[d], t)
<1> DEFINE s == q[d]
<1>1. s \in Seq(M)
  BY DEF Queues
<1>2. /\ \A c : Drained(q, c)[d] \in {s, <<>>} /\ Emptied(q, c)[d] \in {s, <<>>}
      /\ \A c \in Conns : Recv(q, c)[d] = IF c = d THEN Tail(s) ELSE s
  BY DEF Drained, Emptied, Recv, Queues
<1>3. d \in Conns /\ s = q[d]
  OBVIOUS
<1> HIDE DEF s
<1>4. s # <<>> => Sent(Tail(s), t) \subseteq Sent(s, t)
  BY <1>1, SentTail
<1>5. Sent(<<>>, t) = {}
  BY SentOne
<1> QED
  BY <1>2, <1>3, <1>4, <1>5

(* The death of a process leaves the connections alone that it has no end  *)
(* of.                                                                     *)
LEMMA OtherDeaths ==
  ASSUME TypeInv, NEW C, NEW S, Die(C, S), NEW c \in Conns
  PROVE  /\ c \notin C /\ c \notin S => Untouched(c)
         /\ cli'[c] = IF c \in C /\ c \in Live THEN "down" ELSE cli[c]
         /\ srv'[c] = IF c \in S /\ c \in Live THEN "down" ELSE srv[c]
<1>1. /\ cli'[c] = IF c \in C /\ c \in Live THEN "down" ELSE cli[c]
      /\ srv'[c] = IF c \in S /\ c \in Live THEN "down" ELSE srv[c]
  BY DEF Die, Killed
<1>2. ASSUME c \notin C, c \notin S PROVE c2s'[c] = c2s[c] /\ s2c'[c] = s2c[c]
  BY <1>2 DEF Die, Emptied
<1>3. ASSUME c \notin C, c \notin S PROVE lost'[c] = lost[c]
  <2>1. lost[c] \in BOOLEAN
    BY DEF TypeInv, Ends
  <2>2. lost'[c] = (lost[c] \/ c \in (C \cup S) \cap Live)
    BY DEF Die, LostAlso
  <2> QED
    BY <1>3, <2>1, <2>2
<1> QED
  BY <1>1, <1>2, <1>3 DEF Untouched

-----------------------------------------------------------------------------
(* The hub changes only accepting ends, and only those of its own          *)
(* connections.                                                            *)
LEMMA HubFrame ==
  ASSUME TypeInv, HubStep, NEW d \in Conns
  PROVE  /\ cli'[d] = cli[d]
         /\ d \notin HubConns => Untouched(d)
<1> USE DEF TypeInv
<1> DEFINE Goal == cli'[d] = cli[d] /\ (d \notin HubConns => Untouched(d))
<1>0. /\ \A c \in HubConns : c \in Conns
      /\ \A k \in Keepers : keeperConns[k] \in HubConns \cup {NoConn}
      /\ logonConn \in HubConns \cup {NoConn}
  BY ConnKinds DEF HubTypeOK, Opt
<1>a. /\ c2s \in Queues(Vetted(verified)) /\ s2c \in Queues(Vetted(verified)) /\ d # NoConn
      /\ srv \in [Conns -> EndState]
  BY NoConnNotConn DEF Mail, Ends
<1>1. ASSUME NEW c \in HubConns, HubOnConnectionDown(c) PROVE Goal
  BY <1>0, <1>a, <1>1 DEF SendS, SendC, Recv, Drained, Queues, HubOnConnectionDown, CloseS, Untouched
<1>2. ASSUME NEW c \in HubConns, HubOnHubConnectionData(c) PROVE Goal
  BY <1>0, <1>a, <1>2 DEF SendS, SendC, Recv, Drained, Queues, HubOnHubConnectionData, Untouched
<1>3. ASSUME NEW c \in HubConns, HubOnHubKeeperLogonSessionRet(c) PROVE Goal
  <2>1. \E m : s2c' = SendS(s2c, logonConn, m)
    BY <1>3 DEF HubOnHubKeeperLogonSessionRet, HubSendToLogon
  <2>2. c2s' = Recv(c2s, c) /\ UNCHANGED <<cli, srv, lost>>
    BY <1>3 DEF HubOnHubKeeperLogonSessionRet
  <2> QED
    BY <1>0, <1>a, <2>1, <2>2 DEF SendS, SendC, Recv, Drained, Queues, Untouched
<1>4. ASSUME NEW c \in HubConns, HubOnHubKeeperUpdateForwardConns(c) PROVE Goal
  BY <1>0, <1>a, <1>4 DEF SendS, SendC, Recv, Drained, Queues, HubOnHubKeeperUpdateForwardConns, Untouched
<1>5. ASSUME NEW c \in HubConns, HubOnHubLogonQueryForwardID(c) PROVE Goal
  <2>1. s2c' = s2c \/ \E k \in Keepers : \E m : s2c' = SendS(s2c, keeperConns[k], m)
    BY <1>5 DEF HubOnHubLogonQueryForwardID, HubSendToKeeper
  <2>2. c2s' = Recv(c2s, c) /\ UNCHANGED <<cli, srv, lost>>
    BY <1>5 DEF HubOnHubLogonQueryForwardID
  <2> QED
    BY <1>0, <1>a, <2>1, <2>2 DEF SendS, SendC, Recv, Drained, Queues, Untouched
<1>6. ASSUME HubRestart PROVE Goal
  BY <1>6, OtherDeaths DEF HubRestart
<1> QED
  BY <1>1, <1>2, <1>3, <1>4, <1>5, <1>6 DEF HubStep

-----------------------------------------------------------------------------
(* What the hub has registered is an open connection of the right link. *)
HubRegistered ==
    /\ logonConn # NoConn => logonConn \in HubLogonConns /\ srv[logonConn] \in Open
    /\ \A k \in Keepers : keeperConns[k] # NoConn =>
                            keeperConns[k] \in HubKeeperConns /\ srv[keeperConns[k]] \in Open

(* What a keeper has registered, or is about to, is an open connection of  *)
(* its own.                                                                *)
KeeperRegistered ==
    \A k \in Keepers :
        /\ keeperHubConn[k] # NoConn => Owner(keeperHubConn[k]) = k /\ cli[keeperHubConn[k]] \in Open
        /\ \A id \in ServerIds : conns[k][id] # NoConn =>
                KeeperOf[Owner(conns[k][id])] = k /\ srv[conns[k][id]] \in Open
        /\ starting[k] # NotStarting =>
                KeeperOf[Owner(starting[k].conn)] = k /\ srv[starting[k].conn] \in Open

(* What a forward process has registered is an open connection of its own. *)
ForwardRegistered ==
    \A p \in Forwards : keeperConn[p] # NoConn => Owner(keeperConn[p]) = p /\ cli[keeperConn[p]] \in Open

(* What the logon server has registered is open, and under one name.       *)
LogonRegistered ==
    /\ logonHubConn # NoConn => cli[logonHubConn] \in Open
    /\ \A n \in Names : clientConns[n] # NoConn =>
           /\ srv[clientConns[n]] \in Open
           /\ \A m \in Names : clientConns[m] = clientConns[n] => m = n

(* The ends of connections that keeper k has. *)
KeeperEnds(k) == {c \in HubKeeperConns : Owner(c) = k} \cup {c \in KeeperForwardConns : KeeperOf[Owner(c)] = k}

(* A keeper touches its own connections, closes no accepting end of the    *)
(* hub and no connecting end of a forward process.                         *)
LEMMA KeeperFrame ==
  ASSUME TypeInv, KeeperRegistered, NEW k \in Keepers, KeeperStep(k), NEW d \in Conns
  PROVE  /\ d \notin KeeperEnds(k) => Untouched(d)
         /\ d \in HubKeeperConns /\ srv[d] \in Open => srv'[d] \in Open
         /\ d \in KeeperForwardConns => cli'[d] = cli[d]
<1> USE DEF TypeInv
<1> DEFINE Goal == /\ d \notin KeeperEnds(k) => Untouched(d)
                   /\ d \in HubKeeperConns /\ srv[d] \in Open => srv'[d] \in Open
                   /\ d \in KeeperForwardConns => cli'[d] = cli[d]
<1>0. /\ \A c \in HubKeeperConns : c \in Conns /\ c \notin KeeperForwardConns
      /\ \A c \in KeeperForwardConns : c \in Conns /\ c \notin HubKeeperConns
      /\ \A c \in KeeperEnds(k) : c \in Conns
  BY ConnKinds DEF KeeperEnds
<1>d. /\ keeperHubConn[k] \in KeeperEnds(k) \cup {NoConn}
      /\ \A id \in ServerIds : conns[k][id] \in KeeperEnds(k) \cup {NoConn}
  BY DEF KeeperTypeOK, Opt, KeeperRegistered, KeeperEnds
<1>a. /\ c2s \in Queues(Vetted(verified)) /\ s2c \in Queues(Vetted(verified)) /\ d # NoConn
      /\ srv \in [Conns -> EndState] /\ cli \in [Conns -> EndState]
  BY NoConnNotConn DEF Mail, Ends
<1>b. /\ \A c \in HubKeeperConns : Owner(c) = k => c \in KeeperEnds(k)
      /\ \A c \in KeeperForwardConns : KeeperOf[Owner(c)] = k => c \in KeeperEnds(k)
  BY DEF KeeperEnds
<1>c. ASSUME NEW c \in KeeperEnds(k), NEW q, q \in {Recv(c2s, c), Drained(c2s, c)},
             c2s' = q \/ \E m : c2s' = SendC(q, keeperHubConn[k], m), d \notin KeeperEnds(k)
      PROVE  c2s'[d] = c2s[d]
  BY <1>0, <1>d, <1>a, <1>c DEF SendS, SendC, Recv, Drained, Queues
<1> HIDE DEF KeeperEnds
<1>1. ASSUME NEW c \in HubKeeperConns, KeeperConnectHub(k, c) PROVE Goal
  BY <1>0, <1>d, <1>a, <1>b, <1>1 DEF SendS, SendC, Recv, Drained, Queues, KeeperConnectHub, Connected, Untouched, Open
<1>2. ASSUME NEW c \in HubKeeperConns, KeeperOnHubConnectionDown(k, c) PROVE Goal
  BY <1>0, <1>d, <1>a, <1>b, <1>2 DEF SendS, SendC, Recv, Drained, Queues, KeeperOnHubConnectionDown, CloseC, Untouched
<1>3. ASSUME NEW c \in HubKeeperConns, KeeperOnHubKeeperLogonSession(k, c) PROVE Goal
  <2> DEFINE m == Head(s2c[c])
  <2>1. \E r : s2c' = SendS(Recv(s2c, c), conns[k][m.forwardserverid], r)
    BY <1>3 DEF KeeperOnHubKeeperLogonSession, KeeperSendToForward
  <2>2. UNCHANGED <<cli, srv, c2s, lost>> /\ Owner(c) = k
    BY <1>3 DEF KeeperOnHubKeeperLogonSession
  <2>3. m \in Vetted(verified) /\ m.type = "HubKeeperLogonSession"
    BY <1>0, <1>3, ReadAtClient DEF KeeperOnHubKeeperLogonSession
  <2>4. m.forwardserverid \in ServerIds
    BY <2>3, MessageFields
  <2> HIDE DEF m
  <2>5. d \notin KeeperEnds(k) => s2c'[d] = s2c[d]
    BY <1>0, <1>d, <1>a, <1>b, <2>1, <2>2, <2>4 DEF SendS, SendC, Recv, Drained, Queues
  <2> QED
    BY <2>2, <2>5 DEF Untouched
<1>4. ASSUME NEW c \in KeeperForwardConns, KeeperOnConnectionDown(k, c) PROVE Goal
  <2>1. /\ c2s' = Drained(c2s, c) \/ \E m : c2s' = SendC(Drained(c2s, c), keeperHubConn[k], m)
        /\ CloseS(c) /\ UNCHANGED <<cli, lost>> /\ KeeperOf[Owner(c)] = k
    BY <1>4 DEF KeeperOnConnectionDown, KeeperSendToHub
  <2> QED
    BY <1>0, <1>d, <1>a, <1>b, <1>c, <2>1 DEF SendS, SendC, Recv, Drained, Queues, CloseS, Untouched
<1>5. ASSUME NEW c \in KeeperForwardConns, KeeperOnQuery(k, c) PROVE Goal
  <2>1. /\ \E m : c2s' = SendC(Recv(c2s, c), keeperHubConn[k], m)
        /\ \E m : s2c' = SendS(s2c, c, m)
        /\ UNCHANGED <<cli, srv, lost>> /\ KeeperOf[Owner(c)] = k
    BY <1>5 DEF KeeperOnQuery, KeeperSendToHub
  <2> QED
    BY <1>0, <1>d, <1>a, <1>b, <1>c, <2>1 DEF SendS, SendC, Recv, Drained, Queues, Untouched
<1>6. ASSUME NEW c \in KeeperForwardConns, KeeperOnQueryDuplicate(k, c) PROVE Goal
  BY <1>0, <1>d, <1>a, <1>b, <1>6 DEF SendS, SendC, Recv, Drained, Queues, KeeperOnQueryDuplicate, ShutdownS, Untouched
<1>7. ASSUME NEW c \in KeeperForwardConns, KeeperOnKeeperForwardLogonSessionRet(k, c) PROVE Goal
  <2>1. /\ \E m : c2s' = SendC(Recv(c2s, c), keeperHubConn[k], m)
        /\ UNCHANGED <<cli, srv, s2c, lost>> /\ KeeperOf[Owner(c)] = k
    BY <1>7 DEF KeeperOnKeeperForwardLogonSessionRet, KeeperSendToHub
  <2> QED
    BY <1>0, <1>d, <1>a, <1>b, <1>c, <2>1 DEF Untouched
<1>8. ASSUME NEW c \in KeeperForwardConns, KeeperOnKeeperForwardUpdateForwardConns(k, c) PROVE Goal
  <2>1. /\ \E m : c2s' = SendC(Recv(c2s, c), keeperHubConn[k], m)
        /\ UNCHANGED <<cli, srv, s2c, lost>> /\ KeeperOf[Owner(c)] = k
    BY <1>8 DEF KeeperOnKeeperForwardUpdateForwardConns, KeeperSendToHub
  <2> QED
    BY <1>0, <1>d, <1>a, <1>b, <1>c, <2>1 DEF Untouched
<1>9. ASSUME KeeperOnQueryDone(k) PROVE Goal
  BY <1>9 DEF KeeperOnQueryDone, netVars, Untouched
<1>10. ASSUME KeeperRestart(k) PROVE Goal
  BY <1>0, <1>10, OtherDeaths DEF KeeperRestart, KeeperEnds
<1> QED
  BY <1>1, <1>2, <1>3, <1>4, <1>5, <1>6, <1>7, <1>8, <1>9, <1>10 DEF KeeperStep

(* A forward process touches its connections to the keeper and to clients, *)
(* and closes no accepting end of the keeper.                              *)
LEMMA ForwardFrame ==
  ASSUME TypeInv, ForwardRegistered, NEW p \in Forwards, ForwardStep(p), NEW d \in Conns
  PROVE  /\ d \notin KeeperConnsOf(p) /\ d \notin ForwardConns => Untouched(d)
         /\ d \in KeeperForwardConns /\ srv[d] \in Open => srv'[d] \in Open
<1> USE DEF TypeInv
<1> DEFINE Goal == /\ d \notin KeeperConnsOf(p) /\ d \notin ForwardConns => Untouched(d)
                   /\ d \in KeeperForwardConns /\ srv[d] \in Open => srv'[d] \in Open
<1>0. /\ \A c \in KeeperConnsOf(p) : c \in Conns /\ c \in KeeperForwardConns /\ c \notin ForwardConns
      /\ \A c \in ForwardConns : c \in Conns /\ c \notin KeeperForwardConns
      /\ \A c \in ClientConnsOf(p) : c \in ForwardConns
  BY ConnKinds DEF KeeperConnsOf, ClientConnsOf
<1>a. /\ c2s \in Queues(Vetted(verified)) /\ s2c \in Queues(Vetted(verified)) /\ d # NoConn
      /\ srv \in [Conns -> EndState] /\ cli \in [Conns -> EndState] /\ lost \in [Conns -> BOOLEAN]
  BY NoConnNotConn DEF Mail, Ends
<1>b. keeperConn[p] \in KeeperConnsOf(p) \cup {NoConn}
  BY DEF ForwardTypeOK, Opt, ForwardRegistered, KeeperConnsOf
<1>c. ASSUME Die(KeeperConnsOf(p), ClientConnsOf(p)) PROVE Goal
  BY <1>0, <1>c, OtherDeaths
<1> HIDE DEF KeeperConnsOf, ClientConnsOf
<1> USE DEF SendS, SendC, Recv, Drained, Queues
<1>1. ASSUME NEW c \in KeeperConnsOf(p), ForwardConnectKeeper(p, c) PROVE Goal
  BY <1>0, <1>a, <1>1 DEF ForwardConnectKeeper, Connected, Untouched, Open
<1>2. ASSUME NEW c \in KeeperConnsOf(p), ForwardOnKeeperConnectionDown(p, c) PROVE Goal
  BY <1>0, <1>a, <1>2 DEF ForwardOnKeeperConnectionDown, CloseC, Untouched
<1>3. ASSUME NEW c \in KeeperConnsOf(p), ForwardOnAnswer(p, c) PROVE Goal
  <2>1. /\ UNCHANGED cli
        /\ srv'[d] = IF d \in ClientConnsOf(p) /\ d \in Live THEN "down" ELSE srv[d]
        /\ s2c' = Recv(s2c, c)
    BY <1>3 DEF ForwardOnAnswer, Killed
  <2>2. d \notin ForwardConns => lost'[d] = lost[d]
    <3>1. lost'[d] = (lost[d] \/ d \in ClientConnsOf(p) \cap Live)
      BY <1>3 DEF ForwardOnAnswer, LostAlso
    <3> QED
      BY <1>0, <1>a, <3>1
  <2>3. d \notin KeeperConnsOf(p) /\ d \notin ForwardConns => c2s'[d] = c2s[d]
    <3> DEFINE q == Emptied(c2s, ClientConnsOf(p))
    <3>1. c2s' = q \/ \E r : c2s' = [q EXCEPT ![keeperConn[p]] = r]
      BY <1>3 DEF ForwardOnAnswer
    <3>2. d \notin ForwardConns => q[d] = c2s[d]
      BY <1>0 DEF Emptied
    <3>3. DOMAIN q = Conns
      BY DEF Emptied
    <3> HIDE DEF q
    <3> QED
      BY <1>a, <1>b, <3>1, <3>2, <3>3
  <2> QED
    BY <1>0, <1>a, <2>1, <2>2, <2>3 DEF Untouched
<1>4. ASSUME NEW c \in KeeperConnsOf(p), ForwardOnAnswerAbort(p, c) PROVE Goal
  BY <1>c, <1>4 DEF ForwardOnAnswerAbort, Abort
<1>5. ASSUME NEW c \in KeeperConnsOf(p), ForwardOnKeeperForwardLogonSession(p, c) PROVE Goal
  <2>1. /\ \E m : c2s' = SendC(c2s, keeperConn[p], m)
        /\ s2c' = Recv(s2c, c) /\ UNCHANGED <<cli, srv, lost>>
    BY <1>5 DEF ForwardOnKeeperForwardLogonSession, ForwardSendToKeeper
  <2> QED
    BY <1>0, <1>a, <1>b, <2>1 DEF Untouched
<1>6. ASSUME NEW x \in ForwardConns, ForwardOnConnectionUp(p, x) PROVE Goal
  <2>1. /\ \E m : c2s' = SendC(c2s, keeperConn[p], m)
        /\ srv' = [srv EXCEPT ![x] = "up"] /\ UNCHANGED <<cli, s2c, lost>>
    BY <1>6 DEF ForwardOnConnectionUp, ForwardSendToKeeper
  <2> QED
    BY <1>0, <1>a, <1>b, <2>1 DEF Untouched
<1>7. ASSUME NEW x \in ForwardConns, ForwardOnConnectionDown(p, x) PROVE Goal
  <2>1. /\ \E m : c2s' = SendC(Drained(c2s, x), keeperConn[p], m)
        /\ CloseS(x) /\ UNCHANGED <<cli, lost>>
    BY <1>7 DEF ForwardOnConnectionDown, ForwardSendToKeeper
  <2> QED
    BY <1>0, <1>a, <1>b, <2>1 DEF CloseS, Untouched
<1>8. ASSUME NEW x \in ForwardConns, ForwardOnLogonForward(p, x) PROVE Goal
  BY <1>0, <1>a, <1>8 DEF ForwardOnLogonForward, Untouched
<1>9. ASSUME ForwardCheckLogonForwardSession(p) PROVE Goal
  <2> DEFINE x == Head(checks[p]).conn
  <2>1. x \in ForwardConns
    <3>1. checks[p] \in Seq(Check) /\ checks[p] # <<>>
      BY <1>9 DEF ForwardCheckLogonForwardSession, ForwardTypeOK
    <3>2. Head(checks[p]) \in Check
      BY <3>1
    <3> QED
      BY <3>2 DEF Check
  <2>2. /\ UNCHANGED <<srv, s2c>> \/ ShutdownS(x, s2c)
        /\ UNCHANGED <<cli, c2s, lost>>
    BY <1>9 DEF ForwardCheckLogonForwardSession
  <2> HIDE DEF x
  <2> QED
    BY <1>0, <1>a, <2>1, <2>2 DEF ShutdownS, Untouched
<1>10. ASSUME ForwardDanglingCheck(p) PROVE Goal
  <2>1. CASE UNCHANGED netVars
    BY <2>1 DEF netVars, Untouched
  <2>2. CASE Abort(p)
    BY <1>c, <2>2 DEF Abort
  <2> QED
    BY <1>10, <2>1, <2>2 DEF ForwardDanglingCheck
<1>11. ASSUME ForwardRestart(p) PROVE Goal
  BY <1>c, <1>11 DEF ForwardRestart
<1> QED
  BY <1>1, <1>2, <1>3, <1>4, <1>5, <1>6, <1>7, <1>8, <1>9, <1>10, <1>11 DEF ForwardStep

(* The logon server touches its connections to the hub and to clients,     *)
(* closes no accepting end of the hub and no connecting end of a client.   *)
LEMMA LogonFrame ==
  ASSUME TypeInv, LogonStep, NEW d \in Conns
  PROVE  /\ d \notin HubLogonConns /\ d \notin LogonConns => Untouched(d)
         /\ d \in HubLogonConns /\ srv[d] \in Open => srv'[d] \in Open
         /\ d \in LogonConns => cli'[d] = cli[d]
<1> USE DEF TypeInv
<1> DEFINE Goal == /\ d \notin HubLogonConns /\ d \notin LogonConns => Untouched(d)
                   /\ d \in HubLogonConns /\ srv[d] \in Open => srv'[d] \in Open
                   /\ d \in LogonConns => cli'[d] = cli[d]
<1>0. /\ \A c \in HubLogonConns : c \in Conns /\ c \notin LogonConns
      /\ \A c \in LogonConns : c \in Conns /\ c \notin HubLogonConns
      /\ logonHubConn \in HubLogonConns \cup {NoConn}
      /\ \A n \in Names : clientConns[n] \in LogonConns \cup {NoConn}
  BY ConnKinds DEF LogonTypeOK, Opt
<1>a. /\ c2s \in Queues(Vetted(verified)) /\ s2c \in Queues(Vetted(verified)) /\ d # NoConn
      /\ srv \in [Conns -> EndState] /\ cli \in [Conns -> EndState]
  BY NoConnNotConn DEF Mail, Ends
<1> USE DEF SendS, SendC, Recv, Drained, Queues
<1>1. ASSUME NEW c \in HubLogonConns, LogonConnectHub(c) PROVE Goal
  BY <1>0, <1>a, <1>1 DEF LogonConnectHub, Connected, Untouched, Open
<1>2. ASSUME NEW c \in HubLogonConns, LogonOnHubConnectionDown(c) PROVE Goal
  BY <1>0, <1>a, <1>2 DEF LogonOnHubConnectionDown, CloseC, Untouched
<1>3. ASSUME NEW c \in HubLogonConns, LogonOnHubLogonAnswerForwardID(c) PROVE Goal
  <2> DEFINE m == Head(s2c[c])
  <2>1. m \in Vetted(verified) /\ m.type = "HubLogonAnswerForwardID"
    BY <1>0, <1>3, ReadAtClient DEF LogonOnHubLogonAnswerForwardID
  <2>2. m.connname \in Names
    BY <2>1, MessageFields
  <2>3. /\ \E r : s2c' = SendS(Recv(s2c, c), clientConns[m.connname], r)
        /\ UNCHANGED <<cli, srv, c2s, lost>>
    BY <1>3 DEF LogonOnHubLogonAnswerForwardID, LogonSendToClient
  <2> HIDE DEF m
  <2> QED
    BY <1>0, <1>a, <2>2, <2>3 DEF Untouched
<1>4. ASSUME NEW x \in LogonConns, LogonOnConnectionUp(x) PROVE Goal
  BY <1>0, <1>a, <1>4 DEF LogonOnConnectionUp, Untouched
<1>5. ASSUME NEW x \in LogonConns, LogonOnConnectionDown(x) PROVE Goal
  BY <1>0, <1>a, <1>5 DEF LogonOnConnectionDown, CloseS, Untouched
<1>6. ASSUME NEW x \in LogonConns, LogonOnLogon(x) PROVE Goal
  BY <1>0, <1>a, <1>6 DEF LogonOnLogon, Untouched
<1>7. ASSUME NEW t \in tasks, LogonQueryAccountMatch(t) PROVE Goal
  <2>1. /\ \E m : c2s' = SendC(c2s, logonHubConn, m)
        /\ UNCHANGED <<cli, srv, s2c, lost>>
    BY <1>7 DEF LogonQueryAccountMatch, LogonSendToHub
  <2> QED
    BY <1>0, <1>a, <2>1 DEF Untouched
<1>8. ASSUME NEW t \in tasks, LogonQueryAccountMismatch(t) PROVE Goal
  <2> DEFINE x == clientConns[t.connname]
  <2>1. x \in LogonConns \cup {NoConn}
    BY <1>0, TaskUidType
  <2>2. /\ UNCHANGED <<srv, s2c>> \/ \E m : ShutdownS(x, SendS(s2c, x, m))
        /\ UNCHANGED <<cli, c2s, lost>>
    BY <1>8 DEF LogonQueryAccountMismatch, LogonSendAndShutdown, LogonSendToClient
  <2> HIDE DEF x
  <2> QED
    BY <1>0, <1>a, <2>1, <2>2 DEF ShutdownS, Untouched
<1>9. ASSUME NEW t \in tasks, LogonQueryAccountNoConnection(t) PROVE Goal
  BY <1>9 DEF LogonQueryAccountNoConnection, netVars, Untouched
<1>10. ASSUME LogonRestart PROVE Goal
  BY <1>0, <1>10, OtherDeaths DEF LogonRestart
<1> QED
  BY <1>1, <1>2, <1>3, <1>4, <1>5, <1>6, <1>7, <1>8, <1>9, <1>10 DEF LogonStep

(* A client touches its own connections, and closes no accepting end.      *)
LEMMA ClientFrame ==
  ASSUME TypeInv, NEW c \in Clients, ClientStep(c), NEW d \in Conns
  PROVE  /\ srv'[d] = srv[d]
         /\ d # LogonConnOf(c) /\ d \notin ForwardConns => Untouched(d)
<1> USE DEF TypeInv
<1> DEFINE Goal == /\ srv'[d] = srv[d]
                   /\ d # LogonConnOf(c) /\ d \notin ForwardConns => Untouched(d)
           f == forwardClient[c]
<1>0. LogonConnOf(c) \in Conns /\ \A y \in ForwardConns : y \in Conns
  <2>1. LogonConnOf(c) \in LogonConns
    BY DEF LogonConnOf, LogonConns
  <2> QED
    BY <2>1, ConnKinds
<1>a. /\ c2s \in Queues(Vetted(verified)) /\ s2c \in Queues(Vetted(verified)) /\ d # NoConn
      /\ srv \in [Conns -> EndState] /\ cli \in [Conns -> EndState]
  BY NoConnNotConn DEF Mail, Ends
<1>b. f.conn \in ForwardConns \cup {NoConn} /\ (f # NoClient => f.conn \in ForwardConns)
  <2>1. f = NoClient \/ f \in [conn : ForwardConns, to : ServerIds, uid : Uids, session : Sessions]
    BY DEF ClientTypeOK, Opt
  <2> HIDE DEF f
  <2> QED
    BY <2>1 DEF NoClient
<1> USE DEF SendS, SendC, Recv, Drained, Queues
<1> HIDE DEF LogonConnOf
<1>1. ASSUME ClientConnect(c) PROVE Goal
  <2>1. /\ \E m : Connected(LogonConnOf(c), m)
        /\ UNCHANGED <<srv, s2c, lost>>
    BY <1>1 DEF ClientConnect
  <2> QED
    BY <1>0, <1>a, <2>1 DEF Connected, Untouched
<1>2. ASSUME ClientOnConnectionDown(c) PROVE Goal
  BY <1>0, <1>a, <1>2 DEF ClientOnConnectionDown, CloseC, Untouched
<1>3. ASSUME ClientOnLogonRetFailed(c) PROVE Goal
  BY <1>0, <1>a, <1>3 DEF ClientOnLogonRetFailed, ShutdownC, Untouched
<1>4. ASSUME ClientOnLogonRetSuccess(c) PROVE Goal
  <2>1. /\ \/ /\ cli' = [cli EXCEPT ![f.conn] = "down"]
              /\ s2c' = Drained(Recv(s2c, LogonConnOf(c)), f.conn)
              /\ c2s' = SendC(c2s, f.conn, FIN)
           \/ s2c' = Recv(s2c, LogonConnOf(c)) /\ UNCHANGED <<cli, c2s>>
        /\ UNCHANGED <<srv, lost>>
    BY <1>4 DEF ClientOnLogonRetSuccess
  <2> HIDE DEF f
  <2> QED
    BY <1>0, <1>a, <1>b, <2>1 DEF Untouched
<1>5. ASSUME ClientOnMisframedLogonRet(c) PROVE Goal
  BY <1>0, <1>a, <1>5 DEF ClientOnMisframedLogonRet, ShutdownC, Untouched
<1>6. ASSUME NEW p \in Forwards, ForwardClientConnect(c, p) PROVE Goal
  <2>1. /\ cli' = [cli EXCEPT ![f.conn] = "up"]
        /\ \E q : c2s' = [c2s EXCEPT ![f.conn] = q]
        /\ f # NoClient
        /\ UNCHANGED <<srv, s2c, lost>>
    BY <1>6 DEF ForwardClientConnect
  <2> HIDE DEF f
  <2> QED
    BY <1>0, <1>a, <1>b, <2>1 DEF Untouched
<1>7. ASSUME ForwardClientOnConnectionDown(c) PROVE Goal
  <2>1. f # NoClient /\ CloseC(f.conn) /\ UNCHANGED <<srv, lost>>
    BY <1>7 DEF ForwardClientOnConnectionDown
  <2> HIDE DEF f
  <2> QED
    BY <1>0, <1>a, <1>b, <2>1 DEF CloseC, Untouched
<1> QED
  BY <1>1, <1>2, <1>3, <1>4, <1>5, <1>6, <1>7 DEF ClientStep

-----------------------------------------------------------------------------
(* What a connection to the hub is for. *)
Link(c) == IF c \in HubKeeperConns THEN "KEEPER" ELSE "LOGON"

(* A HubConnectionData in flight to the hub says what its connection is    *)
(* for.                                                                    *)
Introduced == \A c \in HubConns : \A m \in Sent(c2s[c], "HubConnectionData") : m.servertype = Link(c)

(* A step that sends no other HubConnectionData keeps that. *)
LEMMA IntroducedStep ==
  ASSUME Introduced, \A d \in HubConns : \A m \in Sent(c2s'[d], "HubConnectionData") :
                        m \in Sent(c2s[d], "HubConnectionData") \/ m.servertype = Link(d)
  PROVE  Introduced'
BY DEF Introduced

(* The hub registers connections for what they are, and forgets them when  *)
(* they are down.                                                          *)
LEMMA HubRegisters ==
  ASSUME TypeInv, HubRegistered, Introduced, HubStep
  PROVE  HubRegistered' /\ Introduced'
<1> USE DEF TypeInv
<1> DEFINE Goal == HubRegistered' /\ Introduced'
           Fewer == \A d \in HubConns : Sent(c2s'[d], "HubConnectionData") \subseteq Sent(c2s[d], "HubConnectionData")
<1>0. /\ \A c \in HubConns : c \in Conns
      /\ \A c \in HubKeeperConns : c \in HubConns /\ c \notin HubLogonConns /\ c # NoConn
      /\ \A c \in HubLogonConns : c \in HubConns /\ c \notin HubKeeperConns /\ c # NoConn
      /\ \A c \in HubConns : c \in HubKeeperConns \/ c \in HubLogonConns
  BY ConnKinds, NoConnNotConn DEF HubConns
<1>a. /\ c2s \in Queues(Vetted(verified)) /\ s2c \in Queues(Vetted(verified))
      /\ srv \in [Conns -> EndState]
      /\ keeperConns \in [Keepers -> HubConns \cup {NoConn}]
  BY DEF Mail, Ends, HubTypeOK, Opt
<1>b. ASSUME NEW c \in HubConns, NEW t, ReadsS(c, t), c2s' = Recv(c2s, c) PROVE Fewer
  BY <1>0, <1>a, <1>b, SentMail DEF ReadsS
<1>c. ASSUME Fewer PROVE Introduced'
  BY <1>c, IntroducedStep
<1>d. ASSUME UNCHANGED <<srv, logonConn, keeperConns>> PROVE HubRegistered'
  BY <1>d DEF HubRegistered
<1> HIDE DEF Fewer
<1>1. ASSUME NEW c \in HubConns, HubOnConnectionDown(c) PROVE Goal
  <2>1. Fewer
    BY <1>0, <1>a, <1>1, SentMail DEF HubOnConnectionDown, Fewer
  <2>2. srv' = [srv EXCEPT ![c] = "down"]
    BY <1>1 DEF HubOnConnectionDown, CloseS
  <2>3. CASE logonConn = c
    <3>1. logonConn' = NoConn /\ keeperConns' = keeperConns /\ c \in HubLogonConns
      BY <1>0, <1>1, <2>3, NoConnNotConn DEF HubOnConnectionDown, HubRegistered
    <3> QED
      BY <1>0, <1>a, <1>c, <2>1, <2>2, <3>1 DEF HubRegistered
  <2>4. CASE logonConn # c
    <3>1. /\ logonConn' = logonConn
          /\ keeperConns' = [k \in Keepers |-> IF keeperConns[k] = c THEN NoConn ELSE keeperConns[k]]
      BY <1>1, <2>4 DEF HubOnConnectionDown
    <3> QED
      BY <1>0, <1>a, <1>c, <2>1, <2>2, <2>4, <3>1 DEF HubRegistered
  <2> QED
    BY <2>3, <2>4
<1>2. ASSUME NEW c \in HubConns, HubOnHubConnectionData(c) PROVE Goal
  <2> DEFINE m == Head(c2s[c])
  <2>1. /\ m \in Vetted(verified)
        /\ m.type = "HubConnectionData"
    BY <1>0, <1>2, ReadAtServer DEF HubOnHubConnectionData
  <2>2. m.servertype = Link(c)
    <3>1. c2s[c] # <<>> /\ c2s[c] \in Seq(Vetted(verified))
      BY <1>0, <1>a, <1>2 DEF HubOnHubConnectionData, ReadsS, Queues
    <3>2. 1 \in DOMAIN c2s[c] /\ m = c2s[c][1]
      BY <3>1
    <3>3. m \in Sent(c2s[c], "HubConnectionData")
      BY <2>1, <3>2 DEF Sent
    <3> QED
      BY <3>3 DEF Introduced
  <2>3. m.servertype = "LOGON" \/ m.serverid \in Keepers
    BY <2>1, MessageFields
  <2>4. Introduced'
    BY <1>2, <1>b, <1>c DEF HubOnHubConnectionData
  <2>5. srv[c] \in Open /\ srv' = srv
    BY <1>2 DEF HubOnHubConnectionData, ReadsS
  <2>6. \/ m.servertype = "LOGON" /\ logonConn' = c /\ UNCHANGED keeperConns
        \/ /\ m.servertype = "KEEPER"
           /\ keeperConns' = [keeperConns EXCEPT ![m.serverid] = c]
           /\ UNCHANGED logonConn
    BY <1>2 DEF HubOnHubConnectionData
  <2> HIDE DEF m
  <2> QED
    BY <1>0, <1>a, <2>2, <2>3, <2>4, <2>5, <2>6 DEF HubRegistered, Link
<1>3. ASSUME NEW c \in HubConns, HubOnHubKeeperLogonSessionRet(c) PROVE Goal
  BY <1>3, <1>b, <1>c, <1>d DEF HubOnHubKeeperLogonSessionRet, hubVars
<1>4. ASSUME NEW c \in HubConns, HubOnHubKeeperUpdateForwardConns(c) PROVE Goal
  BY <1>4, <1>b, <1>c, <1>d DEF HubOnHubKeeperUpdateForwardConns
<1>5. ASSUME NEW c \in HubConns, HubOnHubLogonQueryForwardID(c) PROVE Goal
  BY <1>5, <1>b, <1>c, <1>d DEF HubOnHubLogonQueryForwardID, hubVars
<1>6. ASSUME HubRestart PROVE Goal
  <2>1. Fewer
    BY <1>0, <1>a, <1>6, SentMail DEF HubRestart, Die, Fewer
  <2>2. HubRegistered'
    BY <1>6 DEF HubRestart, HubStart, HubRegistered
  <2> QED
    BY <1>c, <2>1, <2>2
<1> QED
  BY <1>1, <1>2, <1>3, <1>4, <1>5, <1>6 DEF HubStep

(* A keeper introduces itself as one. *)
LEMMA KeeperIntroduces ==
  ASSUME TypeInv, Introduced, NEW k \in Keepers, KeeperStep(k)
  PROVE  Introduced'
<1> USE DEF TypeInv
<1> DEFINE t == "HubConnectionData"
<1>0. /\ \A c \in HubKeeperConns : c \in HubConns
      /\ \A c \in HubConns \cup KeeperForwardConns : c \in Conns
      /\ \A c \in KeeperForwardConns : c \notin HubConns
  BY ConnKinds
<1>a. c2s \in Queues(Vetted(verified))
  BY DEF Mail
<1>b. ASSUME c2s' = c2s PROVE Introduced'
  BY <1>b DEF Introduced
<1>c. ASSUME NEW c \in KeeperForwardConns, NEW q, q = Drained(c2s, c) \/ (ReadsS(c, Head(c2s[c]).type) /\ q = Recv(c2s, c)),
             c2s' = q \/ \E m : m.type # t /\ c2s' = SendC(q, keeperHubConn[k], m)
      PROVE  Introduced'
  <2>1. q \in Queues(Vetted(verified)) /\ \A d \in HubConns : q[d] = c2s[d]
    <3>1. q \in Queues(Vetted(verified))
      BY <1>0, <1>a, <1>c, DrainedType, RecvType DEF ReadsS
    <3>2. \A d \in HubConns : q[d] = c2s[d]
      BY <1>0, <1>a, <1>c DEF Drained, Recv, Queues
    <3> QED
      BY <3>1, <3>2
  <2>2. \A d \in HubConns : Sent(c2s'[d], t) = Sent(c2s[d], t)
    <3> SUFFICES ASSUME NEW d \in HubConns PROVE Sent(c2s'[d], t) = Sent(c2s[d], t)
      OBVIOUS
    <3>1. ASSUME NEW m, m.type # t, c2s' = SendC(q, keeperHubConn[k], m) PROVE Sent(c2s'[d], t) = Sent(q[d], t)
      BY <1>0, <2>1, <3>1, SentOther
    <3> QED
      BY <1>c, <2>1, <3>1
  <2> QED
    BY <2>2, IntroducedStep
<1>1. ASSUME NEW c \in HubKeeperConns, KeeperConnectHub(k, c) PROVE Introduced'
  <2> DEFINE m == [type |-> "HubConnectionData", servertype |-> "KEEPER", serverid |-> k]
  <2>1. c2s' = [c2s EXCEPT ![c] = <<m>>]
    BY <1>1 DEF KeeperConnectHub, Connected
  <2>2. Sent(<<m>>, t) = {m} /\ m.servertype = Link(c)
    BY SentOne DEF Link
  <2> HIDE DEF m
  <2>3. \A d \in HubConns : c2s'[d] = IF d = c THEN <<m>> ELSE c2s[d]
    BY <1>0, <1>a, <2>1 DEF Queues
  <2> QED
    BY <2>2, <2>3, IntroducedStep
<1>2. ASSUME NEW c \in HubKeeperConns, KeeperOnHubConnectionDown(k, c) PROVE Introduced'
  <2>1. c2s' = SendC(c2s, c, FIN) /\ FIN.type # t
    BY <1>2 DEF KeeperOnHubConnectionDown, CloseC, FIN
  <2>2. \A d \in HubConns : Sent(SendC(c2s, c, FIN)[d], t) = Sent(c2s[d], t)
    BY <1>0, <1>a, <2>1, SentOther
  <2> QED
    BY <2>1, <2>2, IntroducedStep
<1>3. ASSUME NEW c \in HubKeeperConns, KeeperOnHubKeeperLogonSession(k, c) PROVE Introduced'
  BY <1>3, <1>b DEF KeeperOnHubKeeperLogonSession
<1>4. ASSUME NEW c \in KeeperForwardConns, KeeperOnConnectionDown(k, c) PROVE Introduced'
  <2>1. c2s' = Drained(c2s, c) \/ \E m : m.type # t /\ c2s' = SendC(Drained(c2s, c), keeperHubConn[k], m)
    BY <1>4 DEF KeeperOnConnectionDown, KeeperSendToHub, UpdateForwardConns
  <2> QED
    BY <1>c, <2>1
<1>5. ASSUME NEW c \in KeeperForwardConns, KeeperOnQuery(k, c) PROVE Introduced'
  <2>1. /\ \E m : m.type # t /\ c2s' = SendC(Recv(c2s, c), keeperHubConn[k], m)
        /\ ReadsS(c, Head(c2s[c]).type)
    BY <1>5 DEF KeeperOnQuery, KeeperSendToHub, UpdateForwardConns, ReadsS
  <2> QED
    BY <1>c, <2>1
<1>6. ASSUME NEW c \in KeeperForwardConns, KeeperOnQueryDuplicate(k, c) PROVE Introduced'
  <2>1. c2s' = Recv(c2s, c) /\ ReadsS(c, Head(c2s[c]).type)
    BY <1>6 DEF KeeperOnQueryDuplicate, ReadsS
  <2> QED
    BY <1>c, <2>1
<1>7. ASSUME NEW c \in KeeperForwardConns, KeeperOnKeeperForwardLogonSessionRet(k, c) PROVE Introduced'
  <2>1. /\ \E m : m.type # t /\ c2s' = SendC(Recv(c2s, c), keeperHubConn[k], m)
        /\ ReadsS(c, Head(c2s[c]).type)
    BY <1>7 DEF KeeperOnKeeperForwardLogonSessionRet, KeeperSendToHub, ReadsS
  <2> QED
    BY <1>c, <2>1
<1>8. ASSUME NEW c \in KeeperForwardConns, KeeperOnKeeperForwardUpdateForwardConns(k, c) PROVE Introduced'
  <2>1. /\ \E m : m.type # t /\ c2s' = SendC(Recv(c2s, c), keeperHubConn[k], m)
        /\ ReadsS(c, Head(c2s[c]).type)
    BY <1>8 DEF KeeperOnKeeperForwardUpdateForwardConns, KeeperSendToHub, UpdateForwardConns, ReadsS
  <2> QED
    BY <1>c, <2>1
<1>9. ASSUME KeeperOnQueryDone(k) PROVE Introduced'
  BY <1>9, <1>b DEF KeeperOnQueryDone, netVars
<1>10. ASSUME KeeperRestart(k) PROVE Introduced'
  <2>1. \A d \in HubConns : Sent(c2s'[d], t) \subseteq Sent(c2s[d], t)
    BY <1>0, <1>a, <1>10, SentMail DEF KeeperRestart, Die
  <2> QED
    BY <2>1, IntroducedStep
<1> QED
  BY <1>1, <1>2, <1>3, <1>4, <1>5, <1>6, <1>7, <1>8, <1>9, <1>10 DEF KeeperStep

(* A keeper registers connections that are its own and open, and forgets   *)
(* them when they are down; onQuery is not interrupted by that, as one     *)
(* thread does both.                                                       *)
LEMMA KeeperRegisters ==
  ASSUME TypeInv, KeeperRegistered, NEW k \in Keepers, KeeperStep(k)
  PROVE  KeeperRegistered'
<1> USE DEF TypeInv
<1>0. /\ \A c \in HubKeeperConns \cup KeeperForwardConns : c \in Conns /\ c # NoConn
      /\ \A c \in HubKeeperConns : c \notin KeeperForwardConns
  BY ConnKinds, NoConnNotConn
<1>a. /\ srv \in [Conns -> EndState] /\ cli \in [Conns -> EndState]
      /\ conns \in [Keepers -> [ServerIds -> KeeperForwardConns \cup {NoConn}]]
      /\ keeperHubConn \in [Keepers -> HubKeeperConns \cup {NoConn}]
      /\ starting \in [Keepers -> [id : ServerIds, conn : KeeperForwardConns] \cup {NotStarting}]
  BY DEF Ends, KeeperTypeOK, Opt
<1>b. \A l \in Keepers : starting[l] # NotStarting => /\ starting[l].id \in ServerIds
                                                      /\ starting[l].conn \in KeeperForwardConns
  BY <1>a
<1>c. ASSUME UNCHANGED <<cli, srv, conns, keeperHubConn, starting>> PROVE KeeperRegistered'
  BY <1>c DEF KeeperRegistered
<1>1. ASSUME NEW c \in HubKeeperConns, KeeperConnectHub(k, c) PROVE KeeperRegistered'
  BY <1>0, <1>a, <1>b, <1>1 DEF KeeperConnectHub, Connected, KeeperRegistered, Open
<1>2. ASSUME NEW c \in HubKeeperConns, KeeperOnHubConnectionDown(k, c) PROVE KeeperRegistered'
  BY <1>0, <1>a, <1>b, <1>2 DEF KeeperOnHubConnectionDown, CloseC, KeeperRegistered
<1>3. ASSUME NEW c \in HubKeeperConns, KeeperOnHubKeeperLogonSession(k, c) PROVE KeeperRegistered'
  BY <1>3, <1>c DEF KeeperOnHubKeeperLogonSession, keeperVars
<1>4. ASSUME NEW c \in KeeperForwardConns, KeeperOnConnectionDown(k, c) PROVE KeeperRegistered'
  <2>1. /\ srv' = [srv EXCEPT ![c] = "down"]
        /\ conns' = [conns EXCEPT ![k] = [id \in ServerIds |-> IF @[id] = c THEN NoConn ELSE @[id]]]
        /\ UNCHANGED <<cli, keeperHubConn, starting>>
        /\ starting[k] = NotStarting
        /\ KeeperOf[Owner(c)] = k
    BY <1>4 DEF KeeperOnConnectionDown, CloseS, IOThreadIdle
  <2>2. \A l \in Keepers : \A id \in ServerIds :
           conns'[l][id] = IF l = k /\ conns[k][id] = c THEN NoConn ELSE conns[l][id]
    BY <1>a, <2>1
  <2>3. \A d \in Conns : srv'[d] = IF d = c THEN "down" ELSE srv[d]
    BY <1>a, <2>1
  <2> QED
    BY <1>0, <1>a, <1>b, <2>1, <2>2, <2>3 DEF KeeperRegistered
<1>5. ASSUME NEW c \in KeeperForwardConns, KeeperOnQuery(k, c) PROVE KeeperRegistered'
  <2>1. /\ \E id : starting' = [starting EXCEPT ![k] = [id |-> id, conn |-> c]]
        /\ UNCHANGED <<cli, srv, conns, keeperHubConn>>
        /\ srv[c] \in Open
        /\ KeeperOf[Owner(c)] = k
    BY <1>5 DEF KeeperOnQuery, ReadsS
  <2>2. \A l \in Keepers : starting'[l] = starting[l] \/ (l = k /\ starting'[l].conn = c)
    BY <1>a, <2>1
  <2> QED
    BY <2>1, <2>2 DEF KeeperRegistered
<1>6. ASSUME NEW c \in KeeperForwardConns, KeeperOnQueryDuplicate(k, c) PROVE KeeperRegistered'
  <2>1. /\ \A d \in Conns : srv[d] \in Open => srv'[d] \in Open
        /\ UNCHANGED <<cli, conns, keeperHubConn, starting>>
    BY <1>0, <1>a, <1>6 DEF KeeperOnQueryDuplicate, ShutdownS, keeperVars, Open
  <2> QED
    BY <1>0, <1>a, <1>b, <2>1 DEF KeeperRegistered
<1>7. ASSUME NEW c \in KeeperForwardConns, KeeperOnKeeperForwardLogonSessionRet(k, c) PROVE KeeperRegistered'
  BY <1>7, <1>c DEF KeeperOnKeeperForwardLogonSessionRet, keeperVars
<1>8. ASSUME NEW c \in KeeperForwardConns, KeeperOnKeeperForwardUpdateForwardConns(k, c) PROVE KeeperRegistered'
  BY <1>8, <1>c DEF KeeperOnKeeperForwardUpdateForwardConns, keeperVars
<1>9. ASSUME KeeperOnQueryDone(k) PROVE KeeperRegistered'
  <2>1. /\ UNCHANGED <<cli, srv, keeperHubConn>>
        /\ starting[k] # NotStarting
        /\ conns' = [conns EXCEPT ![k][starting[k].id] = starting[k].conn]
        /\ starting' = [starting EXCEPT ![k] = NotStarting]
    BY <1>9 DEF KeeperOnQueryDone, netVars, IOThreadIdle
  <2>2. \A l \in Keepers : \A id \in ServerIds :
           conns'[l][id] = IF l = k /\ id = starting[k].id THEN starting[k].conn ELSE conns[l][id]
    BY <1>a, <1>b, <2>1
  <2>3. \A l \in Keepers : starting'[l] = IF l = k THEN NotStarting ELSE starting[l]
    BY <1>a, <2>1
  <2> QED
    BY <1>b, <2>1, <2>2, <2>3 DEF KeeperRegistered
<1>10. ASSUME KeeperRestart(k) PROVE KeeperRegistered'
  <2>1. \A d \in Conns : /\ (d \in HubKeeperConns => Owner(d) # k) => cli'[d] = cli[d]
                         /\ (d \in KeeperForwardConns => KeeperOf[Owner(d)] # k) => srv'[d] = srv[d]
    BY <1>10, OtherDeaths DEF KeeperRestart
  <2>2. \A l \in Keepers : IF l = k
                           THEN /\ keeperHubConn'[l] = NoConn
                                /\ starting'[l] = NotStarting
                                /\ \A id \in ServerIds : conns'[l][id] = NoConn
                           ELSE /\ keeperHubConn'[l] = keeperHubConn[l]
                                /\ starting'[l] = starting[l]
                                /\ conns'[l] = conns[l]
    BY <1>a, <1>10 DEF KeeperRestart
  <2> QED
    BY <1>0, <1>a, <1>b, <2>1, <2>2 DEF KeeperRegistered
<1> QED
  BY <1>1, <1>2, <1>3, <1>4, <1>5, <1>6, <1>7, <1>8, <1>9, <1>10 DEF KeeperStep

(* A forward process registers its connection to the keeper, and forgets   *)
(* it when it is down.                                                     *)
LEMMA ForwardRegisters ==
  ASSUME TypeInv, ForwardRegistered, NEW p \in Forwards, ForwardStep(p)
  PROVE  ForwardRegistered'
<1> USE DEF TypeInv
<1>0. /\ \A c \in KeeperConnsOf(p) : c \in KeeperForwardConns /\ Owner(c) = p
      /\ \A c \in KeeperForwardConns : c \in Conns /\ c # NoConn /\ (Owner(c) # p => c \notin KeeperConnsOf(p))
  BY ConnKinds, NoConnNotConn DEF KeeperConnsOf
<1>a. /\ cli \in [Conns -> EndState]
      /\ keeperConn \in [Forwards -> KeeperForwardConns \cup {NoConn}]
  BY DEF Ends, ForwardTypeOK, Opt
<1>b. ASSUME UNCHANGED <<cli, keeperConn>> PROVE ForwardRegistered'
  BY <1>b DEF ForwardRegistered
<1>c. ASSUME Die(KeeperConnsOf(p), ClientConnsOf(p)), NEW running, Blank(p, running) PROVE ForwardRegistered'
  <2>1. \A d \in Conns : d \notin KeeperConnsOf(p) => cli'[d] = cli[d]
    BY <1>c, OtherDeaths
  <2>2. keeperConn' = [keeperConn EXCEPT ![p] = NoConn]
    BY <1>c DEF Blank
  <2> QED
    BY <1>0, <1>a, <2>1, <2>2 DEF ForwardRegistered
<1> HIDE DEF KeeperConnsOf
<1>1. ASSUME NEW c \in KeeperConnsOf(p), ForwardConnectKeeper(p, c) PROVE ForwardRegistered'
  BY <1>0, <1>a, <1>1 DEF ForwardConnectKeeper, Connected, ForwardRegistered, Open
<1>2. ASSUME NEW c \in KeeperConnsOf(p), ForwardOnKeeperConnectionDown(p, c) PROVE ForwardRegistered'
  BY <1>0, <1>a, <1>2 DEF ForwardOnKeeperConnectionDown, CloseC, ForwardRegistered
<1>3. ASSUME NEW c \in KeeperConnsOf(p), ForwardOnAnswer(p, c) PROVE ForwardRegistered'
  BY <1>b, <1>3 DEF ForwardOnAnswer
<1>4. ASSUME NEW c \in KeeperConnsOf(p), ForwardOnAnswerAbort(p, c) PROVE ForwardRegistered'
  BY <1>c, <1>4 DEF ForwardOnAnswerAbort, Abort
<1>5. ASSUME NEW c \in KeeperConnsOf(p), ForwardOnKeeperForwardLogonSession(p, c) PROVE ForwardRegistered'
  BY <1>b, <1>5 DEF ForwardOnKeeperForwardLogonSession
<1>6. ASSUME NEW x \in ForwardConns, ForwardOnConnectionUp(p, x) PROVE ForwardRegistered'
  BY <1>b, <1>6 DEF ForwardOnConnectionUp, forwardVars
<1>7. ASSUME NEW x \in ForwardConns, ForwardOnConnectionDown(p, x) PROVE ForwardRegistered'
  BY <1>b, <1>7 DEF ForwardOnConnectionDown, forwardVars
<1>8. ASSUME NEW x \in ForwardConns, ForwardOnLogonForward(p, x) PROVE ForwardRegistered'
  BY <1>b, <1>8 DEF ForwardOnLogonForward
<1>9. ASSUME ForwardCheckLogonForwardSession(p) PROVE ForwardRegistered'
  BY <1>b, <1>9 DEF ForwardCheckLogonForwardSession
<1>10. ASSUME ForwardDanglingCheck(p) PROVE ForwardRegistered'
  <2>1. UNCHANGED <<cli, keeperConn>> \/ Abort(p)
    BY <1>10 DEF ForwardDanglingCheck, netVars
  <2> QED
    BY <1>b, <1>c, <2>1 DEF Abort
<1>11. ASSUME ForwardRestart(p) PROVE ForwardRegistered'
  BY <1>c, <1>11 DEF ForwardRestart
<1> QED
  BY <1>1, <1>2, <1>3, <1>4, <1>5, <1>6, <1>7, <1>8, <1>9, <1>10, <1>11 DEF ForwardStep

(* The logon server registers a client's connection under one name and     *)
(* forgets it when it is down, and introduces itself to the hub as what it *)
(* is.                                                                     *)
LEMMA LogonRegisters ==
  ASSUME TypeInv, LogonRegistered, Introduced, LogonStep
  PROVE  LogonRegistered' /\ Introduced'
<1> USE DEF TypeInv
<1> DEFINE t == "HubConnectionData"
           Goal == LogonRegistered' /\ Introduced'
           Same == \A d \in HubConns : Sent(c2s'[d], t) = Sent(c2s[d], t)
<1>0. /\ \A c \in HubLogonConns : c \in HubConns /\ c \notin HubKeeperConns /\ c \notin LogonConns
      /\ \A c \in HubConns \cup LogonConns : c \in Conns /\ c # NoConn
      /\ \A c \in LogonConns : c \notin HubConns
  BY ConnKinds, NoConnNotConn
<1>a. /\ c2s \in Queues(Vetted(verified))
      /\ srv \in [Conns -> EndState] /\ cli \in [Conns -> EndState]
      /\ logonHubConn \in HubLogonConns \cup {NoConn}
      /\ clientConns \in [Names -> LogonConns \cup {NoConn}]
  BY DEF Mail, Ends, LogonTypeOK, Opt
<1>b. ASSUME UNCHANGED <<cli, srv, logonHubConn, clientConns>> PROVE LogonRegistered'
  BY <1>b DEF LogonRegistered
<1>c. ASSUME \A d \in HubConns : c2s'[d] = c2s[d] PROVE Introduced'
  BY <1>c, IntroducedStep
<1>d. ASSUME NEW c, NEW m, m.type # t, c2s' = SendC(c2s, c, m) PROVE Introduced'
  <2>1. \A d \in HubConns : Sent(c2s'[d], t) = Sent(c2s[d], t)
    BY <1>0, <1>a, <1>d, SentOther
  <2> QED
    BY <2>1, IntroducedStep
<1>1. ASSUME NEW c \in HubLogonConns, LogonConnectHub(c) PROVE Goal
  <2> DEFINE m == [type |-> "HubConnectionData", servertype |-> "LOGON"]
  <2>1. c2s' = [c2s EXCEPT ![c] = <<m>>]
    BY <1>1 DEF LogonConnectHub, Connected
  <2>2. Sent(<<m>>, t) = {m} /\ m.servertype = Link(c)
    BY <1>0, SentOne DEF Link
  <2> HIDE DEF m
  <2>3. \A d \in HubConns : c2s'[d] = IF d = c THEN <<m>> ELSE c2s[d]
    BY <1>0, <1>a, <2>1 DEF Queues
  <2>4. Introduced'
    BY <2>2, <2>3, IntroducedStep
  <2>5. LogonRegistered'
    BY <1>0, <1>a, <1>1 DEF LogonConnectHub, Connected, LogonRegistered, Open
  <2> QED
    BY <2>4, <2>5
<1>2. ASSUME NEW c \in HubLogonConns, LogonOnHubConnectionDown(c) PROVE Goal
  <2>1. c2s' = SendC(c2s, c, FIN) /\ FIN.type # t
    BY <1>2 DEF LogonOnHubConnectionDown, CloseC, FIN
  <2>2. LogonRegistered'
    BY <1>0, <1>a, <1>2 DEF LogonOnHubConnectionDown, CloseC, LogonRegistered
  <2> QED
    BY <1>d, <2>1, <2>2
<1>3. ASSUME NEW c \in HubLogonConns, LogonOnHubLogonAnswerForwardID(c) PROVE Goal
  BY <1>b, <1>c, <1>3 DEF LogonOnHubLogonAnswerForwardID, logonVars
<1>4. ASSUME NEW x \in LogonConns, LogonOnConnectionUp(x) PROVE Goal
  <2>1. /\ srv[x] = "none"
        /\ srv' = [srv EXCEPT ![x] = "up"]
        /\ clientConns' = [clientConns EXCEPT ![nextConnId] = x]
        /\ UNCHANGED <<cli, c2s, logonHubConn>>
    BY <1>4 DEF LogonOnConnectionUp
  <2>2. LogonRegistered'
    BY <1>0, <1>a, <2>1 DEF LogonRegistered, Open
  <2> QED
    BY <1>c, <2>1, <2>2
<1>5. ASSUME NEW x \in LogonConns, LogonOnConnectionDown(x) PROVE Goal
  <2>1. NameOf(x) \in Names /\ clientConns[NameOf(x)] = x
    BY <1>5, NameOfOpen DEF LogonOnConnectionDown, ClosesS
  <2>2. /\ srv' = [srv EXCEPT ![x] = "down"]
        /\ c2s' = Drained(c2s, x)
        /\ clientConns' = [clientConns EXCEPT ![NameOf(x)] = NoConn]
        /\ UNCHANGED <<cli, logonHubConn>>
    BY <1>5 DEF LogonOnConnectionDown, CloseS
  <2>3. LogonRegistered'
    BY <1>0, <1>a, <2>1, <2>2 DEF LogonRegistered
  <2>4. \A d \in HubConns : c2s'[d] = c2s[d]
    BY <1>0, <1>a, <2>2 DEF Drained, Queues
  <2> QED
    BY <1>c, <2>3, <2>4
<1>6. ASSUME NEW x \in LogonConns, LogonOnLogon(x) PROVE Goal
  <2>1. \A d \in HubConns : c2s'[d] = c2s[d]
    BY <1>0, <1>a, <1>6 DEF LogonOnLogon, Recv, Queues
  <2> QED
    BY <1>b, <1>c, <1>6, <2>1 DEF LogonOnLogon
<1>7. ASSUME NEW y \in tasks, LogonQueryAccountMatch(y) PROVE Goal
  <2>1. \E m : m.type # t /\ c2s' = SendC(c2s, logonHubConn, m)
    BY <1>7 DEF LogonQueryAccountMatch, LogonSendToHub
  <2> QED
    BY <1>b, <1>d, <1>7, <2>1 DEF LogonQueryAccountMatch
<1>8. ASSUME NEW y \in tasks, LogonQueryAccountMismatch(y) PROVE Goal
  <2>1. /\ UNCHANGED srv \/ \E x : srv' = [srv EXCEPT ![x] = IF @ = "up" THEN "shut" ELSE @]
        /\ UNCHANGED <<cli, c2s, logonHubConn, clientConns>>
    BY <1>8 DEF LogonQueryAccountMismatch, LogonSendAndShutdown, ShutdownS
  <2>2. \A d \in Conns : srv[d] \in Open => srv'[d] \in Open
    BY <1>a, <2>1 DEF Open
  <2>3. LogonRegistered'
    BY <1>0, <1>a, <2>1, <2>2 DEF LogonRegistered
  <2> QED
    BY <1>c, <2>1, <2>3
<1>9. ASSUME NEW y \in tasks, LogonQueryAccountNoConnection(y) PROVE Goal
  BY <1>b, <1>c, <1>9 DEF LogonQueryAccountNoConnection, netVars
<1>10. ASSUME LogonRestart PROVE Goal
  <2>1. LogonRegistered'
    BY <1>10 DEF LogonRestart, LogonRegistered
  <2>2. \A d \in HubConns : Sent(c2s'[d], t) \subseteq Sent(c2s[d], t)
    BY <1>0, <1>a, <1>10, SentMail DEF LogonRestart, Die
  <2> QED
    BY <2>1, <2>2, IntroducedStep
<1> QED
  BY <1>1, <1>2, <1>3, <1>4, <1>5, <1>6, <1>7, <1>8, <1>9, <1>10 DEF LogonStep

-----------------------------------------------------------------------------
(* Every server knows the connections it has registered for what they are, *)
(* and what is on its way to the hub introduces its sender.                *)
RegInv == HubRegistered /\ KeeperRegistered /\ ForwardRegistered /\ LogonRegistered /\ Introduced

(* The inductive invariant says more than the property. *)
LEMMA RegInvImpliesOpen == RegInv => RegisteredAreOpen
BY DEF RegInv, HubRegistered, KeeperRegistered, ForwardRegistered, LogonRegistered, RegisteredAreOpen

(* Nobody has registered anybody at the start. *)
LEMMA InitRegInv == Init => RegInv
<1> SUFFICES ASSUME Init PROVE RegInv
  OBVIOUS
<1>1. HubRegistered /\ KeeperRegistered /\ ForwardRegistered /\ LogonRegistered
  BY DEF Init, HubInit, KeeperInit, ForwardInit, LogonInit,
         HubRegistered, KeeperRegistered, ForwardRegistered, LogonRegistered
<1>2. \A c \in HubConns : c2s[c] = <<>>
  BY ConnKinds DEF Init, NetInit
<1> QED
  BY <1>1, <1>2, SentOne DEF RegInv, Introduced

(* What a registered connection is, by its link. *)
LEMMA RegisteredKinds ==
  ASSUME TypeInv, RegInv
  PROVE  /\ logonConn # NoConn => logonConn \in HubLogonConns
         /\ logonHubConn # NoConn => logonHubConn \in HubLogonConns
         /\ \A k \in Keepers : /\ keeperConns[k] # NoConn => keeperConns[k] \in HubKeeperConns
                               /\ keeperHubConn[k] # NoConn => keeperHubConn[k] \in HubKeeperConns
                               /\ \A id \in ServerIds : conns[k][id] # NoConn => conns[k][id] \in KeeperForwardConns
                               /\ starting[k] # NotStarting => starting[k].conn \in KeeperForwardConns
         /\ \A p \in Forwards : keeperConn[p] # NoConn => keeperConn[p] \in KeeperForwardConns
         /\ \A n \in Names : clientConns[n] # NoConn => clientConns[n] \in LogonConns
<1>1. /\ logonHubConn # NoConn => logonHubConn \in HubLogonConns
      /\ \A n \in Names : clientConns[n] # NoConn => clientConns[n] \in LogonConns
  BY DEF TypeInv, LogonTypeOK, Opt
<1>2. /\ logonConn # NoConn => logonConn \in HubLogonConns
      /\ \A k \in Keepers : keeperConns[k] # NoConn => keeperConns[k] \in HubKeeperConns
  BY DEF RegInv, HubRegistered
<1>3. /\ \A k \in Keepers : /\ keeperHubConn[k] # NoConn => keeperHubConn[k] \in HubKeeperConns
                            /\ \A id \in ServerIds : conns[k][id] # NoConn => conns[k][id] \in KeeperForwardConns
  BY DEF TypeInv, KeeperTypeOK, Opt
<1>4. \A k \in Keepers : starting[k] # NotStarting => starting[k].conn \in KeeperForwardConns
  BY DEF TypeInv, KeeperTypeOK, Opt
<1>5. \A p \in Forwards : keeperConn[p] # NoConn => keeperConn[p] \in KeeperForwardConns
  BY DEF TypeInv, ForwardTypeOK, Opt
<1> QED
  BY <1>1, <1>2, <1>3, <1>4, <1>5

(* A step that leaves what the hub has registered, and does not close the  *)
(* ends of those connections at the hub, keeps the hub's part.  Likewise   *)
(* for the others.                                                         *)
LEMMA RegisteredElsewhere ==
  ASSUME TypeInv, RegInv
  PROVE  /\ /\ UNCHANGED hubVars
            /\ \A d \in HubConns : srv[d] \in Open => srv'[d] \in Open
            => HubRegistered'
         /\ /\ UNCHANGED keeperVars
            /\ \A d \in HubKeeperConns : cli'[d] = cli[d]
            /\ \A d \in KeeperForwardConns : srv[d] \in Open => srv'[d] \in Open
            => KeeperRegistered'
         /\ /\ UNCHANGED forwardVars
            /\ \A d \in KeeperForwardConns : cli'[d] = cli[d]
            => ForwardRegistered'
         /\ /\ UNCHANGED logonVars
            /\ \A d \in HubLogonConns : cli'[d] = cli[d]
            /\ \A d \in LogonConns : srv[d] \in Open => srv'[d] \in Open
            => LogonRegistered'
         /\ (\A d \in HubConns : c2s'[d] = c2s[d]) => Introduced'
<1>0. /\ \A c \in HubKeeperConns : c \in HubConns
      /\ \A c \in HubLogonConns : c \in HubConns
  BY ConnKinds
<1>1. ASSUME UNCHANGED hubVars, \A d \in HubConns : srv[d] \in Open => srv'[d] \in Open
      PROVE  HubRegistered'
  BY <1>0, <1>1 DEF RegInv, HubRegistered, hubVars
<1>2. ASSUME UNCHANGED keeperVars, \A d \in HubKeeperConns : cli'[d] = cli[d],
             \A d \in KeeperForwardConns : srv[d] \in Open => srv'[d] \in Open
      PROVE  KeeperRegistered'
  BY <1>2, RegisteredKinds DEF RegInv, KeeperRegistered, keeperVars
<1>3. ASSUME UNCHANGED forwardVars, \A d \in KeeperForwardConns : cli'[d] = cli[d]
      PROVE  ForwardRegistered'
  BY <1>3, RegisteredKinds DEF RegInv, ForwardRegistered, forwardVars
<1>4. ASSUME UNCHANGED logonVars, \A d \in HubLogonConns : cli'[d] = cli[d],
             \A d \in LogonConns : srv[d] \in Open => srv'[d] \in Open
      PROVE  LogonRegistered'
  BY <1>4, RegisteredKinds DEF RegInv, LogonRegistered, logonVars
<1>5. ASSUME \A d \in HubConns : c2s'[d] = c2s[d] PROVE Introduced'
  BY <1>5, IntroducedStep DEF RegInv
<1> QED
  BY <1>1, <1>2, <1>3, <1>4, <1>5

(* No step of anybody breaks what any server has registered. *)
LEMMA RegInvStep ==
  ASSUME TypeInv, RegInv, Next
  PROVE  RegInv'
<1>0. /\ \A c \in HubConns : /\ c \in Conns /\ c \notin KeeperForwardConns
                             /\ c \notin LogonConns /\ c \notin ForwardConns
                             /\ (c \in HubKeeperConns \/ c \in HubLogonConns)
      /\ \A c \in HubKeeperConns : c \in HubConns /\ c \notin HubLogonConns
      /\ \A c \in HubLogonConns : c \in HubConns /\ c \notin HubKeeperConns
      /\ \A c \in KeeperForwardConns : /\ c \in Conns /\ c \notin HubConns
                                       /\ c \notin LogonConns /\ c \notin ForwardConns
      /\ \A c \in LogonConns : /\ c \in Conns /\ c \notin HubConns
                               /\ c \notin KeeperForwardConns /\ c \notin ForwardConns
  <2>1. \A c \in HubConns : c \in HubKeeperConns \/ c \in HubLogonConns
    BY DEF HubConns
  <2> QED
    BY <2>1, ConnKinds
<1>a. HubRegistered /\ KeeperRegistered /\ ForwardRegistered /\ LogonRegistered /\ Introduced
  BY DEF RegInv
<1>1. ASSUME Hub PROVE RegInv'
  <2>1. HubStep /\ UNCHANGED <<keeperVars, forwardVars, logonVars>>
    BY <1>1 DEF Hub
  <2>2. HubRegistered' /\ Introduced'
    BY <1>a, <2>1, HubRegisters
  <2>3. \A d \in Conns : cli'[d] = cli[d] /\ (d \notin HubConns => srv'[d] = srv[d])
    BY <2>1, HubFrame DEF Untouched
  <2>4. KeeperRegistered' /\ ForwardRegistered' /\ LogonRegistered'
    BY <1>0, <2>1, <2>3, RegisteredElsewhere
  <2> QED
    BY <2>2, <2>4 DEF RegInv
<1>2. ASSUME NEW k \in Keepers, Keeper(k) PROVE RegInv'
  <2>1. KeeperStep(k) /\ UNCHANGED <<hubVars, forwardVars, logonVars>>
    BY <1>2 DEF Keeper
  <2>2. KeeperRegistered' /\ Introduced'
    BY <1>a, <2>1, KeeperRegisters, KeeperIntroduces
  <2>3. \A d \in HubLogonConns \cup LogonConns : cli'[d] = cli[d] /\ srv'[d] = srv[d]
    <3> SUFFICES ASSUME NEW d \in HubLogonConns \cup LogonConns PROVE cli'[d] = cli[d] /\ srv'[d] = srv[d]
      OBVIOUS
    <3>1. d \in Conns /\ d \notin KeeperEnds(k)
      BY <1>0 DEF KeeperEnds
    <3> QED
      BY <1>a, <2>1, <3>1, KeeperFrame DEF Untouched
  <2>4. /\ \A d \in HubKeeperConns : srv[d] \in Open => srv'[d] \in Open
        /\ \A d \in KeeperForwardConns : cli'[d] = cli[d]
    BY <1>0, <1>a, <2>1, KeeperFrame
  <2> QED
    BY <1>0, <2>1, <2>2, <2>3, <2>4, RegisteredElsewhere DEF RegInv
<1>3. ASSUME NEW p \in Forwards, Forward(p) PROVE RegInv'
  <2>1. ForwardStep(p) /\ UNCHANGED <<hubVars, keeperVars, logonVars>>
    BY <1>3 DEF Forward
  <2>2. ForwardRegistered'
    BY <1>a, <2>1, ForwardRegisters
  <2>3. \A d \in HubConns \cup LogonConns : cli'[d] = cli[d] /\ srv'[d] = srv[d] /\ c2s'[d] = c2s[d]
    <3> SUFFICES ASSUME NEW d \in HubConns \cup LogonConns
                 PROVE  cli'[d] = cli[d] /\ srv'[d] = srv[d] /\ c2s'[d] = c2s[d]
      OBVIOUS
    <3>1. d \in Conns /\ d \notin KeeperConnsOf(p) /\ d \notin ForwardConns
      BY <1>0 DEF KeeperConnsOf
    <3> QED
      BY <1>a, <2>1, <3>1, ForwardFrame DEF Untouched
  <2>4. \A d \in KeeperForwardConns : srv[d] \in Open => srv'[d] \in Open
    BY <1>0, <1>a, <2>1, ForwardFrame
  <2> QED
    BY <1>0, <2>1, <2>2, <2>3, <2>4, RegisteredElsewhere DEF RegInv
<1>4. ASSUME Logon PROVE RegInv'
  <2>1. LogonStep /\ UNCHANGED <<hubVars, keeperVars, forwardVars>>
    BY <1>4 DEF Logon
  <2>2. LogonRegistered' /\ Introduced'
    BY <1>a, <2>1, LogonRegisters
  <2>3. \A d \in HubKeeperConns \cup KeeperForwardConns : cli'[d] = cli[d] /\ srv'[d] = srv[d]
    BY <1>0, <2>1, LogonFrame DEF Untouched
  <2>4. \A d \in HubLogonConns : srv[d] \in Open => srv'[d] \in Open
    BY <1>0, <2>1, LogonFrame
  <2>5. HubRegistered' /\ KeeperRegistered' /\ ForwardRegistered'
    BY <1>0, <2>1, <2>3, <2>4, RegisteredElsewhere
  <2> QED
    BY <2>2, <2>5 DEF RegInv
<1>5. ASSUME NEW c \in Clients, Client(c) PROVE RegInv'
  <2>1. ClientStep(c) /\ UNCHANGED <<hubVars, keeperVars, logonVars>>
    BY <1>5 DEF Client
  <2>2. \A d \in Conns : srv'[d] = srv[d]
    BY <2>1, ClientFrame
  <2>3. LogonConnOf(c) \in LogonConns
    BY DEF LogonConnOf, LogonConns
  <2>4. \A d \in HubConns \cup KeeperForwardConns : cli'[d] = cli[d] /\ c2s'[d] = c2s[d]
    <3> SUFFICES ASSUME NEW d \in HubConns \cup KeeperForwardConns PROVE cli'[d] = cli[d] /\ c2s'[d] = c2s[d]
      OBVIOUS
    <3>1. d \in Conns /\ d # LogonConnOf(c) /\ d \notin ForwardConns
      BY <1>0, <2>3
    <3> QED
      BY <2>1, <3>1, ClientFrame DEF Untouched
  <2>5. UNCHANGED keeperConn
    BY <2>1 DEF ClientStep, ClientConnect, ClientOnConnectionDown, ClientOnLogonRetFailed, ClientOnLogonRetSuccess,
           ClientOnMisframedLogonRet, ForwardClientConnect, ForwardClientOnConnectionDown, forwardVars
  <2>6. ForwardRegistered'
    BY <1>a, <2>4, <2>5, RegisteredKinds DEF ForwardRegistered
  <2>7. HubRegistered' /\ KeeperRegistered' /\ LogonRegistered' /\ Introduced'
    BY <1>0, <2>1, <2>2, <2>4, RegisteredElsewhere
  <2> QED
    BY <2>6, <2>7 DEF RegInv
<1>6. ASSUME Network PROVE RegInv'
  <2>1. UNCHANGED <<cli, srv, c2s, hubVars, keeperVars, forwardVars, logonVars>>
    BY <1>6 DEF Network, Cut
  <2> QED
    BY <2>1, RegisteredElsewhere DEF RegInv
<1> QED
  BY <1>1, <1>2, <1>3, <1>4, <1>5, <1>6 DEF Next

(* Every server knows its connections for what they are, in every state    *)
(* the cluster can reach.                                                  *)
THEOREM Registration == Spec => []RegInv
<1>1. TypeInv /\ RegInv /\ [Next]_vars => RegInv'
  <2> SUFFICES ASSUME TypeInv, RegInv, [Next]_vars PROVE RegInv'
    OBVIOUS
  <2>1. CASE Next
    BY <2>1, RegInvStep
  <2>2. CASE UNCHANGED vars
    BY <2>2, RegisteredElsewhere DEF vars, netVars, RegInv
  <2> QED
    BY <2>1, <2>2
<1> QED
  BY <1>1, InitRegInv, TypeInvariance, PTL DEF Spec

(* Every connection a server keeps for later use is open at its own end,   *)
(* whatever connections are cut and processes restarted: no DOWN callback  *)
(* leaves a TcpConnectionPtr behind.                                       *)
THEOREM RegisteredOpen == Spec => []RegisteredAreOpen
BY Registration, RegInvImpliesOpen, PTL

-----------------------------------------------------------------------------
(* The places of a queue at which a forward process asks for its id. *)
Queries(q) == {i \in DOMAIN q : q[i].type = "KeeperQuery"}

(* The answer of keeper k that hands out id. *)
Answer(k, id) == [type |-> "KeeperAnswer", keeperserverid |-> k, serverid |-> id]

(* No request for a session in q is ahead of the KeeperAnswer. *)
Led(q) == \A i \in DOMAIN q : q[i].type = "KeeperForwardLogonSession" =>
              \E j \in DOMAIN q : j < i /\ q[j].type = "KeeperAnswer"

(* The keeper has given id to the process at the other end of c. *)
Enrolled(c, id) == LET k == KeeperOf[Owner(c)]
                   IN  conns[k][id] = c \/ starting[k] = [id |-> id, conn |-> c]

(* A connection that is not made yet carries nothing. *)
Unused(c) == /\ cli[c] = "none" => srv[c] = "none"
             /\ srv[c] = "none" => s2c[c] = <<>>

(* A connection asks for one id, before anything else, and until it has    *)
(* asked it is not answered.                                               *)
AsksOnce(c) == /\ Queries(c2s[c]) \subseteq {1}
               /\ Queries(c2s[c]) # {} => srv[c] # "shut" /\ Sent(s2c[c], "KeeperAnswer") = {}

(* Whoever is enrolled with an id serves it, or is going to, or is cut     *)
(* off; and nobody is enrolled with two.                                   *)
Serves(c) == \A id \in ServerIds : Enrolled(c, id) =>
    /\ Queries(c2s[c]) = {}
    /\ Sent(s2c[c], "KeeperAnswer") \subseteq {Answer(KeeperOf[Owner(c)], id)}
    /\ cli[c] \in Open => \/ server[Owner(c)] = id
                          \/ Answer(KeeperOf[Owner(c)], id) \in Sent(s2c[c], "KeeperAnswer")
                          \/ lost[c]

(* A forward process without a server hears of it before it is asked for   *)
(* a session.                                                              *)
HearsFirst(c) == cli[c] \in Open => server[Owner(c)] # NoServer \/ Led(s2c[c])

Route(c) == Unused(c) /\ AsksOnce(c) /\ Serves(c) /\ HearsFirst(c)

(* A TcpClient opens its next connection when the one before is closed. *)
OneAtATime == \A c, d \in KeeperForwardConns :
                  Owner(c) = Owner(d) /\ c[3] < d[3] /\ cli[d] # "none" => cli[c] = "down"

RouteInv == OneAtATime /\ \A c \in KeeperForwardConns : Route(c)

(* A step that moves connection c forward without asking or answering on   *)
(* it, and without enrolling it.                                           *)
Calm(c) ==
    /\ cli'[c] = "none" => cli[c] = "none" /\ srv'[c] = srv[c]
    /\ cli'[c] \in Open => /\ cli[c] \in Open
                           /\ server'[Owner(c)] = server[Owner(c)]
                           /\ Sent(s2c[c], "KeeperAnswer") \subseteq Sent(s2c'[c], "KeeperAnswer")
    /\ srv'[c] = "none" => srv[c] = "none" /\ s2c'[c] \in {s2c[c], <<>>}
    /\ srv'[c] = "shut" => srv[c] = "shut" \/ Queries(c2s'[c]) = {}
    /\ Queries(c2s'[c]) \subseteq Queries(c2s[c])
    /\ Sent(s2c'[c], "KeeperAnswer") \subseteq Sent(s2c[c], "KeeperAnswer")
    /\ Led(s2c[c]) => Led(s2c'[c]) \/ server'[Owner(c)] # NoServer
    /\ lost[c] => lost'[c]
    /\ \A id \in ServerIds : Enrolled(c, id)' => Enrolled(c, id)

(* Such a step keeps the connection right. *)
LEMMA CalmRoute ==
  ASSUME NEW c \in KeeperForwardConns, Route(c), Calm(c)
  PROVE  Route(c)'
<1>1. Unused(c)' /\ AsksOnce(c)' /\ HearsFirst(c)'
  BY DEF Route, Unused, AsksOnce, HearsFirst, Calm
<1>2. Serves(c)'
  <2> SUFFICES ASSUME NEW id \in ServerIds, Enrolled(c, id)'
               PROVE  /\ Queries(c2s[c])' = {}
                      /\ Sent(s2c[c], "KeeperAnswer")' \subseteq {Answer(KeeperOf[Owner(c)], id)}
                      /\ cli'[c] \in Open => \/ server'[Owner(c)] = id
                                             \/ Answer(KeeperOf[Owner(c)], id) \in Sent(s2c[c], "KeeperAnswer")'
                                             \/ lost'[c]
    BY DEF Serves
  <2>1. Enrolled(c, id)
    BY DEF Calm
  <2> QED
    BY <2>1 DEF Route, Serves, Calm
<1> QED
  BY <1>1, <1>2 DEF Route

(* Sending anything but a query leaves the queries where they are. *)
LEMMA QueriesAppend ==
  ASSUME NEW M, NEW q \in Seq(M), NEW m, m.type # "KeeperQuery"
  PROVE  Queries(Append(q, m)) = Queries(q)
<1>1. DOMAIN Append(q, m) = 1..(Len(q) + 1) /\ DOMAIN q = 1..Len(q) /\ Len(q) \in Nat
  OBVIOUS
<1>2. \A i \in 1..Len(q) : Append(q, m)[i] = q[i]
  OBVIOUS
<1>3. Append(q, m)[Len(q) + 1] = m
  OBVIOUS
<1>4. 1..(Len(q) + 1) = 1..Len(q) \cup {Len(q) + 1}
  BY <1>1
<1> QED
  BY <1>1, <1>2, <1>3, <1>4 DEF Queries

(* If only the first message may be a query, none is left once it is read. *)
LEMMA QueriesTail ==
  ASSUME NEW M, NEW q \in Seq(M), q # <<>>, Queries(q) \subseteq {1}
  PROVE  /\ Queries(Tail(q)) = {}
         /\ (Head(q).type = "KeeperQuery") <=> (Queries(q) # {})
<1>1. DOMAIN Tail(q) = 1..(Len(q) - 1) /\ DOMAIN q = 1..Len(q) /\ Len(q) \in Nat /\ Len(q) > 0 /\ Head(q) = q[1]
  OBVIOUS
<1>2. \A i \in 1..(Len(q) - 1) : Tail(q)[i] = q[i + 1] /\ i + 1 \in 1..Len(q) /\ i + 1 # 1
  OBVIOUS
<1>3. \A i \in 1..Len(q) : q[i].type = "KeeperQuery" => i = 1
  BY <1>1 DEF Queries
<1>4. Queries(Tail(q)) = {}
  BY <1>1, <1>2, <1>3 DEF Queries
<1>5. 1 \in 1..Len(q)
  BY <1>1
<1> QED
  BY <1>1, <1>3, <1>4, <1>5 DEF Queries

(* Sending anything but a request for a session, or a request behind an    *)
(* answer, keeps the answer ahead.                                         *)
LEMMA LedAppend ==
  ASSUME NEW M, NEW q \in Seq(M), NEW m, Led(q),
         m.type = "KeeperForwardLogonSession" => Sent(q, "KeeperAnswer") # {}
  PROVE  Led(Append(q, m))
<1>1. DOMAIN Append(q, m) = 1..(Len(q) + 1) /\ DOMAIN q = 1..Len(q) /\ Len(q) \in Nat
  OBVIOUS
<1>2. \A i \in 1..Len(q) : Append(q, m)[i] = q[i]
  OBVIOUS
<1>3. Append(q, m)[Len(q) + 1] = m
  OBVIOUS
<1>4. \A i \in 1..(Len(q) + 1) : i \in 1..Len(q) \/ i = Len(q) + 1
  BY <1>1
<1>5. m.type = "KeeperForwardLogonSession" => \E j \in 1..Len(q) : q[j].type = "KeeperAnswer"
  BY <1>1 DEF Sent
<1>6. \A i \in 1..Len(q) : i < Len(q) + 1 /\ i \in 1..(Len(q) + 1)
  BY <1>1
<1> QED
  BY <1>1, <1>2, <1>3, <1>4, <1>5, <1>6 DEF Led

(* An empty queue keeps every promise. *)
LEMMA EmptyQueue ==
  Queries(<<>>) = {} /\ Led(<<>>) /\ \A t : Sent(<<>>, t) = {}
BY DEF Queries, Led, Sent

(* A step that does not touch c is calm on it, if it does not enroll it    *)
(* and its forward process keeps its server.                               *)
LEMMA UntouchedCalm ==
  ASSUME NEW c \in KeeperForwardConns, Untouched(c), server'[Owner(c)] = server[Owner(c)],
         \A id \in ServerIds : Enrolled(c, id)' => Enrolled(c, id)
  PROVE  Calm(c)
BY DEF Untouched, Calm

(* A message that neither asks, answers nor requests a session changes     *)
(* nothing that matters here.                                              *)
LEMMA PlainAppend ==
  ASSUME NEW M, NEW q \in Seq(M), NEW m,
         m.type \notin {"KeeperQuery", "KeeperAnswer", "KeeperForwardLogonSession"}
  PROVE  /\ Queries(Append(q, m)) = Queries(q)
         /\ Sent(Append(q, m), "KeeperAnswer") = Sent(q, "KeeperAnswer")
         /\ Led(q) => Led(Append(q, m))
BY QueriesAppend, SentAppend, LedAppend

(* A keeper answers each query once, enrolls whom it has answered, and     *)
(* passes requests for sessions on to them only.                           *)
LEMMA KeeperRoutes ==
  ASSUME TypeInv, RegInv, RouteInv, NEW k \in Keepers, KeeperStep(k), UNCHANGED server,
         NEW d \in KeeperForwardConns
  PROVE  Route(d)'
<1> USE DEF TypeInv
<1> DEFINE V == Vetted(verified)
<1>0. /\ \A c \in KeeperForwardConns : c \in Conns /\ c \notin HubKeeperConns /\ c # NoConn
      /\ \A c \in HubKeeperConns : c \in Conns /\ c \notin KeeperForwardConns /\ c # NoConn
      /\ Route(d)
  BY ConnKinds, NoConnNotConn DEF RouteInv
<1>a. /\ c2s \in Queues(V) /\ s2c \in Queues(V)
      /\ srv \in [Conns -> EndState] /\ cli \in [Conns -> EndState] /\ lost \in [Conns -> BOOLEAN]
      /\ conns \in [Keepers -> [ServerIds -> KeeperForwardConns \cup {NoConn}]]
      /\ keeperHubConn[k] \in HubKeeperConns \cup {NoConn}
      /\ starting \in [Keepers -> [id : ServerIds, conn : KeeperForwardConns] \cup {NotStarting}]
  BY DEF Mail, Ends, KeeperTypeOK, Opt
<1>b. c2s[d] \in Seq(V) /\ s2c[d] \in Seq(V)
  BY <1>0, <1>a DEF Queues
<1>c. KeeperRegistered
  BY DEF RegInv
<1>d. ASSUME Untouched(d), \A id \in ServerIds : Enrolled(d, id)' => Enrolled(d, id) PROVE Route(d)'
  BY <1>0, <1>d, UntouchedCalm, CalmRoute
<1>e. ASSUME UNCHANGED <<conns, starting>> PROVE \A id \in ServerIds : Enrolled(d, id)' => Enrolled(d, id)
  BY <1>e DEF Enrolled
<1>f. FIN.type \notin {"KeeperQuery", "KeeperAnswer", "KeeperForwardLogonSession"}
  BY DEF FIN
<1>g. KeeperOf[Owner(d)] \in Keepers
  BY ConnKinds, ConfigAssumption DEF Owner
<1>h. d \notin KeeperEnds(k) => Untouched(d)
  BY <1>0, <1>c, KeeperFrame
<1>1. ASSUME NEW c \in HubKeeperConns, KeeperConnectHub(k, c) PROVE Route(d)'
  <2>1. Untouched(d)
    BY <1>0, <1>a, <1>1 DEF KeeperConnectHub, Connected, Untouched, Queues
  <2> QED
    BY <1>1, <1>d, <1>e, <2>1 DEF KeeperConnectHub
<1>2. ASSUME NEW c \in HubKeeperConns, KeeperOnHubConnectionDown(k, c) PROVE Route(d)'
  <2>1. Untouched(d)
    BY <1>0, <1>a, <1>2 DEF KeeperOnHubConnectionDown, CloseC, SendC, Drained, Untouched, Queues
  <2> QED
    BY <1>2, <1>d, <1>e, <2>1 DEF KeeperOnHubConnectionDown
<1>3. ASSUME NEW c \in HubKeeperConns, KeeperOnHubKeeperLogonSession(k, c) PROVE Route(d)'
  <2> DEFINE m == Head(s2c[c])
             r == [type |-> "KeeperForwardLogonSession", uid |-> m.uid, connname |-> m.connname]
             x == conns[k][m.forwardserverid]
  <2>1. s2c' = SendS(Recv(s2c, c), x, r) /\ r.type = "KeeperForwardLogonSession"
    BY <1>3 DEF KeeperOnHubKeeperLogonSession, KeeperSendToForward
  <2>2. UNCHANGED <<cli, srv, c2s, lost, conns, starting>>
    BY <1>3 DEF KeeperOnHubKeeperLogonSession, keeperVars
  <2>3. m \in Vetted(verified) /\ m.type = "HubKeeperLogonSession"
    BY <1>0, <1>3, ReadAtClient DEF KeeperOnHubKeeperLogonSession
  <2>4. m.forwardserverid \in ServerIds
    BY <2>3, MessageFields
  <2> HIDE DEF r, m
  <2>5. s2c'[d] = IF d = x /\ CanSendS(d) THEN Append(s2c[d], r) ELSE s2c[d]
    BY <1>0, <1>a, <2>1 DEF SendS, CanSendS, Recv, Queues
  <2>6. CASE d = x /\ CanSendS(d)
    <3>1. KeeperOf[Owner(d)] = k
      BY <1>0, <1>c, <2>4, <2>6 DEF KeeperRegistered
    <3>2. Enrolled(d, m.forwardserverid)
      BY <2>6, <3>1 DEF Enrolled
    <3>3. cli[d] \in Open => server[Owner(d)] = m.forwardserverid \/ Sent(s2c[d], "KeeperAnswer") # {}
      <4>1. ~lost[d]
        BY <2>6 DEF CanSendS
      <4> QED
        BY <1>0, <2>4, <3>2, <4>1 DEF Route, Serves
    <3>4. m.forwardserverid # NoServer
      BY <2>4, ConfigAssumption DEF NoServer
    <3>5. Queries(c2s'[d]) = Queries(c2s[d]) /\ Sent(s2c'[d], "KeeperAnswer") = Sent(s2c[d], "KeeperAnswer")
      BY <1>b, <2>1, <2>2, <2>5, <2>6, SentAppend
    <3>6. Sent(s2c[d], "KeeperAnswer") # {} /\ Led(s2c[d]) => Led(s2c'[d])
      BY <1>b, <2>5, <2>6, LedAppend
    <3>7. srv'[d] = "up" /\ \A id \in ServerIds : Enrolled(d, id)' => Enrolled(d, id)
      BY <1>e, <2>2, <2>6 DEF CanSendS
    <3>8. HearsFirst(d)'
      BY <1>0, <2>2, <3>3, <3>4, <3>6 DEF Route, HearsFirst
    <3>9. Unused(d)' /\ AsksOnce(d)'
      BY <1>0, <2>2, <3>5, <3>7 DEF Route, Unused, AsksOnce
    <3>10. Serves(d)'
      <4>1. \A id \in ServerIds : Enrolled(d, id)' => Enrolled(d, id)
        BY <3>7
      <4> QED
        BY <1>0, <2>2, <3>5, <4>1 DEF Route, Serves
    <3> QED
      BY <3>8, <3>9, <3>10 DEF Route
  <2>7. CASE ~(d = x /\ CanSendS(d))
    BY <1>d, <1>e, <2>2, <2>5, <2>7 DEF Untouched
  <2> QED
    BY <2>6, <2>7
<1>4. ASSUME NEW c \in KeeperForwardConns, KeeperOnConnectionDown(k, c) PROVE Route(d)'
  <2>1. /\ c2s' = Drained(c2s, c) \/ \E m : c2s' = SendC(Drained(c2s, c), keeperHubConn[k], m)
        /\ CloseS(c) /\ UNCHANGED <<cli, lost, starting>> /\ KeeperOf[Owner(c)] = k
        /\ conns' = [conns EXCEPT ![k] = [id \in ServerIds |-> IF @[id] = c THEN NoConn ELSE @[id]]]
        /\ srv[c] \in Open
        /\ starting[k] = NotStarting
    BY <1>4 DEF KeeperOnConnectionDown, KeeperSendToHub, ClosesS, IOThreadIdle
  <2>2. \A l \in Keepers : \A id \in ServerIds :
           conns'[l][id] = IF l = k /\ conns[k][id] = c THEN NoConn ELSE conns[l][id]
    BY <1>a, <2>1
  <2>3. \A id \in ServerIds : Enrolled(d, id)' => Enrolled(d, id)
    BY <1>0, <1>g, <2>1, <2>2 DEF Enrolled
  <2>4. c2s'[d] = IF d = c THEN <<>> ELSE c2s[d]
    BY <1>0, <1>a, <2>1 DEF SendC, Drained, Queues
  <2>5. CASE d # c
    <3>1. Untouched(d)
      BY <1>0, <1>a, <2>1, <2>4, <2>5 DEF Untouched, CloseS, SendS, Queues
    <3> QED
      BY <1>d, <2>3, <3>1
  <2>6. CASE d = c
    <3>1. s2c'[d] \in {s2c[d], Append(s2c[d], FIN)} /\ srv'[d] = "down"
      BY <1>0, <1>a, <2>1, <2>6 DEF CloseS, SendS, Queues
    <3>2. Queries(c2s'[d]) = {}
      BY <2>4, <2>6, EmptyQueue
    <3>3. /\ Sent(s2c'[d], "KeeperAnswer") = Sent(s2c[d], "KeeperAnswer")
          /\ Led(s2c[d]) => Led(s2c'[d])
      BY <1>b, <1>f, <3>1, PlainAppend
    <3>4. cli'[d] # "none"
      BY <1>0, <2>1, <2>6 DEF Route, Unused, Open
    <3>5. Calm(d)
      BY <2>1, <2>3, <3>1, <3>2, <3>3, <3>4 DEF Calm
    <3> QED
      BY <1>0, <3>5, CalmRoute
  <2> QED
    BY <2>5, <2>6
<1>5. ASSUME NEW c \in KeeperForwardConns, KeeperOnQuery(k, c) PROVE Route(d)'
  <2> DEFINE free == Eligible(k, Head(c2s[c]).servertype)
             id == serverConfig[Min(free)].id
             a  == Answer(k, id)
  <2>1. /\ \E m : c2s' = SendC(Recv(c2s, c), keeperHubConn[k], m)
        /\ s2c' = SendS(s2c, c, a)
        /\ UNCHANGED <<cli, srv, lost, conns>> /\ KeeperOf[Owner(c)] = k
        /\ starting' = [starting EXCEPT ![k] = [id |-> id, conn |-> c]]
        /\ starting[k] = NotStarting
        /\ ReadsS(c, "KeeperQuery")
    BY <1>5 DEF KeeperOnQuery, KeeperSendToHub, Answer, IOThreadIdle
  <2>a. a = Answer(k, id)
    OBVIOUS
  <2> HIDE DEF id, a
  <2>2. a.type = "KeeperAnswer"
    BY <2>a DEF Answer
  <2>3. \A l \in Keepers : starting'[l] = IF l = k THEN [id |-> id, conn |-> c] ELSE starting[l]
    BY <1>a, <2>1
  <2>4. /\ c2s'[d] = IF d = c THEN Tail(c2s[d]) ELSE c2s[d]
        /\ s2c'[d] = IF d = c /\ CanSendS(d) THEN Append(s2c[d], a) ELSE s2c[d]
    BY <1>0, <1>a, <2>1 DEF SendC, SendS, CanSendS, Recv, Queues
  <2>5. CASE d # c
    <3>1. Untouched(d)
      BY <2>1, <2>4, <2>5 DEF Untouched
    <3>2. \A j \in ServerIds : Enrolled(d, j)' => Enrolled(d, j)
      BY <1>g, <2>1, <2>3, <2>5 DEF Enrolled
    <3> QED
      BY <1>d, <3>1, <3>2
  <2>6. CASE d = c
    <3>1. c2s[d] # <<>> /\ Head(c2s[d]).type = "KeeperQuery" /\ srv[d] \in Open
      BY <2>1, <2>6 DEF ReadsS
    <3>2. Queries(c2s[d]) # {} /\ Queries(Tail(c2s[d])) = {}
      BY <1>0, <1>b, <3>1, QueriesTail DEF Route, AsksOnce
    <3>3. srv[d] = "up" /\ Sent(s2c[d], "KeeperAnswer") = {}
      BY <1>0, <3>1, <3>2 DEF Route, AsksOnce, Open
    <3>4. \A j \in ServerIds : conns[k][j] # d
      BY <1>0, <2>1, <2>6, <3>2 DEF Route, Serves, Enrolled
    <3>5. \A j \in ServerIds : Enrolled(d, j)' => j = id
      <4> SUFFICES ASSUME NEW j \in ServerIds, Enrolled(d, j)' PROVE j = id
        OBVIOUS
      <4>1. starting'[k] = [id |-> j, conn |-> d] /\ starting'[k] = [id |-> id, conn |-> d]
        BY <2>1, <2>3, <2>6, <3>4 DEF Enrolled
      <4> QED
        BY <4>1
    <3>6. Queries(c2s'[d]) = {}
      BY <2>4, <2>6, <3>2
    <3>7. /\ Sent(s2c'[d], "KeeperAnswer") \subseteq {a}
          /\ CanSendS(d) => Sent(s2c'[d], "KeeperAnswer") = {a}
          /\ Led(s2c[d]) => Led(s2c'[d])
      <4>1. Sent(Append(s2c[d], a), "KeeperAnswer") = {a}
        <5>1. Sent(Append(s2c[d], a), "KeeperAnswer") = Sent(s2c[d], "KeeperAnswer") \cup {a}
          BY <1>b, <2>2, SentAppend, ZenonT(30)
        <5> QED
          BY <3>3, <5>1
      <4>2. Led(s2c[d]) => Led(Append(s2c[d], a))
        BY <1>b, <2>2, LedAppend
      <4> QED
        BY <2>4, <2>6, <3>3, <4>1, <4>2
    <3>8. cli'[d] \in Open /\ ~lost'[d] => CanSendS(d)
      BY <1>0, <2>1, <3>3 DEF CanSendS, Open
    <3>9. Unused(d)' /\ AsksOnce(d)' /\ HearsFirst(d)'
      BY <1>0, <2>1, <3>3, <3>6, <3>7 DEF Route, Unused, AsksOnce, HearsFirst
    <3>10. Serves(d)'
      BY <2>1, <2>6, <2>a, <3>5, <3>6, <3>7, <3>8 DEF Serves
    <3> QED
      BY <3>9, <3>10 DEF Route
  <2> QED
    BY <2>5, <2>6
<1>6. ASSUME NEW c \in KeeperForwardConns, KeeperOnQueryDuplicate(k, c) PROVE Route(d)'
  <2>1. /\ c2s' = Recv(c2s, c) /\ ShutdownS(c, s2c) /\ ReadsS(c, "KeeperQuery")
        /\ UNCHANGED <<cli, lost, conns, starting>>
    BY <1>6 DEF KeeperOnQueryDuplicate, keeperVars
  <2>2. CASE d # c
    <3>1. Untouched(d)
      BY <1>0, <1>a, <2>1, <2>2 DEF Untouched, ShutdownS, SendS, Recv, Queues
    <3> QED
      BY <1>d, <1>e, <2>1, <3>1
  <2>3. CASE d = c
    <3>1. /\ s2c'[d] \in {s2c[d], Append(s2c[d], FIN)} /\ c2s'[d] = Tail(c2s[d])
          /\ srv'[d] \in Open /\ srv[d] \in Open /\ c2s[d] # <<>>
      BY <1>0, <1>a, <2>1, <2>3 DEF ShutdownS, SendS, Recv, Queues, ReadsS, Open
    <3>2. Queries(c2s'[d]) = {}
      BY <1>0, <1>b, <3>1, QueriesTail DEF Route, AsksOnce
    <3>3. /\ Sent(s2c'[d], "KeeperAnswer") = Sent(s2c[d], "KeeperAnswer")
          /\ Led(s2c[d]) => Led(s2c'[d])
      BY <1>b, <1>f, <3>1, PlainAppend
    <3>4. cli'[d] # "none"
      BY <1>0, <2>1, <3>1 DEF Route, Unused, Open
    <3>5. Calm(d)
      BY <1>e, <2>1, <3>1, <3>2, <3>3, <3>4 DEF Calm, Open
    <3> QED
      BY <1>0, <3>5, CalmRoute
  <2> QED
    BY <2>2, <2>3
<1>r. ASSUME NEW c \in KeeperForwardConns, \E m : c2s' = SendC(Recv(c2s, c), keeperHubConn[k], m),
             c2s[c] # <<>>, UNCHANGED <<cli, srv, s2c, lost, conns, starting>>
      PROVE  Route(d)'
  <2>1. c2s'[d] = IF d = c THEN Tail(c2s[d]) ELSE c2s[d]
    BY <1>0, <1>a, <1>r DEF SendC, Recv, Queues
  <2>2. Queries(c2s'[d]) \subseteq Queries(c2s[d])
    BY <1>0, <1>b, <1>r, <2>1, QueriesTail DEF Route, AsksOnce
  <2>3. Calm(d)
    BY <1>e, <1>r, <2>2 DEF Calm
  <2> QED
    BY <1>0, <2>3, CalmRoute
<1>7. ASSUME NEW c \in KeeperForwardConns, KeeperOnKeeperForwardLogonSessionRet(k, c) PROVE Route(d)'
  BY <1>7, <1>r DEF KeeperOnKeeperForwardLogonSessionRet, KeeperSendToHub, ReadsS, keeperVars
<1>8. ASSUME NEW c \in KeeperForwardConns, KeeperOnKeeperForwardUpdateForwardConns(k, c) PROVE Route(d)'
  BY <1>8, <1>r DEF KeeperOnKeeperForwardUpdateForwardConns, KeeperSendToHub, ReadsS, keeperVars
<1>9. ASSUME KeeperOnQueryDone(k) PROVE Route(d)'
  <2>1. /\ UNCHANGED netVars
        /\ starting[k] # NotStarting
        /\ conns' = [conns EXCEPT ![k][starting[k].id] = starting[k].conn]
        /\ starting' = [starting EXCEPT ![k] = NotStarting]
    BY <1>9 DEF KeeperOnQueryDone, IOThreadIdle
  <2>2. starting[k] \in [id : ServerIds, conn : KeeperForwardConns]
    BY <1>a, <2>1
  <2>3. \A l \in Keepers : \A id \in ServerIds :
           conns'[l][id] = IF l = k /\ id = starting[k].id THEN starting[k].conn ELSE conns[l][id]
    BY <1>a, <2>1, <2>2
  <2>4. \A l \in Keepers : starting'[l] = IF l = k THEN NotStarting ELSE starting[l]
    BY <1>a, <2>1
  <2>5. \A id \in ServerIds : NotStarting # [id |-> id, conn |-> d]
    BY <1>0 DEF NotStarting
  <2>6. \A id \in ServerIds : Enrolled(d, id)' => Enrolled(d, id)
    <3> SUFFICES ASSUME NEW id \in ServerIds, Enrolled(d, id)' PROVE Enrolled(d, id)
      OBVIOUS
    <3> DEFINE l == KeeperOf[Owner(d)]
    <3>1. l \in Keepers /\ (conns'[l][id] = d \/ starting'[l] = [id |-> id, conn |-> d])
      BY <1>g DEF Enrolled
    <3>2. conns[l][id] = d \/ starting[l] = [id |-> id, conn |-> d] \/ (l = k /\ id = starting[k].id /\ starting[k].conn = d)
      BY <2>3, <2>4, <2>5, <3>1
    <3>3. starting[k] = [id |-> starting[k].id, conn |-> starting[k].conn]
      BY <2>2
    <3> QED
      BY <3>2, <3>3 DEF Enrolled
  <2> QED
    BY <1>d, <2>1, <2>6 DEF netVars, Untouched
<1>10. ASSUME KeeperRestart(k) PROVE Route(d)'
  <2> DEFINE C == {c \in HubKeeperConns : Owner(c) = k}
             S == {c \in KeeperForwardConns : KeeperOf[Owner(c)] = k}
  <2>1. /\ Die(C, S)
        /\ conns' = [conns EXCEPT ![k] = [id \in ServerIds |-> NoConn]]
        /\ starting' = [starting EXCEPT ![k] = NotStarting]
    BY <1>10 DEF KeeperRestart
  <2>2. \A id \in ServerIds : Enrolled(d, id)' => Enrolled(d, id)
    <3>1. \A l \in Keepers : l # k => conns'[l] = conns[l] /\ starting'[l] = starting[l]
      BY <1>a, <2>1
    <3>2. starting'[k] = NotStarting /\ \A id \in ServerIds : conns'[k][id] = NoConn
      BY <1>a, <2>1
    <3>3. \A id \in ServerIds : NotStarting # [id |-> id, conn |-> d]
      BY <1>0 DEF NotStarting
    <3> QED
      BY <1>0, <1>g, <3>1, <3>2, <3>3 DEF Enrolled
  <2>3. /\ cli'[d] = cli[d]
        /\ srv'[d] = IF d \in S /\ d \in Live THEN "down" ELSE srv[d]
        /\ d \notin S => Untouched(d)
    BY <1>0, <2>1, OtherDeaths
  <2>4. s2c'[d] = s2c[d] /\ (d \in S => c2s'[d] = <<>>) /\ (lost[d] => lost'[d])
    <3>1. s2c'[d] = s2c[d] /\ (d \in S => c2s'[d] = <<>>)
      BY <1>0, <2>1 DEF Die, Emptied
    <3>2. lost[d] => lost'[d]
      BY <1>0, <2>1 DEF Die, LostAlso
    <3> QED
      BY <3>1, <3>2
  <2>5. CASE d \notin S
    BY <1>d, <2>2, <2>3, <2>5
  <2>6. CASE d \in S
    <3>1. Queries(c2s'[d]) = {}
      BY <2>4, <2>6, EmptyQueue
    <3>2. cli'[d] = "none" => srv'[d] = srv[d]
      BY <2>3 DEF Live
    <3> HIDE DEF S, C
    <3>3. Calm(d)
      BY <2>2, <2>3, <2>4, <3>1, <3>2 DEF Calm
    <3> QED
      BY <1>0, <3>3, CalmRoute
  <2> QED
    BY <2>5, <2>6
<1> QED
  BY <1>1, <1>2, <1>3, <1>4, <1>5, <1>6, <1>7, <1>8, <1>9, <1>10 DEF KeeperStep

(* A burst of equal messages that are not queries. *)
LEMMA QueriesRepeat ==
  ASSUME NEW M, NEW q \in Seq(M), NEW n \in Nat, NEW m, m.type # "KeeperQuery"
  PROVE  Queries(q \o [i \in 1..n |-> m]) = Queries(q)
<1> DEFINE r == [i \in 1..n |-> m]
<1>1. r \in Seq({m}) /\ Len(r) = n /\ \A i \in 1..n : r[i] = m
  OBVIOUS
<1> HIDE DEF r
<1>2. q \in Seq(M \cup {m}) /\ r \in Seq(M \cup {m})
  BY <1>1
<1>3. /\ DOMAIN (q \o r) = 1..(Len(q) + n)
      /\ \A i \in 1..(Len(q) + n) : (q \o r)[i] = IF i <= Len(q) THEN q[i] ELSE r[i - Len(q)]
  BY <1>1, <1>2
<1>4. DOMAIN q = 1..Len(q) /\ Len(q) \in Nat
  OBVIOUS
<1>5. \A i \in 1..(Len(q) + n) : IF i <= Len(q) THEN i \in DOMAIN q /\ (q \o r)[i] = q[i] ELSE (q \o r)[i] = m
  <2> SUFFICES ASSUME NEW i \in 1..(Len(q) + n)
               PROVE  IF i <= Len(q) THEN i \in DOMAIN q /\ (q \o r)[i] = q[i] ELSE (q \o r)[i] = m
    OBVIOUS
  <2>1. CASE i <= Len(q)
    BY <1>3, <1>4, <2>1
  <2>2. CASE ~(i <= Len(q))
    <3>1. i - Len(q) \in 1..n
      BY <1>4, <2>2
    <3> QED
      BY <1>1, <1>3, <2>2, <3>1
  <2> QED
    BY <2>1, <2>2
<1>6. \A i \in 1..Len(q) : i \in 1..(Len(q) + n) /\ i <= Len(q)
  BY <1>4
<1> QED
  BY <1>3, <1>4, <1>5, <1>6 DEF Queries, r

(* Two connections of one TcpClient are told apart by their number, and at *)
(* most one of them is open at its own end.                                *)
LEMMA OneOpen ==
  ASSUME OneAtATime, NEW c \in KeeperForwardConns, NEW d \in KeeperForwardConns, Owner(c) = Owner(d), c # d,
         cli[c] \in Open
  PROVE  cli[d] \notin Open
<1>1. c[3] \in Nat /\ d[3] \in Nat /\ c = <<"keeperforward", c[2], c[3]>> /\ d = <<"keeperforward", d[2], d[3]>>
  BY DEF KeeperForwardConns
<1>2. c[3] # d[3]
  BY <1>1 DEF Owner
<1>3. c[3] < d[3] \/ d[3] < c[3]
  BY <1>1, <1>2
<1> QED
  BY <1>3 DEF OneAtATime, Open

(* The next connection of a TcpClient is opened after all earlier ones.    *)
LEMMA NextInLine ==
  ASSUME OneAtATime, NEW c \in KeeperForwardConns, MayConnect(c), cli \in [Conns -> EndState],
         cli' = [cli EXCEPT ![c] = "up"]
  PROVE  OneAtATime'
<1>0. \A d \in KeeperForwardConns : /\ d[3] \in Nat /\ d[3] >= 1
                                    /\ d = <<"keeperforward", d[2], d[3]>>
                                    /\ d \in Conns
  BY ConnKinds DEF KeeperForwardConns
<1> SUFFICES ASSUME NEW a \in KeeperForwardConns, NEW b \in KeeperForwardConns, Owner(a) = Owner(b), a[3] < b[3],
                    cli'[b] # "none"
             PROVE  cli'[a] = "down"
  BY DEF OneAtATime
<1>1. CASE b = c
  <2>1. a[3] \in 1..(c[3] - 1)
    BY <1>0, <1>1
  <2>2. a = <<Kind(c), Owner(c), a[3]>>
    BY <1>0, <1>1 DEF Kind, Owner
  <2>3. cli[a] = "down" /\ a # c
    BY <1>0, <1>1, <2>1, <2>2 DEF MayConnect
  <2> QED
    BY <1>0, <2>3
<1>2. CASE b # c
  <2>1. cli[b] # "none"
    BY <1>0, <1>2
  <2>2. cli[a] = "down"
    BY <2>1 DEF OneAtATime
  <2>3. a # c
    BY <2>2 DEF MayConnect
  <2> QED
    BY <1>0, <2>2, <2>3
<1> QED
  BY <1>1, <1>2

(* A step after which no end that was closed is open or waiting again      *)
(* keeps the order of connections.                                         *)
LEMMA InLine ==
  ASSUME OneAtATime, \A c \in KeeperForwardConns : /\ cli[c] = "down" => cli'[c] = "down"
                                                   /\ cli[c] = "none" => cli'[c] = "none"
  PROVE  OneAtATime'
BY DEF OneAtATime

(* A forward process has no server until it is answered, and serves from   *)
(* then on what the answer says.                                           *)
LEMMA ForwardRoutes ==
  ASSUME TypeInv, RegInv, RouteInv, NEW p \in Forwards, ForwardStep(p), UNCHANGED <<conns, starting>>,
         NEW d \in KeeperForwardConns
  PROVE  Route(d)' /\ OneAtATime'
<1> USE DEF TypeInv
<1> DEFINE V == Vetted(verified)
           A == "KeeperAnswer"
           Goal == Route(d)' /\ OneAtATime'
<1>0. /\ \A c \in KeeperForwardConns : c \in Conns /\ c \notin ForwardConns /\ c # NoConn
      /\ \A c \in ForwardConns : c \in Conns /\ c \notin KeeperForwardConns /\ c # NoConn
      /\ \A c \in KeeperConnsOf(p) : c \in KeeperForwardConns /\ Owner(c) = p
      /\ \A c \in ClientConnsOf(p) : c \in ForwardConns
      /\ Owner(d) \in Forwards
      /\ Owner(d) = p => d \in KeeperConnsOf(p)
  BY ConnKinds, NoConnNotConn DEF KeeperConnsOf, ClientConnsOf, Owner
<1>a. /\ c2s \in Queues(V) /\ s2c \in Queues(V)
      /\ srv \in [Conns -> EndState] /\ cli \in [Conns -> EndState] /\ lost \in [Conns -> BOOLEAN]
      /\ server \in [Forwards -> ServerIds \cup {NoServer}]
      /\ keeperConn[p] \in KeeperForwardConns \cup {NoConn}
  BY DEF Mail, Ends, ForwardTypeOK, Opt
<1>b. c2s[d] \in Seq(V) /\ s2c[d] \in Seq(V)
  BY <1>0, <1>a DEF Queues
<1>c. Route(d) /\ OneAtATime
  BY DEF RouteInv
<1>d. \A id \in ServerIds : Enrolled(d, id)' => Enrolled(d, id)
  BY DEF Enrolled
<1>e. ASSUME Untouched(d), server'[Owner(d)] = server[Owner(d)] PROVE Route(d)'
  BY <1>c, <1>d, <1>e, UntouchedCalm, CalmRoute
<1>f. ASSUME UNCHANGED cli PROVE OneAtATime'
  BY <1>c, <1>f, InLine
<1>g. FIN.type \notin {"KeeperQuery", "KeeperAnswer", "KeeperForwardLogonSession"}
  BY DEF FIN
<1>h. ForwardRegistered
  BY DEF RegInv
<1>i. ASSUME Die(KeeperConnsOf(p), ClientConnsOf(p)), NEW running, Blank(p, running) PROVE Goal
  <2>1. \A c \in KeeperForwardConns : /\ cli'[c] = IF c \in KeeperConnsOf(p) /\ c \in Live THEN "down" ELSE cli[c]
                                      /\ srv'[c] = srv[c]
                                      /\ c \notin KeeperConnsOf(p) => Untouched(c)
    BY <1>0, <1>i, OtherDeaths
  <2>2. OneAtATime'
    BY <1>c, <2>1, InLine DEF Live
  <2>3. server'[Owner(d)] = IF Owner(d) = p THEN NoServer ELSE server[Owner(d)]
    BY <1>0, <1>a, <1>i DEF Blank
  <2>4. CASE Owner(d) # p
    BY <1>0, <1>e, <2>1, <2>2, <2>3, <2>4
  <2>5. CASE Owner(d) = p
    <3>1. s2c'[d] = <<>> /\ c2s'[d] = c2s[d]
      BY <1>0, <1>i, <2>5 DEF Die, Emptied
    <3>2. lost[d] => lost'[d]
      BY <1>0, <1>i DEF Die, LostAlso
    <3>3. cli'[d] \notin Open
      BY <1>0, <2>1, <2>5 DEF Live, Open
    <3>4. cli'[d] = "none" => cli[d] = "none"
      BY <2>1
    <3>5. Sent(s2c'[d], A) = {} /\ Led(s2c'[d])
      BY <3>1, EmptyQueue
    <3> HIDE DEF A
    <3>6. Calm(d)
      BY <1>d, <2>1, <3>1, <3>2, <3>3, <3>4, <3>5 DEF Calm, A
    <3> QED
      BY <1>c, <2>2, <3>6, CalmRoute
  <2> QED
    BY <2>4, <2>5
<1>j. ASSUME c2s'[d] \in {c2s[d]} \/ \E m : m.type # "KeeperQuery" /\ c2s'[d] = Append(c2s[d], m),
             UNCHANGED <<cli, lost, server>>, srv'[d] = srv[d], s2c'[d] = s2c[d]
      PROVE  Goal
  <2>1. Queries(c2s'[d]) = Queries(c2s[d])
    BY <1>b, <1>j, QueriesAppend
  <2>2. Calm(d)
    BY <1>d, <1>j, <2>1 DEF Calm
  <2> QED
    BY <1>c, <1>f, <1>j, <2>2, CalmRoute
<1>k. ASSUME NEW q \in Queues(V), q[d] = c2s[d], NEW m, m.type # "KeeperQuery", c2s' = SendC(q, keeperConn[p], m)
      PROVE  c2s'[d] \in {c2s[d]} \/ \E n : n.type # "KeeperQuery" /\ c2s'[d] = Append(c2s[d], n)
  <2>1. c2s'[d] = q[d] \/ c2s'[d] = Append(q[d], m)
    BY <1>0, <1>k DEF SendC, Queues
  <2> QED
    BY <1>k, <2>1
<1> HIDE DEF KeeperConnsOf, ClientConnsOf
<1>1. ASSUME NEW c \in KeeperConnsOf(p), ForwardConnectKeeper(p, c) PROVE Goal
  <2> DEFINE m == [type |-> "KeeperQuery", servertype |-> "FORWARD"]
  <2>1. /\ MayConnect(c) /\ cli' = [cli EXCEPT ![c] = "up"] /\ c2s' = [c2s EXCEPT ![c] = <<m>>]
        /\ srv' = [srv EXCEPT ![c] = "up"] /\ UNCHANGED <<s2c, lost, server>>
    BY <1>1 DEF ForwardConnectKeeper, Connected
  <2> HIDE DEF m
  <2>2. OneAtATime'
    BY <1>0, <1>a, <1>c, <2>1, NextInLine
  <2>3. CASE d # c
    <3>1. Untouched(d)
      BY <1>0, <1>a, <2>1, <2>3 DEF Untouched, Queues
    <3> QED
      BY <1>e, <2>1, <2>2, <3>1
  <2>4. CASE d = c
    <3>1. srv[d] = "none" /\ s2c[d] = <<>>
      BY <1>c, <2>1, <2>4 DEF Route, Unused, MayConnect
    <3>2. cli'[d] = "up" /\ srv'[d] = "up" /\ s2c'[d] = <<>> /\ c2s'[d] = <<m>>
      BY <1>0, <1>a, <2>1, <2>4, <3>1 DEF Queues
    <3>3. Queries(c2s'[d]) \subseteq {1}
      BY <3>2 DEF Queries
    <3>4. Sent(s2c'[d], A) = {} /\ Led(s2c'[d])
      BY <3>2, EmptyQueue
    <3>5. \A id \in ServerIds : ~Enrolled(d, id)
      <4> SUFFICES ASSUME NEW id \in ServerIds, Enrolled(d, id) PROVE FALSE
        OBVIOUS
      <4>1. KeeperOf[Owner(d)] \in Keepers
        BY <1>0, ConfigAssumption
      <4>2. [id |-> id, conn |-> d] # NotStarting
        BY <1>0 DEF NotStarting
      <4>3. srv[d] \in Open
        BY <1>0, <4>1, <4>2 DEF RegInv, KeeperRegistered, Enrolled
      <4> QED
        BY <3>1, <4>3 DEF Open
    <3>6. Serves(d)'
      BY <1>d, <3>5 DEF Serves
    <3>7. Unused(d)' /\ AsksOnce(d)' /\ HearsFirst(d)'
      BY <3>2, <3>3, <3>4 DEF Unused, AsksOnce, HearsFirst
    <3> QED
      BY <2>2, <3>6, <3>7 DEF Route
  <2> QED
    BY <2>3, <2>4
<1>2. ASSUME NEW c \in KeeperConnsOf(p), ForwardOnKeeperConnectionDown(p, c) PROVE Goal
  <2>1. /\ CloseC(c) /\ UNCHANGED <<srv, lost, server>> /\ cli[c] \in Open
    BY <1>2 DEF ForwardOnKeeperConnectionDown, ClosesC
  <2>2. \A x \in KeeperForwardConns : cli'[x] = IF x = c THEN "down" ELSE cli[x]
    BY <1>0, <1>a, <2>1 DEF CloseC
  <2>3. OneAtATime'
    BY <1>c, <2>1, <2>2, InLine DEF Open
  <2>4. CASE d # c
    <3>1. Untouched(d)
      BY <1>0, <1>a, <2>1, <2>2, <2>4 DEF Untouched, CloseC, SendC, Drained, Queues
    <3> QED
      BY <1>e, <2>1, <2>3, <3>1
  <2>5. CASE d = c
    <3>1. s2c'[d] = <<>> /\ c2s'[d] \in {c2s[d], Append(c2s[d], FIN)} /\ cli'[d] = "down"
      BY <1>0, <1>a, <2>1, <2>2, <2>5 DEF CloseC, SendC, Drained, Queues
    <3>2. Queries(c2s'[d]) = Queries(c2s[d])
      BY <1>b, <1>g, <3>1, PlainAppend
    <3>3. Sent(s2c'[d], A) = {} /\ Led(s2c'[d])
      BY <3>1, EmptyQueue
    <3>4. Calm(d)
      BY <1>d, <2>1, <3>1, <3>2, <3>3 DEF Calm, Open
    <3> QED
      BY <1>c, <2>3, <3>4, CalmRoute
  <2> QED
    BY <2>4, <2>5
<1>3. ASSUME NEW c \in KeeperConnsOf(p), ForwardOnAnswer(p, c) PROVE Goal
  <2> DEFINE m == Head(s2c[c])
             q == Emptied(c2s, ClientConnsOf(p))
  <2>1. /\ ReadsC(c, A) /\ s2c' = Recv(s2c, c)
        /\ server' = [server EXCEPT ![p] = m.serverid]
        /\ UNCHANGED cli
    BY <1>3 DEF ForwardOnAnswer
  <2>2. srv'[d] = srv[d] /\ (lost[d] => lost'[d])
    <3>1. srv'[d] = srv[d]
      BY <1>0, <1>3 DEF ForwardOnAnswer, Killed
    <3>2. lost[d] => lost'[d]
      BY <1>0, <1>3 DEF ForwardOnAnswer, LostAlso
    <3> QED
      BY <3>1, <3>2
  <2>3. Queries(c2s'[d]) = Queries(c2s[d])
    <3>1. PICK n \in 0..Cardinality({x \in ClientConnsOf(p) : srv[x] = "up"}) :
             c2s' = IF CanSendC(keeperConn[p])
                    THEN [q EXCEPT ![keeperConn[p]] = @ \o [i \in 1..n |-> UpdateConns(p, "DEC")]]
                    ELSE q
      BY <1>3 DEF ForwardOnAnswer
    <3>2. UpdateConns(p, "DEC").type # "KeeperQuery"
      BY DEF UpdateConns
    <3>3. q \in Queues(V) /\ q[d] = c2s[d]
      BY <1>0, <1>a, EmptiedType DEF Emptied
    <3> HIDE DEF q
    <3>4. c2s'[d] \in {c2s[d], c2s[d] \o [i \in 1..n |-> UpdateConns(p, "DEC")]}
      BY <1>0, <3>1, <3>3 DEF Queues
    <3>5. n \in Nat
      OBVIOUS
    <3> QED
      BY <1>b, <3>2, <3>4, <3>5, QueriesRepeat, ZenonT(30)
  <2>4. m \in V /\ m.type = A
    BY <1>0, <2>1, ReadAtClient
  <2>5. m.serverid \in ServerIds /\ m.serverid # NoServer
    BY <2>4, MessageFields, ConfigAssumption DEF NoServer
  <2> HIDE DEF m
  <2>6. server'[Owner(d)] = IF Owner(d) = p THEN m.serverid ELSE server[Owner(d)]
    BY <1>0, <1>a, <2>1
  <2>7. CASE d # c
    <3>1. s2c'[d] = s2c[d]
      BY <1>0, <1>a, <2>1, <2>7 DEF Recv, Queues
    <3>2. Owner(d) = p => cli[d] \notin Open
      BY <1>0, <1>c, <2>1, <2>7, OneOpen DEF ReadsC
    <3>3. Calm(d)
      BY <1>d, <2>1, <2>2, <2>3, <2>6, <3>1, <3>2 DEF Calm
    <3> QED
      BY <1>c, <1>f, <2>1, <3>3, CalmRoute
  <2>8. CASE d = c
    <3>1. s2c'[d] = Tail(s2c[d]) /\ s2c[d] # <<>> /\ cli[d] \in Open /\ Head(s2c[d]) = m /\ Owner(d) = p
      BY <1>0, <1>a, <2>1, <2>8 DEF Recv, Queues, ReadsC, m
    <3>2. m \in Sent(s2c[d], A)
      <4>1. s2c[d][1] = m /\ 1 \in DOMAIN s2c[d]
        BY <1>b, <3>1
      <4> QED
        BY <2>4, <4>1 DEF Sent
    <3>3. Sent(s2c'[d], A) \subseteq Sent(s2c[d], A)
      BY <1>b, <3>1, SentTail
    <3>4. HearsFirst(d)'
      BY <2>5, <2>6, <3>1 DEF HearsFirst
    <3>5. Unused(d)' /\ AsksOnce(d)'
      <4>1. Queries(c2s[d]) = {}
        BY <1>c, <3>2 DEF Route, AsksOnce
      <4>2. srv[d] # "none"
        BY <1>c, <3>1 DEF Route, Unused
      <4> QED
        BY <1>c, <2>1, <2>2, <2>3, <3>1, <4>1, <4>2 DEF Unused, AsksOnce, Open
    <3>6. Serves(d)'
      <4> SUFFICES ASSUME NEW id \in ServerIds, Enrolled(d, id)'
                   PROVE  /\ Queries(c2s'[d]) = {}
                          /\ Sent(s2c'[d], A) \subseteq {Answer(KeeperOf[Owner(d)], id)}
                          /\ server'[Owner(d)] = id
        BY DEF Serves
      <4>1. Queries(c2s[d]) = {} /\ Sent(s2c[d], A) \subseteq {Answer(KeeperOf[Owner(d)], id)}
        BY <1>c, <1>d DEF Route, Serves
      <4>2. m = Answer(KeeperOf[Owner(d)], id)
        BY <3>2, <4>1
      <4>3. m.serverid = id
        BY <4>2 DEF Answer
      <4> QED
        BY <2>3, <2>6, <3>1, <3>3, <4>1, <4>3
    <3> QED
      BY <1>f, <2>1, <3>4, <3>5, <3>6 DEF Route
  <2> QED
    BY <2>7, <2>8
<1>4. ASSUME NEW c \in KeeperConnsOf(p), ForwardOnAnswerAbort(p, c) PROVE Goal
  BY <1>i, <1>4 DEF ForwardOnAnswerAbort, Abort
<1>5. ASSUME NEW c \in KeeperConnsOf(p), ForwardOnKeeperForwardLogonSession(p, c) PROVE Goal
  <2>1. /\ \E m : m.type # "KeeperQuery" /\ c2s' = SendC(c2s, keeperConn[p], m)
        /\ s2c' = Recv(s2c, c) /\ UNCHANGED <<cli, srv, lost, server>>
        /\ ReadsC(c, "KeeperForwardLogonSession") /\ server[p] # NoServer
    BY <1>5 DEF ForwardOnKeeperForwardLogonSession, ForwardSendToKeeper
  <2>2. c2s'[d] \in {c2s[d]} \/ \E n : n.type # "KeeperQuery" /\ c2s'[d] = Append(c2s[d], n)
    BY <1>a, <1>k, <2>1
  <2>3. CASE d # c
    <3>1. s2c'[d] = s2c[d]
      BY <1>0, <1>a, <2>1, <2>3 DEF Recv, Queues
    <3> QED
      BY <1>j, <2>1, <2>2, <3>1
  <2>4. CASE d = c
    <3>1. /\ s2c'[d] = Tail(s2c[d]) /\ s2c[d] # <<>> /\ cli[d] \in Open /\ Owner(d) = p
          /\ Head(s2c[d]).type # A
      BY <1>0, <1>a, <2>1, <2>4 DEF Recv, Queues, ReadsC
    <3>2. Sent(s2c'[d], A) = Sent(s2c[d], A)
      BY <1>b, <3>1, SentTail
    <3>3. Queries(c2s'[d]) = Queries(c2s[d])
      BY <1>b, <2>2, QueriesAppend
    <3>4. srv[d] # "none"
      BY <1>c, <3>1 DEF Route, Unused
    <3>5. Calm(d)
      BY <1>d, <2>1, <3>1, <3>2, <3>3, <3>4 DEF Calm, Open
    <3> QED
      BY <1>c, <1>f, <2>1, <3>5, CalmRoute
  <2> QED
    BY <2>3, <2>4
<1>6. ASSUME NEW x \in ForwardConns, ForwardOnConnectionUp(p, x) PROVE Goal
  <2>1. /\ \E m : m.type # "KeeperQuery" /\ c2s' = SendC(c2s, keeperConn[p], m)
        /\ srv' = [srv EXCEPT ![x] = "up"] /\ UNCHANGED <<cli, s2c, lost, server>>
    BY <1>6 DEF ForwardOnConnectionUp, ForwardSendToKeeper, UpdateConns, forwardVars
  <2>2. c2s'[d] \in {c2s[d]} \/ \E n : n.type # "KeeperQuery" /\ c2s'[d] = Append(c2s[d], n)
    BY <1>a, <1>k, <2>1
  <2> QED
    BY <1>0, <1>a, <1>j, <2>1, <2>2
<1>7. ASSUME NEW x \in ForwardConns, ForwardOnConnectionDown(p, x) PROVE Goal
  <2>1. /\ \E m : m.type # "KeeperQuery" /\ c2s' = SendC(Drained(c2s, x), keeperConn[p], m)
        /\ CloseS(x) /\ UNCHANGED <<cli, lost, server>>
    BY <1>7 DEF ForwardOnConnectionDown, ForwardSendToKeeper, UpdateConns, forwardVars
  <2>2. Drained(c2s, x) \in Queues(V) /\ Drained(c2s, x)[d] = c2s[d]
    BY <1>0, <1>a, DrainedType DEF Drained, Queues
  <2>3. c2s'[d] \in {c2s[d]} \/ \E n : n.type # "KeeperQuery" /\ c2s'[d] = Append(c2s[d], n)
    BY <1>k, <2>1, <2>2
  <2>4. srv'[d] = srv[d] /\ s2c'[d] = s2c[d]
    BY <1>0, <1>a, <2>1 DEF CloseS, SendS, Queues
  <2> QED
    BY <1>j, <2>1, <2>3, <2>4
<1>8. ASSUME NEW x \in ForwardConns, ForwardOnLogonForward(p, x) PROVE Goal
  <2>1. c2s'[d] = c2s[d] /\ UNCHANGED <<cli, lost, server, srv, s2c>>
    BY <1>0, <1>a, <1>8 DEF ForwardOnLogonForward, Recv, Queues
  <2> QED
    BY <1>j, <2>1
<1>9. ASSUME ForwardCheckLogonForwardSession(p) PROVE Goal
  <2> DEFINE x == Head(checks[p]).conn
  <2>1. x \in ForwardConns
    <3>1. checks[p] \in Seq(Check) /\ checks[p] # <<>>
      BY <1>9 DEF ForwardCheckLogonForwardSession, ForwardTypeOK
    <3>2. Head(checks[p]) \in Check
      BY <3>1
    <3> QED
      BY <3>2 DEF Check
  <2>2. /\ UNCHANGED <<srv, s2c>> \/ ShutdownS(x, s2c)
        /\ UNCHANGED <<cli, c2s, lost, server>>
    BY <1>9 DEF ForwardCheckLogonForwardSession
  <2> HIDE DEF x
  <2>3. srv'[d] = srv[d] /\ s2c'[d] = s2c[d]
    BY <1>0, <1>a, <2>1, <2>2 DEF ShutdownS, SendS, Queues
  <2> QED
    BY <1>j, <2>2, <2>3
<1>10. ASSUME ForwardDanglingCheck(p) PROVE Goal
  <2>1. CASE UNCHANGED <<netVars, server>>
    BY <1>j, <2>1 DEF netVars
  <2>2. CASE Abort(p)
    BY <1>i, <2>2 DEF Abort
  <2> QED
    BY <1>10, <2>1, <2>2 DEF ForwardDanglingCheck
<1>11. ASSUME ForwardRestart(p) PROVE Goal
  BY <1>i, <1>11 DEF ForwardRestart
<1> QED
  BY <1>1, <1>2, <1>3, <1>4, <1>5, <1>6, <1>7, <1>8, <1>9, <1>10, <1>11 DEF ForwardStep

-----------------------------------------------------------------------------
(* At the start no forward process has connected. *)
LEMMA InitRouteInv == Init => RouteInv
<1> SUFFICES ASSUME Init PROVE RouteInv
  OBVIOUS
<1>1. \A c \in KeeperForwardConns :
         /\ cli[c] = "none" /\ srv[c] = "none" /\ c2s[c] = <<>> /\ s2c[c] = <<>>
         /\ Owner(c) \in Forwards /\ c # NoConn
  BY ConnKinds, NoConnNotConn DEF Init, NetInit, Owner
<1>2. OneAtATime
  BY <1>1 DEF OneAtATime
<1>3. ASSUME NEW c \in KeeperForwardConns PROVE Route(c)
  <2>1. KeeperOf[Owner(c)] \in Keepers
    BY <1>1, ConfigAssumption
  <2>2. \A id \in ServerIds : ~Enrolled(c, id)
    <3>1. \A id \in ServerIds : NotStarting # [id |-> id, conn |-> c]
      BY <1>1 DEF NotStarting
    <3> QED
      BY <1>1, <2>1, <3>1 DEF Enrolled, Init, KeeperInit
  <2> QED
    BY <1>1, <2>2, EmptyQueue DEF Route, Unused, AsksOnce, Serves, HearsFirst, Open
<1> QED
  BY <1>2, <1>3 DEF RouteInv

(* What others do does not concern the connections between keepers and     *)
(* forward processes.                                                      *)
LEMMA RouteElsewhere ==
  ASSUME RouteInv, UNCHANGED <<conns, starting, server>>,
         \A c \in KeeperForwardConns : /\ cli'[c] = cli[c] /\ srv'[c] = srv[c]
                                       /\ c2s'[c] = c2s[c] /\ s2c'[c] = s2c[c]
                                       /\ lost[c] => lost'[c]
  PROVE  RouteInv'
<1>1. OneAtATime'
  BY InLine DEF RouteInv
<1>2. ASSUME NEW c \in KeeperForwardConns PROVE Route(c)'
  <2>1. Calm(c)
    BY DEF Calm, Enrolled
  <2> QED
    BY <2>1, CalmRoute DEF RouteInv
<1> QED
  BY <1>1, <1>2 DEF RouteInv

(* No step of anybody breaks the routes. *)
LEMMA RouteInvStep ==
  ASSUME TypeInv, RegInv, RouteInv, Next
  PROVE  RouteInv'
<1>0. \A c \in KeeperForwardConns : /\ c \in Conns /\ c \notin HubConns /\ c \notin HubLogonConns
                                    /\ c \notin LogonConns /\ c \notin ForwardConns
  BY ConnKinds
<1>a. ASSUME UNCHANGED <<conns, starting, server>>, \A c \in KeeperForwardConns : Untouched(c) PROVE RouteInv'
  BY <1>a, RouteElsewhere DEF Untouched
<1>1. ASSUME Hub PROVE RouteInv'
  <2>1. HubStep /\ UNCHANGED <<conns, starting, server>>
    BY <1>1 DEF Hub, keeperVars, forwardVars
  <2> QED
    BY <1>0, <1>a, <2>1, HubFrame
<1>2. ASSUME NEW k \in Keepers, Keeper(k) PROVE RouteInv'
  <2>1. KeeperStep(k) /\ UNCHANGED server
    BY <1>2 DEF Keeper, forwardVars
  <2>2. \A c \in KeeperForwardConns : cli'[c] = cli[c]
    BY <1>0, <2>1, KeeperFrame DEF RegInv
  <2>3. OneAtATime'
    BY <2>2, InLine DEF RouteInv
  <2> QED
    BY <2>1, <2>3, KeeperRoutes DEF RouteInv
<1>3. ASSUME NEW p \in Forwards, Forward(p) PROVE RouteInv'
  <2>1. ForwardStep(p) /\ UNCHANGED <<conns, starting>>
    BY <1>3 DEF Forward, keeperVars
  <2>2. \A c \in KeeperForwardConns : Route(c)'
    BY <2>1, ForwardRoutes
  <2>3. CASE KeeperForwardConns = {}
    BY <2>3 DEF RouteInv, OneAtATime
  <2>4. CASE KeeperForwardConns # {}
    BY <2>1, <2>2, <2>4, ForwardRoutes DEF RouteInv
  <2> QED
    BY <2>3, <2>4
<1>4. ASSUME Logon PROVE RouteInv'
  <2>1. LogonStep /\ UNCHANGED <<conns, starting, server>>
    BY <1>4 DEF Logon, keeperVars, forwardVars
  <2> QED
    BY <1>0, <1>a, <2>1, LogonFrame
<1>5. ASSUME NEW c \in Clients, Client(c) PROVE RouteInv'
  <2>1. ClientStep(c) /\ UNCHANGED <<conns, starting>>
    BY <1>5 DEF Client, keeperVars
  <2>2. UNCHANGED server
    BY <2>1 DEF ClientStep, ClientConnect, ClientOnConnectionDown, ClientOnLogonRetFailed, ClientOnLogonRetSuccess,
           ClientOnMisframedLogonRet, ForwardClientConnect, ForwardClientOnConnectionDown, forwardVars
  <2>3. LogonConnOf(c) \in LogonConns
    BY DEF LogonConnOf, LogonConns
  <2> QED
    BY <1>0, <1>a, <2>1, <2>2, <2>3, ClientFrame
<1>6. ASSUME Network PROVE RouteInv'
  <2>1. PICK c \in Conns : Cut(c)
    BY <1>6 DEF Network
  <2>2. UNCHANGED <<cli, srv, c2s, s2c>> /\ \A d \in Conns : lost[d] => lost'[d]
    BY <2>1 DEF Cut, TypeInv, Ends
  <2>3. UNCHANGED <<conns, starting, server>>
    BY <1>6 DEF Network, keeperVars, forwardVars
  <2> QED
    BY <1>0, <2>2, <2>3, RouteElsewhere
<1> QED
  BY <1>1, <1>2, <1>3, <1>4, <1>5, <1>6 DEF Next

(* The routes are right in every state the cluster can reach. *)
THEOREM Routes == Spec => []RouteInv
<1>1. TypeInv /\ RegInv /\ RouteInv /\ [Next]_vars => RouteInv'
  <2> SUFFICES ASSUME TypeInv, RegInv, RouteInv, [Next]_vars PROVE RouteInv'
    OBVIOUS
  <2>1. CASE Next
    BY <2>1, RouteInvStep
  <2>2. CASE UNCHANGED vars
    BY <2>2, RouteElsewhere DEF vars, netVars, keeperVars, forwardVars
  <2> QED
    BY <2>1, <2>2
<1> QED
  BY <1>1, InitRouteInv, TypeInvariance, Registration, PTL DEF Spec

(* conns_ of a keeper is right about who serves an id, through every cut   *)
(* and every restart: a session is never created at another forward server *)
(* than the one the hub chose.                                             *)
THEOREM RoutingIsSound == Spec => []RoutingSound
<1>1. TypeInv /\ RegInv /\ RouteInv => RoutingSound
  <2> SUFFICES ASSUME TypeInv, RegInv, RouteInv, NEW k \in Keepers, NEW id \in ServerIds,
                      conns[k][id] # NoConn, cli[conns[k][id]] \in Open
               PROVE  \/ server[Owner(conns[k][id])] = id
                      \/ \E i \in DOMAIN s2c[conns[k][id]] : s2c[conns[k][id]][i] = Answer(k, id)
                      \/ lost[conns[k][id]]
    BY DEF RoutingSound, Answer
  <2> DEFINE c == conns[k][id]
  <2>1. c \in KeeperForwardConns /\ KeeperOf[Owner(c)] = k
    BY DEF TypeInv, KeeperTypeOK, Opt, RegInv, KeeperRegistered
  <2>2. Enrolled(c, id)
    BY <2>1 DEF Enrolled
  <2>a. cli[c] \in Open
    OBVIOUS
  <2> HIDE DEF c
  <2>3. server[Owner(c)] = id \/ Answer(k, id) \in Sent(s2c[c], "KeeperAnswer") \/ lost[c]
    BY <2>1, <2>2, <2>a DEF RouteInv, Route, Serves
  <2>4. Answer(k, id) \in Sent(s2c[c], "KeeperAnswer") => \E i \in DOMAIN s2c[c] : s2c[c][i] = Answer(k, id)
    BY DEF Sent
  <2> QED
    BY <2>3, <2>4 DEF c
<1> QED
  BY <1>1, TypeInvariance, Registration, Routes, PTL

(* assert(forwardServer_) in KeeperClient::onKeeperForwardLogonSession     *)
(* holds, through every cut and every restart.                             *)
THEOREM AnswerComesFirst == Spec => []SessionAfterAnswer
<1>1. TypeInv /\ RouteInv => SessionAfterAnswer
  <2> SUFFICES ASSUME TypeInv, RouteInv, NEW p \in Forwards, NEW c \in KeeperConnsOf(p),
                      ReadsC(c, "KeeperForwardLogonSession"), server[p] = NoServer
               PROVE  FALSE
    BY DEF SessionAfterAnswer
  <2>1. c \in KeeperForwardConns /\ Owner(c) = p /\ c \in Conns
    BY ConnKinds DEF KeeperConnsOf
  <2>2. Led(s2c[c])
    BY <2>1 DEF ReadsC, RouteInv, Route, HearsFirst
  <2>3. s2c[c] \in Seq(Vetted(verified)) /\ s2c[c] # <<>> /\ Head(s2c[c]).type = "KeeperForwardLogonSession"
    BY <2>1 DEF TypeInv, Mail, Queues, ReadsC
  <2>4. 1 \in DOMAIN s2c[c] /\ s2c[c][1].type = "KeeperForwardLogonSession"
    BY <2>3
  <2>5. \A j \in DOMAIN s2c[c] : ~(j < 1)
    BY <2>3
  <2> QED
    BY <2>2, <2>4, <2>5 DEF Led
<1> QED
  BY <1>1, TypeInvariance, Routes, PTL
=============================================================================

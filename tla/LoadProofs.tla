----------------------------- MODULE LoadProofs -----------------------------
(***************************************************************************)
(* Who serves which id, and what the hub knows of it, while the processes  *)
(* of the keepers and the forward servers run on and the connections       *)
(* between them hold.                                                      *)
(*                                                                         *)
(* IdInv: an entry of serverStart_ gives one id to one connection of one   *)
(* process, for good. It holds because only a connection that is refused   *)
(* is ever closed, and a process asks again only after that; so a process  *)
(* that has a server is never answered a second time, which is what aborts *)
(* it in KeeperClient::onAnswer.                                           *)
(*                                                                         *)
(* ListInv: an id is added to the hub's list at most once. The hub and the *)
(* connections to it may fail: then ids are missing from the list.         *)
(*                                                                         *)
(* SteadyInv, LoadInv: if the hub and the keepers' connections to it hold  *)
(* as well, all reports of an id go up two queues, from the process to the *)
(* keeper and from the keeper to the hub. The hub's count, taken along the *)
(* two queues one report at a time (Walk), never leaves uint16_t and ends  *)
(* at the number of client connections that are open; the ADD of the id    *)
(* comes before all of them.                                               *)
(***************************************************************************)
EXTENDS RoutingProofs

(* No keeper or forward process is restarted, and no connection between    *)
(* them is cut.                                                            *)
LinksHold == FaultKinds \cap {"keeper", "forward", "keeperforward"} = {}

(* All forward processes ask the same keeper, as in run.sh: every keeper   *)
(* hands out all ids of servers.lua.                                       *)
OneKeeperForAll == \A p, q \in Forwards : KeeperOf[p] = KeeperOf[q]

(* The keeper has given id to connection c. *)
Given(c, id) == \E i \in DOMAIN serverStart[KeeperOf[Owner(c)]] :
                    /\ serverStart[KeeperOf[Owner(c)]][i].id = id
                    /\ serverStart[KeeperOf[Owner(c)]][i].connName = c

(* Both ends of c are open, and neither is about to be closed. *)
Firm(c) == /\ cli[c] = "up" /\ srv[c] = "up"
           /\ Sent(c2s[c], "FIN") = {} /\ Sent(s2c[c], "FIN") = {}

(* Message m occurs at most once in q. *)
Once(q, m) == \A i, j \in DOMAIN q : q[i] = m /\ q[j] = m => i = j

(* A connection that asks, or that has been given an id, is firm. *)
StaysUp(c) == /\ ~lost[c]
              /\ cli[c] # "shut"
              /\ cli[c] = "up" => keeperConn[Owner(c)] = c
              /\ Queries(c2s[c]) # {} => Firm(c)
              /\ \A id \in ServerIds : Given(c, id) => Firm(c) /\ Queries(c2s[c]) = {}

(* An answer in flight is the only one, and the first its process gets. *)
AnsweredOnce(c) == \A m \in Sent(s2c[c], "KeeperAnswer") :
                      /\ m = Answer(KeeperOf[Owner(c)], m.serverid)
                      /\ Given(c, m.serverid)
                      /\ server[Owner(c)] = NoServer
                      /\ Once(s2c[c], m)

(* What the process behind c reports to its keeper is about the id it was  *)
(* given on c.                                                             *)
AboutItself(c, m) == /\ m.keeperserverid = KeeperOf[Owner(c)]
                     /\ m.forwardserverid = server[Owner(c)]
                     /\ m.oper \in {"INC", "DEC"}
                     /\ Given(c, m.forwardserverid)

ReportsItself(c) == \A m \in Sent(c2s[c], "KeeperForwardUpdateForwardConns") : AboutItself(c, m)

Linked(c) == StaysUp(c) /\ AnsweredOnce(c) /\ ReportsItself(c)

(* A process runs, serves an id only if it was given it, and has no check  *)
(* queued for a server that does not exist any more.                       *)
Placed(p) == /\ alive[p]
             /\ server[p] # NoServer => \E c \in KeeperConnsOf(p) : Given(c, server[p])
             /\ server[p] = NoServer => checks[p] = <<>>
             /\ \A i \in DOMAIN checks[p] : checks[p][i].live

(* The entries of serverStart_ stay as they are made. *)
Started == \A k \in Keepers : \A i \in DOMAIN serverStart[k] :
              /\ serverStart[k][i].start
              /\ KeeperOf[Owner(serverStart[k][i].connName)] = k

(* A process is given one id, and an id is given to one process. *)
GivenOnce == \A c, d \in KeeperForwardConns : \A i, j \in ServerIds :
                Given(c, i) /\ Given(d, j) /\ (Owner(c) = Owner(d) \/ i = j) => c = d /\ i = j

IdInv == /\ Started
         /\ GivenOnce
         /\ \A c \in KeeperForwardConns : Linked(c)
         /\ \A p \in Forwards : Placed(p)

-----------------------------------------------------------------------------
(* A step takes messages of type t out of a queue or leaves them there. *)
Thins(q, r, t) == /\ Sent(r, t) \subseteq Sent(q, t)
                  /\ \A m : m.type = t /\ Once(q, m) => Once(r, m)

(* Reading a queue thins it. *)
LEMMA ThinsTail ==
  ASSUME NEW M, NEW q \in Seq(M), q # <<>>, NEW t
  PROVE  Thins(q, Tail(q), t)
<1>1. DOMAIN Tail(q) = 1..(Len(q) - 1) /\ DOMAIN q = 1..Len(q) /\ Len(q) \in Nat /\ Len(q) > 0
  OBVIOUS
<1>2. \A i \in 1..(Len(q) - 1) : Tail(q)[i] = q[i + 1] /\ i + 1 \in 1..Len(q)
  OBVIOUS
<1>3. ASSUME NEW m, Once(q, m) PROVE Once(Tail(q), m)
  <2> SUFFICES ASSUME NEW i \in 1..(Len(q) - 1), NEW j \in 1..(Len(q) - 1), Tail(q)[i] = m, Tail(q)[j] = m
               PROVE  i = j
    BY <1>1 DEF Once
  <2>1. i + 1 = j + 1
    BY <1>1, <1>2, <1>3 DEF Once
  <2> QED
    BY <2>1
<1>4. Sent(Tail(q), t) \subseteq Sent(q, t)
  BY SentTail
<1> QED
  BY <1>3, <1>4 DEF Thins

(* So does sending a message of another type. *)
LEMMA ThinsAppend ==
  ASSUME NEW M, NEW q \in Seq(M), NEW n, NEW t, n.type # t
  PROVE  Thins(q, Append(q, n), t)
<1>1. DOMAIN Append(q, n) = 1..(Len(q) + 1) /\ DOMAIN q = 1..Len(q) /\ Len(q) \in Nat
  OBVIOUS
<1>2. \A i \in 1..(Len(q) + 1) : \/ i \in DOMAIN q /\ Append(q, n)[i] = q[i]
                                 \/ i = Len(q) + 1 /\ Append(q, n)[i] = n
  <2>1. \A i \in 1..Len(q) : i \in DOMAIN q /\ Append(q, n)[i] = q[i]
    OBVIOUS
  <2>2. Append(q, n)[Len(q) + 1] = n
    OBVIOUS
  <2>3. \A i \in 1..(Len(q) + 1) : i \in 1..Len(q) \/ i = Len(q) + 1
    BY <1>1
  <2> QED
    BY <2>1, <2>2, <2>3
<1>3. ASSUME NEW m, m.type = t, Once(q, m) PROVE Once(Append(q, n), m)
  BY <1>1, <1>2, <1>3 DEF Once
<1>4. Sent(Append(q, n), t) \subseteq Sent(q, t)
  BY SentAppend
<1> QED
  BY <1>3, <1>4 DEF Thins

(* And so does discarding a queue, or doing nothing to it. *)
LEMMA ThinsTrivially ==
  ASSUME NEW q, NEW t
  PROVE  Thins(q, q, t) /\ Thins(q, <<>>, t)
BY DEF Thins, Sent, Once

(* A message that is not in a queue is there once when it has been sent;   *)
(* once it has been read it is not there any more.                         *)
LEMMA OnceSentAndRead ==
  ASSUME NEW M, NEW q \in Seq(M), NEW m
  PROVE  /\ m \notin Sent(q, m.type) => Once(Append(q, m), m)
         /\ q # <<>> /\ Head(q) = m /\ Once(q, m) => m \notin Sent(Tail(q), m.type)
<1>1. ASSUME m \notin Sent(q, m.type) PROVE Once(Append(q, m), m)
  <2>1. \A i \in DOMAIN q : q[i] # m
    BY <1>1 DEF Sent
  <2>2. \A i \in DOMAIN Append(q, m) : (i \in DOMAIN q /\ Append(q, m)[i] = q[i]) \/ i = Len(q) + 1
    OBVIOUS
  <2> QED
    BY <2>1, <2>2 DEF Once
<1>2. ASSUME q # <<>>, Head(q) = m, Once(q, m) PROVE m \notin Sent(Tail(q), m.type)
  <2>1. DOMAIN Tail(q) = 1..(Len(q) - 1) /\ DOMAIN q = 1..Len(q) /\ Len(q) \in Nat /\ Len(q) > 0 /\ q[1] = m
    BY <1>2
  <2>2. \A i \in 1..(Len(q) - 1) : Tail(q)[i] = q[i + 1] /\ i + 1 \in 1..Len(q) /\ i + 1 # 1 /\ 1 \in 1..Len(q)
    BY <1>2
  <2>3. \A i \in DOMAIN Tail(q) : Tail(q)[i] # m
    BY <1>2, <2>1, <2>2 DEF Once
  <2> QED
    BY <2>3 DEF Sent
<1> QED
  BY <1>1, <1>2

(* The message a handler reads is among those in the queue. *)
LEMMA HeadSent ==
  ASSUME NEW M, NEW q \in Seq(M), q # <<>>
  PROVE  Head(q) \in Sent(q, Head(q).type)
<1>1. 1 \in DOMAIN q /\ q[1] = Head(q)
  OBVIOUS
<1> QED
  BY <1>1 DEF Sent

-----------------------------------------------------------------------------
(* A step that leaves the ends of c and its place in the tables alone,     *)
(* asks, answers and closes nothing on it, and reports only what is so.    *)
Smooth(c) ==
    /\ lost'[c] = lost[c] /\ cli'[c] = cli[c] /\ srv'[c] = srv[c]
    /\ keeperConn'[Owner(c)] = keeperConn[Owner(c)]
    /\ server'[Owner(c)] = server[Owner(c)]
    /\ \A id : Given(c, id)' <=> Given(c, id)
    /\ Queries(c2s'[c]) \subseteq Queries(c2s[c])
    /\ Sent(c2s'[c], "FIN") \subseteq Sent(c2s[c], "FIN")
    /\ Sent(s2c'[c], "FIN") \subseteq Sent(s2c[c], "FIN")
    /\ Thins(s2c[c], s2c'[c], "KeeperAnswer")
    /\ \A m \in Sent(c2s'[c], "KeeperForwardUpdateForwardConns") :
          m \in Sent(c2s[c], "KeeperForwardUpdateForwardConns") \/ AboutItself(c, m)

(* Such a step keeps the connection right. *)
LEMMA SmoothLinked ==
  ASSUME NEW c \in KeeperForwardConns, Linked(c), Smooth(c)
  PROVE  Linked(c)'
<1>1. StaysUp(c)'
  <2>1. Firm(c) => Firm(c)'
    BY DEF Smooth, Firm
  <2> QED
    BY <2>1 DEF Linked, StaysUp, Smooth
<1>2. AnsweredOnce(c)'
  <2> SUFFICES ASSUME NEW m \in Sent(s2c'[c], "KeeperAnswer")
               PROVE  /\ m = Answer(KeeperOf[Owner(c)], m.serverid)
                      /\ Given(c, m.serverid)'
                      /\ server'[Owner(c)] = NoServer
                      /\ Once(s2c'[c], m)
    BY DEF AnsweredOnce
  <2>1. m \in Sent(s2c[c], "KeeperAnswer") /\ m.type = "KeeperAnswer"
    BY DEF Smooth, Thins, Sent
  <2>2. m = Answer(KeeperOf[Owner(c)], m.serverid) /\ Given(c, m.serverid) /\ server[Owner(c)] = NoServer
        /\ Once(s2c[c], m)
    BY <2>1 DEF Linked, AnsweredOnce
  <2> QED
    BY <2>1, <2>2 DEF Smooth, Thins
<1>3. ReportsItself(c)'
  BY DEF Linked, ReportsItself, Smooth, AboutItself
<1> QED
  BY <1>1, <1>2, <1>3 DEF Linked

(* A step that does not touch c, and leaves its process and its entry in   *)
(* serverStart_ alone, is smooth on it.                                    *)
LEMMA UntouchedSmooth ==
  ASSUME NEW c \in KeeperForwardConns, Untouched(c), keeperConn'[Owner(c)] = keeperConn[Owner(c)],
         server'[Owner(c)] = server[Owner(c)], \A id : Given(c, id)' <=> Given(c, id)
  PROVE  Smooth(c)
BY ThinsTrivially DEF Untouched, Smooth

(* Whoever asks, closes or is not connected has not been given an id. *)
LEMMA NotGiven ==
  ASSUME TypeInv, NEW c \in KeeperForwardConns, Linked(c),
         \/ cli[c] = "none"
         \/ c2s[c] # <<>> /\ Head(c2s[c]) = FIN
         \/ s2c[c] # <<>> /\ Head(s2c[c]) = FIN
         \/ Queries(c2s[c]) # {}
  PROVE  \A id \in ServerIds : ~Given(c, id)
<1>1. c2s[c] \in Seq(Vetted(verified)) /\ s2c[c] \in Seq(Vetted(verified))
  BY ConnKinds DEF TypeInv, Mail, Queues
<1>2. /\ c2s[c] # <<>> => Head(c2s[c]) \in Sent(c2s[c], Head(c2s[c]).type)
      /\ s2c[c] # <<>> => Head(s2c[c]) \in Sent(s2c[c], Head(s2c[c]).type)
  BY <1>1, HeadSent
<1>3. FIN.type = "FIN"
  BY DEF FIN
<1> QED
  BY <1>2, <1>3 DEF Linked, StaysUp, Firm

(* A connection that is being closed asks for nothing any more. *)
LEMMA ClosingAsksNothing ==
  ASSUME TypeInv, NEW c \in KeeperForwardConns, Linked(c),
         \/ c2s[c] # <<>> /\ Head(c2s[c]) = FIN
         \/ s2c[c] # <<>> /\ Head(s2c[c]) = FIN
  PROVE  Queries(c2s[c]) = {}
<1>1. c2s[c] \in Seq(Vetted(verified)) /\ s2c[c] \in Seq(Vetted(verified))
  BY ConnKinds DEF TypeInv, Mail, Queues
<1>2. /\ c2s[c] # <<>> => Head(c2s[c]) \in Sent(c2s[c], Head(c2s[c]).type)
      /\ s2c[c] # <<>> => Head(s2c[c]) \in Sent(s2c[c], Head(s2c[c]).type)
  BY <1>1, HeadSent
<1>3. FIN.type = "FIN"
  BY DEF FIN
<1> QED
  BY <1>2, <1>3 DEF Linked, StaysUp, Firm

(* setStarted for an id that is not started gives it to the connection,    *)
(* and takes nothing from the others.                                      *)
LEMMA GivenAppended ==
  ASSUME TypeInv, Started, NEW k \in Keepers, NEW c \in KeeperForwardConns, KeeperOf[Owner(c)] = k,
         NEW id \in ServerIds, ~isStarted(k, id),
         serverStart' = [serverStart EXCEPT ![k] = setStarted(@, id, TRUE, c)]
  PROVE  /\ Started'
         /\ \A d \in KeeperForwardConns : \A j : Given(d, j)' <=> (Given(d, j) \/ (d = c /\ j = id))
         /\ \A d \in KeeperForwardConns : KeeperOf[Owner(d)] = k => ~Given(d, id)
<1> DEFINE list == serverStart[k]
           e    == [id |-> id, start |-> TRUE, connName |-> c]
           new  == Append(list, e)
<1>1. serverStart \in [Keepers -> Seq(ServerStart)] /\ list \in Seq(ServerStart)
  BY DEF TypeInv, KeeperTypeOK
<1>2. \A i \in DOMAIN list : list[i].id # id
  BY DEF isStarted, Started
<1>3. setStarted(list, id, TRUE, c) = new
  BY <1>2 DEF setStarted
<1>4. serverStart'[k] = new /\ \A l \in Keepers : l # k => serverStart'[l] = serverStart[l]
  BY <1>1, <1>3
<1>5. /\ DOMAIN new = 1..(Len(list) + 1) /\ DOMAIN list = 1..Len(list) /\ Len(list) \in Nat
      /\ \A i \in DOMAIN list : new[i] = list[i] /\ i \in DOMAIN new
      /\ new[Len(list) + 1] = e
  BY <1>1
<1>6. \A i \in DOMAIN new : i \in DOMAIN list \/ i = Len(list) + 1
  BY <1>5
<1>7. Len(list) + 1 \in DOMAIN new
  BY <1>5
<1>8. e.id = id /\ e.start /\ e.connName = c
  OBVIOUS
<1> HIDE DEF e, new
<1>9. Started'
  <2> SUFFICES ASSUME NEW l \in Keepers, NEW i \in DOMAIN serverStart'[l]
               PROVE  serverStart'[l][i].start /\ KeeperOf[Owner(serverStart'[l][i].connName)] = l
    BY DEF Started
  <2>1. CASE l # k
    BY <1>4, <2>1 DEF Started
  <2>2. CASE l = k
    <3>1. serverStart'[l] = new /\ i \in DOMAIN new
      BY <1>4, <2>2
    <3>2. ASSUME i \in DOMAIN list PROVE new[i].start /\ KeeperOf[Owner(new[i].connName)] = l
      <4>1. new[i] = list[i]
        BY <1>5, <3>2
      <4>2. list[i].start /\ KeeperOf[Owner(list[i].connName)] = k
        BY <3>2 DEF Started
      <4> QED
        BY <2>2, <4>1, <4>2
    <3>3. ASSUME i = Len(list) + 1 PROVE new[i].start /\ KeeperOf[Owner(new[i].connName)] = l
      <4>1. new[i] = e
        BY <1>5, <3>3
      <4> QED
        BY <1>8, <2>2, <4>1
    <3> QED
      BY <1>6, <3>1, <3>2, <3>3
  <2> QED
    BY <2>1, <2>2
<1>10. ASSUME NEW d \in KeeperForwardConns, NEW j PROVE Given(d, j)' <=> (Given(d, j) \/ (d = c /\ j = id))
  <2> DEFINE l == KeeperOf[Owner(d)]
  <2>0. l \in Keepers
    BY ConnKinds, ConfigAssumption DEF Owner
  <2>1. CASE l # k
    <3>1. d # c
      BY <2>1
    <3> QED
      BY <1>4, <2>0, <2>1, <3>1 DEF Given
  <2>2. CASE l = k
    <3>1. Given(d, j)' <=> \E i \in DOMAIN new : new[i].id = j /\ new[i].connName = d
      BY <1>4, <2>2 DEF Given
    <3>2. Given(d, j) <=> \E i \in DOMAIN list : list[i].id = j /\ list[i].connName = d
      BY <2>2 DEF Given
    <3> QED
      BY <1>5, <1>6, <1>7, <1>8, <3>1, <3>2
  <2> QED
    BY <2>1, <2>2
<1> QED
  BY <1>2, <1>9, <1>10 DEF Given

(* A keeper that answers a query picks an id that is not started. *)
LEMMA QueryAnswered ==
  ASSUME NEW k \in Keepers, NEW c \in KeeperForwardConns, KeeperOnQuery(k, c)
  PROVE  \E id \in ServerIds :
            /\ ~isStarted(k, id)
            /\ s2c' = SendS(s2c, c, Answer(k, id))
            /\ c2s' = SendC(Recv(c2s, c), keeperHubConn[k], UpdateForwardConns(k, id, "ADD"))
            /\ serverStart' = [serverStart EXCEPT ![k] = setStarted(@, id, TRUE, c)]
<1> DEFINE free == Eligible(k, Head(c2s[c]).servertype)
           id   == serverConfig[Min(free)].id
<1>1. /\ free # {}
      /\ s2c' = SendS(s2c, c, Answer(k, id))
      /\ c2s' = SendC(Recv(c2s, c), keeperHubConn[k], UpdateForwardConns(k, id, "ADD"))
      /\ serverStart' = [serverStart EXCEPT ![k] = setStarted(@, id, TRUE, c)]
  BY DEF KeeperOnQuery, KeeperSendToHub, Answer
<1>2. free \in SUBSET Nat
  BY ConfigAssumption DEF Eligible
<1>3. Min(free) \in free
  BY <1>1, <1>2, MinProperty
<1>4. id \in ServerIds /\ ~isStarted(k, id)
  BY <1>3 DEF Eligible, ServerIds
<1> HIDE DEF id
<1> QED
  BY <1>1, <1>4

(* A process that asks has not been given an id, and serves none. *)
LEMMA AskerServesNothing ==
  ASSUME TypeInv, RouteInv, IdInv, NEW c \in KeeperForwardConns, Queries(c2s[c]) # {}
  PROVE  /\ Firm(c)
         /\ server[Owner(c)] = NoServer
         /\ \A d \in KeeperForwardConns : \A id \in ServerIds : Owner(d) = Owner(c) => ~Given(d, id)
<1>1. Firm(c) /\ Linked(c)
  BY DEF IdInv, Linked, StaysUp
<1>2. ASSUME NEW d \in KeeperForwardConns, NEW id \in ServerIds, Owner(d) = Owner(c), Given(d, id) PROVE FALSE
  <2>1. Firm(d) /\ Queries(c2s[d]) = {}
    BY <1>2 DEF IdInv, Linked, StaysUp
  <2>2. c # d /\ cli[c] \in Open /\ cli[d] \in Open
    BY <1>1, <2>1 DEF Firm, Open
  <2> QED
    BY <1>2, <2>2, OneOpen DEF RouteInv
<1>3. ASSUME server[Owner(c)] # NoServer PROVE FALSE
  <2>1. Owner(c) \in Forwards /\ server[Owner(c)] \in ServerIds
    BY <1>3, ConnKinds DEF TypeInv, ForwardTypeOK, Opt, Owner
  <2>2. PICK d \in KeeperConnsOf(Owner(c)) : Given(d, server[Owner(c)])
    BY <1>3, <2>1 DEF IdInv, Placed
  <2> QED
    BY <1>2, <2>1, <2>2 DEF KeeperConnsOf
<1> QED
  BY <1>1, <1>2, <1>3

(* Id and connection of an entry are of the right kind. *)
LEMMA GivenConfigured ==
  ASSUME TypeInv, NEW c \in KeeperForwardConns, NEW id, Given(c, id)
  PROVE  id \in ServerIds
<1>1. KeeperOf[Owner(c)] \in Keepers
  BY ConnKinds, ConfigAssumption DEF Owner
<1>2. serverStart[KeeperOf[Owner(c)]] \in Seq(ServerStart)
  BY <1>1 DEF TypeInv, KeeperTypeOK
<1>3. PICK i \in DOMAIN serverStart[KeeperOf[Owner(c)]] : serverStart[KeeperOf[Owner(c)]][i].id = id
  BY DEF Given
<1>4. serverStart[KeeperOf[Owner(c)]][i] \in ServerStart
  BY <1>2
<1> QED
  BY <1>3, <1>4 DEF ServerStart

(* A keeper gives each process one id. *)
LEMMA QueryIds ==
  ASSUME TypeInv, RouteInv, IdInv, OneKeeperForAll, NEW k \in Keepers, NEW c \in KeeperForwardConns,
         KeeperOnQuery(k, c), UNCHANGED <<alive, keeperConn, server, checks>>
  PROVE  IdInv'
<1> USE DEF TypeInv
<1> DEFINE V == Vetted(verified)
           A == "KeeperAnswer"
           R == "KeeperForwardUpdateForwardConns"
<1>0. /\ \A d \in KeeperForwardConns : d \in Conns /\ d \notin HubKeeperConns /\ d # NoConn /\ Owner(d) \in Forwards
      /\ KeeperOf[Owner(c)] = k /\ ReadsS(c, "KeeperQuery") /\ UNCHANGED <<cli, srv, lost>>
  BY ConnKinds, NoConnNotConn DEF KeeperOnQuery, Owner
<1>a. /\ c2s \in Queues(V) /\ s2c \in Queues(V)
      /\ keeperHubConn[k] \in HubKeeperConns \cup {NoConn}
  BY DEF Mail, KeeperTypeOK, Opt
<1>b. c2s[c] \in Seq(V) /\ s2c[c] \in Seq(V) /\ c2s[c] # <<>>
  BY <1>0, <1>a DEF Queues, ReadsS
<1>1. PICK id \in ServerIds :
         /\ ~isStarted(k, id)
         /\ s2c' = SendS(s2c, c, Answer(k, id))
         /\ c2s' = SendC(Recv(c2s, c), keeperHubConn[k], UpdateForwardConns(k, id, "ADD"))
         /\ serverStart' = [serverStart EXCEPT ![k] = setStarted(@, id, TRUE, c)]
  BY QueryAnswered
<1> DEFINE a == Answer(k, id)
<1>2. /\ Started'
      /\ \A d \in KeeperForwardConns : \A j : Given(d, j)' <=> (Given(d, j) \/ (d = c /\ j = id))
      /\ \A d \in KeeperForwardConns : KeeperOf[Owner(d)] = k => ~Given(d, id)
  BY <1>0, <1>1, GivenAppended DEF IdInv
<1>3. /\ \A d \in KeeperForwardConns : c2s'[d] = IF d = c THEN Tail(c2s[d]) ELSE c2s[d]
      /\ \A d \in KeeperForwardConns : d # c => s2c'[d] = s2c[d]
      /\ s2c'[c] \in {s2c[c], Append(s2c[c], a)}
  BY <1>0, <1>a, <1>1 DEF SendC, SendS, Recv, Queues
<1>4. Queries(c2s[c]) # {} /\ Queries(Tail(c2s[c])) = {} /\ Sent(s2c[c], A) = {}
  <2>1. AsksOnce(c)
    BY DEF RouteInv, Route
  <2>2. Head(c2s[c]).type = "KeeperQuery"
    BY <1>0 DEF ReadsS
  <2> QED
    BY <1>b, <2>1, <2>2, QueriesTail DEF AsksOnce
<1>5. /\ Firm(c)
      /\ server[Owner(c)] = NoServer
      /\ \A d \in KeeperForwardConns : \A j \in ServerIds : Owner(d) = Owner(c) => ~Given(d, j)
  BY <1>4, AskerServesNothing
<1>6. a.type = A /\ a.serverid = id /\ a = Answer(KeeperOf[Owner(c)], a.serverid)
  BY <1>0 DEF Answer
<1> HIDE DEF a
<1>7. GivenOnce'
  <2> SUFFICES ASSUME NEW x \in KeeperForwardConns, NEW y \in KeeperForwardConns, NEW i \in ServerIds, NEW j \in ServerIds,
                      Given(x, i)', Given(y, j)', Owner(x) = Owner(y) \/ i = j
               PROVE  x = y /\ i = j
    BY DEF GivenOnce
  <2>1. ASSUME NEW d \in KeeperForwardConns, NEW n \in ServerIds, Given(d, n) PROVE Owner(d) # Owner(c) /\ n # id
    <3>1. Owner(d) # Owner(c)
      BY <1>5, <2>1
    <3>2. KeeperOf[Owner(d)] = k
      BY <1>0 DEF OneKeeperForAll
    <3> QED
      BY <1>2, <2>1, <3>1, <3>2
  <2>2. (Given(x, i) \/ (x = c /\ i = id)) /\ (Given(y, j) \/ (y = c /\ j = id))
    BY <1>2
  <2>3. Given(x, i) /\ Given(y, j) => x = y /\ i = j
    BY DEF IdInv, GivenOnce
  <2> QED
    BY <2>1, <2>2, <2>3
<1>8. ASSUME NEW d \in KeeperForwardConns, d # c PROVE Linked(d)'
  <2>1. Untouched(d)
    BY <1>0, <1>3, <1>8 DEF Untouched
  <2>2. \A j : Given(d, j)' <=> Given(d, j)
    BY <1>2, <1>8
  <2>3. Smooth(d)
    BY <2>1, <2>2, UntouchedSmooth
  <2> QED
    BY <2>3, SmoothLinked DEF IdInv
<1>9. Linked(c)'
  <2>1. Linked(c)
    BY DEF IdInv
  <2>2. s2c'[c] = s2c[c] \/ s2c'[c] = Append(s2c[c], a)
    BY <1>3
  <2>3. Sent(s2c'[c], "FIN") = {} /\ Sent(s2c'[c], A) \subseteq {a}
    <3>1. Sent(Append(s2c[c], a), "FIN") = Sent(s2c[c], "FIN")
      BY <1>b, <1>6, SentAppend
    <3>2. Sent(Append(s2c[c], a), A) = Sent(s2c[c], A) \cup {a}
      <4>1. PICK r, M, z : r = s2c[c] /\ M = V /\ z = a
        BY Zenon
      <4>2. r \in Seq(M) /\ z.type = A
        BY <1>b, <1>6, <4>1
      <4> HIDE DEF A, V
      <4>3. Sent(Append(r, z), A) = Sent(r, A) \cup {z}
        BY <4>2, SentAppend
      <4> QED
        BY <4>1, <4>3
    <3> QED
      BY <1>4, <1>5, <2>2, <3>1, <3>2 DEF Firm
  <2>4. Sent(c2s'[c], "FIN") = {} /\ Sent(c2s'[c], R) \subseteq Sent(c2s[c], R) /\ Queries(c2s'[c]) = {}
    <3>1. c2s'[c] = Tail(c2s[c])
      BY <1>3
    <3>2. Sent(Tail(c2s[c]), "FIN") \subseteq Sent(c2s[c], "FIN") /\ Sent(Tail(c2s[c]), R) \subseteq Sent(c2s[c], R)
      BY <1>b, SentTail
    <3> QED
      BY <1>4, <1>5, <3>1, <3>2 DEF Firm
  <2>5. Firm(c)'
    BY <1>0, <1>5, <2>3, <2>4 DEF Firm
  <2>6. StaysUp(c)'
    BY <1>0, <2>1, <2>4, <2>5 DEF Linked, StaysUp
  <2>7. AnsweredOnce(c)'
    <3> SUFFICES ASSUME NEW m \in Sent(s2c'[c], A)
                 PROVE  /\ m = Answer(KeeperOf[Owner(c)], m.serverid)
                        /\ Given(c, m.serverid)'
                        /\ server'[Owner(c)] = NoServer
                        /\ Once(s2c'[c], m)
      BY DEF AnsweredOnce
    <3>1. m = a
      BY <2>3
    <3>2. a \notin Sent(s2c[c], a.type)
      BY <1>4, <1>6
    <3>3. Once(s2c'[c], a)
      <4>1. Once(Append(s2c[c], a), a)
        BY <1>b, <3>2, OnceSentAndRead
      <4>2. s2c'[c] # s2c[c]
        BY <1>4, <3>1
      <4> QED
        BY <2>2, <4>1, <4>2
    <3> QED
      BY <1>2, <1>5, <1>6, <3>1, <3>3
  <2>8. ReportsItself(c)'
    <3>1. Sent(c2s[c], R) = {}
      <4> SUFFICES ASSUME NEW m \in Sent(c2s[c], R) PROVE FALSE
        OBVIOUS
      <4>1. Given(c, m.forwardserverid)
        BY <2>1 DEF Linked, ReportsItself, AboutItself
      <4> QED
        BY <1>5, <4>1, GivenConfigured
    <3> QED
      BY <2>4, <3>1 DEF ReportsItself
  <2> QED
    BY <2>6, <2>7, <2>8 DEF Linked
<1>10. ASSUME NEW p \in Forwards PROVE Placed(p)'
  <2>1. Placed(p)
    BY DEF IdInv
  <2>2. \A d \in KeeperConnsOf(p) : d \in KeeperForwardConns
    BY DEF KeeperConnsOf
  <2>3. \A d \in KeeperConnsOf(p) : Given(d, server[p]) => Given(d, server[p])'
    BY <1>2, <2>2
  <2> QED
    BY <2>1, <2>3 DEF Placed, KeeperConnsOf
<1> QED
  BY <1>2, <1>7, <1>8, <1>9, <1>10 DEF IdInv

(* A step that leaves serverStart_ and the forward processes alone has     *)
(* only the connections to keep right.                                     *)
LEMMA QuietIds ==
  ASSUME IdInv, UNCHANGED <<serverStart, alive, server, checks>>, \A c \in KeeperForwardConns : Linked(c)'
  PROVE  IdInv'
<1>1. \A c, id : Given(c, id)' <=> Given(c, id)
  BY DEF Given
<1>2. Started' /\ GivenOnce'
  BY <1>1 DEF IdInv, Started, GivenOnce
<1>3. ASSUME NEW p \in Forwards PROVE Placed(p)'
  <2>1. \A d \in KeeperConnsOf(p) : Given(d, server[p]) => Given(d, server[p])'
    BY <1>1
  <2>2. Placed(p)
    BY DEF IdInv
  <2> QED
    BY <2>1, <2>2 DEF Placed, KeeperConnsOf
<1> QED
  BY <1>2, <1>3 DEF IdInv

(* A keeper closes only what it has refused, and gives out ids for good. *)
LEMMA KeeperIds ==
  ASSUME TypeInv, RegInv, RouteInv, IdInv, LinksHold, OneKeeperForAll, NEW k \in Keepers, KeeperStep(k),
         UNCHANGED <<alive, keeperConn, server, checks>>
  PROVE  IdInv' /\ (UNCHANGED serverStart \/ \E c \in KeeperForwardConns : KeeperOnQuery(k, c))
<1> USE DEF TypeInv
<1> DEFINE V == Vetted(verified)
           A == "KeeperAnswer"
           R == "KeeperForwardUpdateForwardConns"
           Goal == IdInv' /\ UNCHANGED serverStart
<1>0. /\ \A c \in KeeperForwardConns : c \in Conns /\ c \notin HubKeeperConns /\ c # NoConn
      /\ \A c \in HubKeeperConns : c \in Conns /\ c \notin KeeperForwardConns /\ c # NoConn
  BY ConnKinds, NoConnNotConn
<1>a. /\ c2s \in Queues(V) /\ s2c \in Queues(V)
      /\ srv \in [Conns -> EndState] /\ cli \in [Conns -> EndState]
      /\ keeperHubConn[k] \in HubKeeperConns \cup {NoConn}
      /\ \A id \in ServerIds : conns[k][id] \in KeeperForwardConns \cup {NoConn}
  BY DEF Mail, Ends, KeeperTypeOK, Opt
<1>b. \A d \in KeeperForwardConns : /\ c2s[d] \in Seq(V) /\ s2c[d] \in Seq(V) /\ Linked(d)
                                    /\ Queries(c2s[d]) \subseteq {1}
  BY <1>0, <1>a DEF Queues, IdInv, RouteInv, Route, AsksOnce
<1>c. ASSUME UNCHANGED serverStart PROVE \A c, id : Given(c, id)' <=> Given(c, id)
  BY <1>c DEF Given
<1>d. ASSUME UNCHANGED serverStart, NEW d \in KeeperForwardConns, Untouched(d) PROVE Linked(d)'
  BY <1>b, <1>c, <1>d, UntouchedSmooth, SmoothLinked
<1>e. ASSUME UNCHANGED serverStart, \A c \in KeeperForwardConns : Linked(c)' PROVE Goal
  BY <1>e, QuietIds
<1>f. FIN.type = "FIN"
  BY DEF FIN
<1>g. ASSUME NEW d \in KeeperForwardConns, c2s[d] # <<>>
      PROVE  /\ Queries(Tail(c2s[d])) = {}
             /\ Sent(Tail(c2s[d]), "FIN") \subseteq Sent(c2s[d], "FIN")
             /\ Sent(Tail(c2s[d]), R) \subseteq Sent(c2s[d], R)
  <2>1. Queries(Tail(c2s[d])) = {}
    BY <1>b, <1>g, QueriesTail
  <2>2. Sent(Tail(c2s[d]), "FIN") \subseteq Sent(c2s[d], "FIN") /\ Sent(Tail(c2s[d]), R) \subseteq Sent(c2s[d], R)
    BY <1>b, <1>g, SentTail
  <2> QED
    BY <2>1, <2>2
<1>1. ASSUME NEW c \in HubKeeperConns, KeeperConnectHub(k, c) PROVE Goal
  <2>1. UNCHANGED serverStart /\ \A d \in KeeperForwardConns : Untouched(d)
    BY <1>0, <1>a, <1>1 DEF KeeperConnectHub, Connected, Untouched, Queues
  <2> QED
    BY <1>d, <1>e, <2>1
<1>2. ASSUME NEW c \in HubKeeperConns, KeeperOnHubConnectionDown(k, c) PROVE Goal
  <2>1. UNCHANGED serverStart /\ \A d \in KeeperForwardConns : Untouched(d)
    BY <1>0, <1>a, <1>2 DEF KeeperOnHubConnectionDown, CloseC, SendC, Drained, Untouched, Queues
  <2> QED
    BY <1>d, <1>e, <2>1
<1>3. ASSUME NEW c \in HubKeeperConns, KeeperOnHubKeeperLogonSession(k, c) PROVE Goal
  <2> DEFINE m == Head(s2c[c])
             r == [type |-> "KeeperForwardLogonSession", uid |-> m.uid, connname |-> m.connname]
             x == conns[k][m.forwardserverid]
  <2>1. s2c' = SendS(Recv(s2c, c), x, r) /\ r.type = "KeeperForwardLogonSession"
    BY <1>3 DEF KeeperOnHubKeeperLogonSession, KeeperSendToForward
  <2>2. UNCHANGED <<cli, srv, c2s, lost, serverStart>>
    BY <1>3 DEF KeeperOnHubKeeperLogonSession, keeperVars
  <2> HIDE DEF r, m, x
  <2>3. \A d \in KeeperForwardConns : s2c'[d] \in {s2c[d], Append(s2c[d], r)}
    BY <1>0, <1>a, <2>1 DEF SendS, CanSendS, Recv, Queues
  <2>4. ASSUME NEW d \in KeeperForwardConns PROVE Linked(d)'
    <3>1. Thins(s2c[d], Append(s2c[d], r), A) /\ Sent(Append(s2c[d], r), "FIN") = Sent(s2c[d], "FIN")
      <4>1. Thins(s2c[d], Append(s2c[d], r), A)
        BY <1>b, <2>1, ThinsAppend
      <4>2. Sent(Append(s2c[d], r), "FIN") = Sent(s2c[d], "FIN")
        BY <1>b, <2>1, SentAppend
      <4> QED
        BY <4>1, <4>2
    <3>2. Thins(s2c[d], s2c'[d], A) /\ Sent(s2c'[d], "FIN") \subseteq Sent(s2c[d], "FIN")
      BY <2>3, <3>1, ThinsTrivially
    <3>3. Smooth(d)
      BY <1>c, <2>2, <3>2 DEF Smooth
    <3> QED
      BY <1>b, <3>3, SmoothLinked
  <2> QED
    BY <1>e, <2>2, <2>4
<1>4. ASSUME NEW c \in KeeperForwardConns, KeeperOnConnectionDown(k, c) PROVE Goal
  <2>1. CloseS(c) /\ UNCHANGED <<cli, lost>> /\ KeeperOf[Owner(c)] = k /\ ClosesS(c)
    BY <1>4 DEF KeeperOnConnectionDown
  <2>2. c2s[c] # <<>> /\ Head(c2s[c]) = FIN
    BY <1>b, <2>1 DEF ClosesS, Linked, StaysUp
  <2>3. /\ \A id \in ServerIds : ~Given(c, id)
        /\ Queries(c2s[c]) = {}
    BY <1>b, <2>2, NotGiven, ClosingAsksNothing
  <2>4. c2s' = Drained(c2s, c) /\ UNCHANGED serverStart
    <3>1. \A i \in DOMAIN serverStart[k] : serverStart[k][i].connName # c
      BY <2>1, <2>3, GivenConfigured DEF Given
    <3> QED
      BY <1>4, <3>1 DEF KeeperOnConnectionDown
  <2>5. ASSUME NEW d \in KeeperForwardConns, d # c PROVE Linked(d)'
    <3>1. Untouched(d)
      BY <1>0, <1>a, <2>1, <2>4, <2>5 DEF Untouched, CloseS, SendS, Drained, Queues
    <3> QED
      BY <1>d, <2>4, <3>1
  <2>6. Linked(c)'
    <3>1. s2c'[c] \in {s2c[c], Append(s2c[c], FIN)} /\ c2s'[c] = <<>>
      BY <1>0, <1>a, <2>1, <2>4 DEF CloseS, SendS, Drained, Queues
    <3>2. Queries(c2s'[c]) = {} /\ Sent(c2s'[c], R) = {}
      BY <3>1, EmptyQueue
    <3>3. Sent(s2c[c], A) = {}
      <4> SUFFICES ASSUME NEW m \in Sent(s2c[c], A) PROVE FALSE
        OBVIOUS
      <4> QED
        BY <1>b, <2>3, GivenConfigured DEF Linked, AnsweredOnce
    <3>4. Sent(s2c'[c], A) = {}
      <4>1. Sent(Append(s2c[c], FIN), A) = Sent(s2c[c], A)
        BY <1>b, <1>f, SentAppend
      <4> QED
        BY <3>1, <3>3, <4>1
    <3>5. \A id \in ServerIds : ~Given(c, id)'
      BY <1>c, <2>3, <2>4
    <3>6. StaysUp(c)'
      BY <1>b, <2>1, <3>2, <3>5 DEF Linked, StaysUp
    <3> QED
      BY <3>2, <3>4, <3>6 DEF Linked, AnsweredOnce, ReportsItself
  <2> QED
    BY <1>e, <2>4, <2>5, <2>6
<1>5. ASSUME NEW c \in KeeperForwardConns, KeeperOnQuery(k, c)
      PROVE  IdInv' /\ \E d \in KeeperForwardConns : KeeperOnQuery(k, d)
  BY <1>5, QueryIds
<1>6. ASSUME NEW c \in KeeperForwardConns, KeeperOnQueryDuplicate(k, c) PROVE Goal
  <2>1. /\ c2s' = Recv(c2s, c) /\ ShutdownS(c, s2c) /\ ReadsS(c, "KeeperQuery")
        /\ UNCHANGED <<cli, lost, serverStart>>
    BY <1>6 DEF KeeperOnQueryDuplicate, keeperVars
  <2>2. c2s[c] # <<>> /\ Queries(c2s[c]) # {}
    BY <1>b, <2>1, QueriesTail DEF ReadsS
  <2>3. /\ server[Owner(c)] = NoServer
        /\ \A id \in ServerIds : ~Given(c, id)
    BY <2>2, AskerServesNothing
  <2>4. ASSUME NEW d \in KeeperForwardConns, d # c PROVE Linked(d)'
    <3>1. Untouched(d)
      BY <1>0, <1>a, <2>1, <2>4 DEF Untouched, ShutdownS, SendS, Recv, Queues
    <3> QED
      BY <1>d, <2>1, <3>1
  <2>5. Linked(c)'
    <3>1. s2c'[c] \in {s2c[c], Append(s2c[c], FIN)} /\ c2s'[c] = Tail(c2s[c])
      BY <1>0, <1>a, <2>1 DEF ShutdownS, SendS, Recv, Queues
    <3>2. Queries(c2s'[c]) = {} /\ Sent(c2s'[c], R) \subseteq Sent(c2s[c], R)
      BY <1>g, <2>2, <3>1
    <3>3. Sent(s2c[c], A) = {} /\ Sent(c2s[c], R) = {}
      <4>1. ASSUME NEW m \in Sent(s2c[c], A) PROVE FALSE
        BY <1>b, <2>3, <4>1, GivenConfigured DEF Linked, AnsweredOnce
      <4>2. ASSUME NEW m \in Sent(c2s[c], R) PROVE FALSE
        BY <1>b, <2>3, <4>2, GivenConfigured DEF Linked, ReportsItself, AboutItself
      <4> QED
        BY <4>1, <4>2
    <3>4. Sent(s2c'[c], A) = {}
      <4>1. Sent(Append(s2c[c], FIN), A) = Sent(s2c[c], A)
        BY <1>b, <1>f, SentAppend
      <4> QED
        BY <3>1, <3>3, <4>1
    <3>5. \A id \in ServerIds : ~Given(c, id)'
      BY <1>c, <2>1, <2>3
    <3>6. StaysUp(c)'
      BY <1>b, <2>1, <3>2, <3>5 DEF Linked, StaysUp
    <3> QED
      BY <3>2, <3>3, <3>4, <3>6 DEF Linked, AnsweredOnce, ReportsItself
  <2> QED
    BY <1>e, <2>1, <2>4, <2>5
<1>r. ASSUME NEW c \in KeeperForwardConns, \E m : c2s' = SendC(Recv(c2s, c), keeperHubConn[k], m),
             c2s[c] # <<>>, UNCHANGED <<cli, srv, s2c, lost, serverStart>>
      PROVE  Goal
  <2>1. ASSUME NEW d \in KeeperForwardConns PROVE Linked(d)'
    <3>1. c2s'[d] = IF d = c THEN Tail(c2s[d]) ELSE c2s[d]
      BY <1>0, <1>a, <1>r DEF SendC, Recv, Queues
    <3>2. /\ Queries(c2s'[d]) \subseteq Queries(c2s[d])
          /\ Sent(c2s'[d], "FIN") \subseteq Sent(c2s[d], "FIN")
          /\ Sent(c2s'[d], R) \subseteq Sent(c2s[d], R)
      BY <1>g, <1>r, <3>1
    <3>3. Smooth(d)
      BY <1>c, <1>r, <3>2, ThinsTrivially DEF Smooth
    <3> QED
      BY <1>b, <3>3, SmoothLinked
  <2> QED
    BY <1>e, <1>r, <2>1
<1>7. ASSUME NEW c \in KeeperForwardConns, KeeperOnKeeperForwardLogonSessionRet(k, c) PROVE Goal
  BY <1>7, <1>r DEF KeeperOnKeeperForwardLogonSessionRet, KeeperSendToHub, ReadsS, keeperVars
<1>8. ASSUME NEW c \in KeeperForwardConns, KeeperOnKeeperForwardUpdateForwardConns(k, c) PROVE Goal
  BY <1>8, <1>r DEF KeeperOnKeeperForwardUpdateForwardConns, KeeperSendToHub, ReadsS, keeperVars
<1>9. ASSUME KeeperOnQueryDone(k) PROVE Goal
  <2>1. UNCHANGED serverStart /\ \A d \in KeeperForwardConns : Untouched(d)
    BY <1>9 DEF KeeperOnQueryDone, netVars, Untouched
  <2> QED
    BY <1>d, <1>e, <2>1
<1>10. ASSUME KeeperRestart(k) PROVE Goal
  BY <1>10 DEF KeeperRestart, MayRestart, LinksHold
<1> QED
  BY <1>1, <1>2, <1>3, <1>4, <1>5, <1>6, <1>7, <1>8, <1>9, <1>10 DEF KeeperStep

(* When a process is answered it has no server, its connections to clients *)
(* are all closed, and nobody else serves the id: onAnswer does not abort. *)
LEMMA AnswerRead ==
  ASSUME TypeInv, IdInv, NEW p \in Forwards, NEW c \in KeeperConnsOf(p), ReadsC(c, "KeeperAnswer"),
         NEW m, m = Head(s2c[c])
  PROVE  /\ m.type = "KeeperAnswer" /\ m \in Sent(s2c[c], "KeeperAnswer")
         /\ m.serverid \in ServerIds /\ m.serverid # NoServer /\ Given(c, m.serverid)
         /\ server[p] = NoServer
         /\ Once(s2c[c], m)
         /\ ~PortTaken(m.serverid)
         /\ \A x \in ClientConnsOf(p) : x \in ForwardConns /\ srv[x] = "down"
<1>1. c \in KeeperForwardConns /\ Owner(c) = p /\ c \in Conns
  BY ConnKinds DEF KeeperConnsOf
<1>2. s2c[c] \in Seq(Vetted(verified)) /\ s2c[c] # <<>> /\ m.type = "KeeperAnswer"
  BY <1>1 DEF TypeInv, Mail, Queues, ReadsC
<1>3. m \in Sent(s2c[c], "KeeperAnswer")
  BY <1>2, HeadSent
<1>4. Given(c, m.serverid) /\ server[p] = NoServer /\ Once(s2c[c], m)
  BY <1>1, <1>3 DEF IdInv, Linked, AnsweredOnce
<1>5. m.serverid \in ServerIds /\ m.serverid # NoServer
  BY <1>1, <1>4, GivenConfigured, ConfigAssumption DEF NoServer
<1>6. ~PortTaken(m.serverid)
  <2> SUFFICES ASSUME NEW q \in Forwards, server[q] = m.serverid PROVE FALSE
    BY DEF PortTaken, Listening
  <2>1. PICK d \in KeeperConnsOf(q) : Given(d, m.serverid)
    BY <1>5 DEF IdInv, Placed
  <2>2. d \in KeeperForwardConns /\ Owner(d) = q
    BY DEF KeeperConnsOf
  <2>3. d = c
    BY <1>1, <1>4, <1>5, <2>1, <2>2 DEF IdInv, GivenOnce
  <2> QED
    BY <1>1, <1>4, <1>5, <2>2, <2>3
<1>7. \A x \in ClientConnsOf(p) : x \in ForwardConns /\ srv[x] = "down"
  BY <1>4 DEF ClientConnsOf, TypeInv, WellFormed, ServedByServer
<1> QED
  BY <1>2, <1>3, <1>4, <1>5, <1>6, <1>7

(* A process that reports does so on the connection on which it was given  *)
(* its id.                                                                 *)
LEMMA ReportedOnItsOwn ==
  ASSUME TypeInv, RouteInv, IdInv, NEW p \in Forwards, server[p] # NoServer, NEW d \in KeeperForwardConns,
         keeperConn[p] = d, CanSendC(d), Owner(d) = p, NEW oper \in {"INC", "DEC"}
  PROVE  AboutItself(d, UpdateConns(p, oper))
<1>1. PICK c \in KeeperConnsOf(p) : Given(c, server[p])
  BY DEF IdInv, Placed
<1>2. c \in KeeperForwardConns /\ Owner(c) = p /\ server[p] \in ServerIds
  BY DEF KeeperConnsOf, TypeInv, ForwardTypeOK, Opt
<1>3. Firm(c)
  BY <1>1, <1>2 DEF IdInv, Linked, StaysUp
<1>4. c = d
  BY <1>2, <1>3, OneOpen DEF RouteInv, Firm, CanSendC, Open
<1> QED
  BY <1>1, <1>2, <1>4 DEF AboutItself, UpdateConns

(* A forward process that serves an id goes on serving it. *)
LEMMA ForwardIds ==
  ASSUME TypeInv, RegInv, RouteInv, IdInv, LinksHold, NEW p \in Forwards, ForwardStep(p), UNCHANGED serverStart
  PROVE  IdInv'
<1> USE DEF TypeInv
<1> DEFINE V == Vetted(verified)
           A == "KeeperAnswer"
           R == "KeeperForwardUpdateForwardConns"
<1>0. /\ \A c \in KeeperForwardConns : c \in Conns /\ c \notin ForwardConns /\ c # NoConn /\ Owner(c) \in Forwards
      /\ \A c \in ForwardConns : c \in Conns /\ c \notin KeeperForwardConns /\ c # NoConn
      /\ \A c \in KeeperConnsOf(p) : c \in KeeperForwardConns /\ Owner(c) = p
      /\ \A c \in ClientConnsOf(p) : c \in ForwardConns
      /\ \A c \in KeeperForwardConns : Owner(c) = p => c \in KeeperConnsOf(p)
  BY ConnKinds, NoConnNotConn DEF KeeperConnsOf, ClientConnsOf, Owner
<1>a. /\ c2s \in Queues(V) /\ s2c \in Queues(V)
      /\ srv \in [Conns -> EndState] /\ cli \in [Conns -> EndState] /\ lost \in [Conns -> BOOLEAN]
      /\ server \in [Forwards -> ServerIds \cup {NoServer}]
      /\ keeperConn \in [Forwards -> KeeperForwardConns \cup {NoConn}]
      /\ alive \in [Forwards -> BOOLEAN] /\ checks \in [Forwards -> Seq(Check)]
  BY DEF Mail, Ends, ForwardTypeOK, Opt
<1>b. \A d \in KeeperForwardConns : /\ c2s[d] \in Seq(V) /\ s2c[d] \in Seq(V) /\ Linked(d)
  BY <1>0, <1>a DEF Queues, IdInv
<1>c. \A c, id : Given(c, id)' <=> Given(c, id)
  BY DEF Given
<1>d. ASSUME NEW d \in KeeperForwardConns, Untouched(d), server'[Owner(d)] = server[Owner(d)],
             keeperConn'[Owner(d)] = keeperConn[Owner(d)]
      PROVE  Linked(d)'
  BY <1>b, <1>c, <1>d, UntouchedSmooth, SmoothLinked
<1>e. ASSUME UNCHANGED <<alive, server, checks>>, \A c \in KeeperForwardConns : Linked(c)' PROVE IdInv'
  BY <1>e, QuietIds
<1>f. FIN.type = "FIN"
  BY DEF FIN
<1>h. \A d \in KeeperForwardConns : keeperConn[p] = d => Owner(d) = p
  BY <1>0 DEF RegInv, ForwardRegistered
<1>s. ASSUME NEW q \in Queues(V), NEW m, c2s' = SendC(q, keeperConn[p], m), m.type \notin {"KeeperQuery", "FIN"},
             m.type = R => server[p] # NoServer /\ \E o \in {"INC", "DEC"} : m = UpdateConns(p, o),
             NEW d \in KeeperForwardConns, q[d] = c2s[d], Thins(s2c[d], s2c'[d], A),
             Sent(s2c'[d], "FIN") \subseteq Sent(s2c[d], "FIN"), srv'[d] = srv[d],
             UNCHANGED <<cli, lost, keeperConn, server>>
      PROVE  Linked(d)'
  <2>1. c2s'[d] = c2s[d] \/ (c2s'[d] = Append(c2s[d], m) /\ CanSendC(d) /\ keeperConn[p] = d)
    BY <1>0, <1>s DEF SendC, Queues
  <2>2. /\ Queries(Append(c2s[d], m)) = Queries(c2s[d])
        /\ Sent(Append(c2s[d], m), "FIN") = Sent(c2s[d], "FIN")
    <3>1. Queries(Append(c2s[d], m)) = Queries(c2s[d])
      BY <1>b, <1>s, QueriesAppend
    <3>2. Sent(Append(c2s[d], m), "FIN") = Sent(c2s[d], "FIN")
      BY <1>b, <1>s, SentAppend
    <3> QED
      BY <3>1, <3>2
  <2>3. Sent(Append(c2s[d], m), R) \subseteq Sent(c2s[d], R) \cup {m}
    BY <1>b, SentAppend
  <2>4. ASSUME NEW n \in Sent(c2s'[d], R) PROVE n \in Sent(c2s[d], R) \/ AboutItself(d, n)
    <3>1. CASE n \in Sent(c2s[d], R)
      BY <3>1
    <3>2. CASE n \notin Sent(c2s[d], R)
      <4>1. n = m /\ CanSendC(d) /\ keeperConn[p] = d
        BY <2>1, <2>3, <2>4, <3>2
      <4>2. n.type = R
        BY <2>4 DEF Sent
      <4>3. server[p] # NoServer /\ Owner(d) = p
        BY <1>h, <1>s, <4>1, <4>2
      <4>4. PICK o \in {"INC", "DEC"} : n = UpdateConns(p, o)
        BY <1>s, <4>1, <4>2
      <4> QED
        BY <4>1, <4>3, <4>4, ReportedOnItsOwn
    <3> QED
      BY <3>1, <3>2
  <2>5. Queries(c2s'[d]) \subseteq Queries(c2s[d]) /\ Sent(c2s'[d], "FIN") \subseteq Sent(c2s[d], "FIN")
    BY <2>1, <2>2
  <2>6. Smooth(d)
    BY <1>c, <1>s, <2>4, <2>5 DEF Smooth
  <2> QED
    BY <1>b, <2>6, SmoothLinked
<1> HIDE DEF KeeperConnsOf, ClientConnsOf

<1>1. ASSUME NEW c \in KeeperConnsOf(p), ForwardConnectKeeper(p, c) PROVE IdInv'
  <2> DEFINE m == [type |-> "KeeperQuery", servertype |-> "FORWARD"]
  <2>1. /\ MayConnect(c) /\ cli' = [cli EXCEPT ![c] = "up"] /\ c2s' = [c2s EXCEPT ![c] = <<m>>]
        /\ srv' = [srv EXCEPT ![c] = "up"] /\ keeperConn' = [keeperConn EXCEPT ![p] = c]
        /\ UNCHANGED <<s2c, lost, alive, server, checks>>
    BY <1>1 DEF ForwardConnectKeeper, Connected
  <2>a. m.type = "KeeperQuery"
    OBVIOUS
  <2> HIDE DEF m
  <2>2. cli[c] = "none" /\ s2c[c] = <<>> /\ Linked(c) /\ c \in KeeperForwardConns /\ Owner(c) = p /\ c \in Conns
    BY <1>0, <1>b, <2>1 DEF RouteInv, Route, Unused, MayConnect
  <2>3. \A id \in ServerIds : ~Given(c, id)
    BY <2>2, NotGiven
  <2>4. Linked(c)'
    <3>1. cli'[c] = "up" /\ srv'[c] = "up" /\ s2c'[c] = <<>> /\ c2s'[c] = <<m>> /\ keeperConn'[p] = c
      BY <1>a, <2>1, <2>2 DEF Queues
    <3>2. Sent(<<m>>, R) = {} /\ Sent(<<m>>, "FIN") = {}
      BY <2>a, SentOne
    <3>3. Sent(<<>>, A) = {} /\ Sent(<<>>, "FIN") = {}
      BY SentOne
    <3>4. Firm(c)'
      BY <3>1, <3>2, <3>3 DEF Firm
    <3>5. ~lost'[c]
      BY <2>1, <2>2 DEF Linked, StaysUp
    <3>6. StaysUp(c)'
      BY <1>c, <2>2, <2>3, <3>1, <3>4, <3>5 DEF StaysUp
    <3> QED
      BY <3>1, <3>2, <3>3, <3>6 DEF Linked, AnsweredOnce, ReportsItself
  <2>5. ASSUME NEW d \in KeeperForwardConns, d # c PROVE Linked(d)'
    <3>1. Untouched(d)
      BY <1>0, <1>a, <2>1, <2>2, <2>5 DEF Untouched, Queues
    <3>2. CASE Owner(d) # p
      <4>1. keeperConn'[Owner(d)] = keeperConn[Owner(d)]
        BY <1>0, <1>a, <2>1, <3>2
      <4> QED
        BY <1>d, <2>1, <3>1, <4>1
    <3>3. CASE Owner(d) = p
      <4>1. OneAtATime'
        BY <1>a, <2>1, <2>2, NextInLine DEF RouteInv
      <4>2. cli'[d] \notin Open /\ cli[d] \notin Open
        <5>1. d[3] \in Nat /\ c[3] \in Nat /\ d[3] # c[3]
          BY <2>2, <2>5, <3>3 DEF KeeperForwardConns, Owner
        <5>2. CASE d[3] < c[3]
          BY <1>0, <1>a, <2>1, <2>2, <2>5, <3>3, <4>1, <5>2 DEF OneAtATime, Open
        <5>3. CASE c[3] < d[3]
          BY <1>0, <1>a, <2>1, <2>2, <2>5, <3>3, <5>3 DEF OneAtATime, RouteInv, Open
        <5> QED
          BY <5>1, <5>2, <5>3
      <4>3. StaysUp(d)'
        <5>1. StaysUp(d)
          BY <1>b DEF Linked
        <5>2. Queries(c2s[d]) = {} /\ \A id \in ServerIds : ~Given(d, id)
          BY <4>2, <5>1 DEF StaysUp, Firm, Open
        <5> QED
          BY <1>c, <3>1, <4>2, <5>1, <5>2 DEF StaysUp, Untouched, Open
      <4>4. AnsweredOnce(d)'
        BY <1>b, <1>c, <2>1, <3>1 DEF Linked, AnsweredOnce, Untouched
      <4>5. ReportsItself(d)'
        BY <1>b, <1>c, <2>1, <3>1 DEF Linked, ReportsItself, AboutItself, Untouched
      <4> QED
        BY <4>3, <4>4, <4>5 DEF Linked
    <3> QED
      BY <3>2, <3>3
  <2> QED
    BY <1>e, <2>1, <2>4, <2>5
<1>2. ASSUME NEW c \in KeeperConnsOf(p), ForwardOnKeeperConnectionDown(p, c) PROVE IdInv'
  <2>1. /\ CloseC(c) /\ UNCHANGED <<srv, lost, alive, server, checks>> /\ cli[c] \in Open
        /\ keeperConn' = [keeperConn EXCEPT ![p] = NoConn] /\ ClosesC(c)
    BY <1>2 DEF ForwardOnKeeperConnectionDown, ClosesC
  <2>2. c \in KeeperForwardConns /\ Owner(c) = p /\ c \in Conns /\ Linked(c)
    BY <1>0, <1>b
  <2>3. s2c[c] # <<>> /\ Head(s2c[c]) = FIN
    BY <2>1, <2>2 DEF ClosesC, Linked, StaysUp
  <2>4. Queries(c2s[c]) = {} /\ \A id \in ServerIds : ~Given(c, id)
    BY <2>2, <2>3, NotGiven, ClosingAsksNothing
  <2>5. Linked(c)'
    <3>1. cli'[c] = "down" /\ s2c'[c] = <<>> /\ c2s'[c] \in {c2s[c], Append(c2s[c], FIN)}
      BY <1>a, <2>1, <2>2 DEF CloseC, SendC, Drained, Queues
    <3>2. Queries(Append(c2s[c], FIN)) = Queries(c2s[c])
      BY <1>b, <1>f, <2>2, QueriesAppend
    <3>3. Sent(Append(c2s[c], FIN), R) = Sent(c2s[c], R)
      BY <1>b, <1>f, <2>2, SentAppend
    <3>4. Queries(c2s'[c]) = {} /\ Sent(c2s'[c], R) = Sent(c2s[c], R)
      BY <2>4, <3>1, <3>2, <3>3
    <3>5. StaysUp(c)'
      BY <1>c, <2>1, <2>2, <2>4, <3>1, <3>4 DEF Linked, StaysUp
    <3>6. AnsweredOnce(c)'
      BY <3>1, EmptyQueue DEF AnsweredOnce
    <3>7. ReportsItself(c)'
      BY <1>c, <2>1, <2>2, <3>4 DEF Linked, ReportsItself, AboutItself
    <3> QED
      BY <3>5, <3>6, <3>7 DEF Linked
  <2>6. ASSUME NEW d \in KeeperForwardConns, d # c PROVE Linked(d)'
    <3>1. Untouched(d)
      BY <1>0, <1>a, <2>1, <2>2, <2>6 DEF Untouched, CloseC, SendC, Drained, Queues
    <3>2. CASE Owner(d) # p
      <4>1. keeperConn'[Owner(d)] = keeperConn[Owner(d)]
        BY <1>0, <1>a, <2>1, <3>2
      <4> QED
        BY <1>d, <2>1, <3>1, <4>1
    <3>3. CASE Owner(d) = p
      <4>1. cli[d] \notin Open
        BY <2>1, <2>2, <2>6, <3>3, OneOpen DEF RouteInv
      <4>2. StaysUp(d)'
        BY <1>b, <1>c, <3>1, <4>1 DEF Linked, StaysUp, Firm, Untouched, Open
      <4>3. AnsweredOnce(d)'
        BY <1>b, <1>c, <2>1, <3>1 DEF Linked, AnsweredOnce, Untouched
      <4>4. ReportsItself(d)'
        BY <1>b, <1>c, <2>1, <3>1 DEF Linked, ReportsItself, AboutItself, Untouched
      <4> QED
        BY <4>2, <4>3, <4>4 DEF Linked
    <3> QED
      BY <3>2, <3>3
  <2> QED
    BY <1>e, <2>1, <2>5, <2>6

<1>3. ASSUME NEW c \in KeeperConnsOf(p), ForwardOnAnswer(p, c) PROVE IdInv'
  <2> DEFINE m == Head(s2c[c])
             q == Emptied(c2s, ClientConnsOf(p))
  <2>0. c \in KeeperForwardConns /\ Owner(c) = p /\ c \in Conns
    BY <1>0
  <2>1. /\ ReadsC(c, A) /\ s2c' = Recv(s2c, c)
        /\ server' = [server EXCEPT ![p] = m.serverid]
        /\ UNCHANGED <<cli, alive, keeperConn>>
        /\ checks' = [checks EXCEPT ![p] = [i \in DOMAIN @ |-> [@[i] EXCEPT !.live = FALSE]]]
    BY <1>3 DEF ForwardOnAnswer
  <2>2. /\ m.type = A /\ m \in Sent(s2c[c], A)
        /\ m.serverid \in ServerIds /\ m.serverid # NoServer /\ Given(c, m.serverid)
        /\ server[p] = NoServer
        /\ Once(s2c[c], m)
        /\ \A x \in ClientConnsOf(p) : srv[x] = "down"
    BY <2>1, AnswerRead
  <2>3. s2c[c] # <<>>
    BY <2>1 DEF ReadsC
  <2>4. \A d \in KeeperForwardConns : srv'[d] = srv[d] /\ lost'[d] = lost[d]
    <3>1. \A d \in KeeperForwardConns : srv'[d] = srv[d]
      BY <1>0, <1>3 DEF ForwardOnAnswer, Killed
    <3>2. ASSUME NEW d \in KeeperForwardConns PROVE lost'[d] = lost[d]
      <4>1. lost'[d] = (lost[d] \/ d \in ClientConnsOf(p) \cap Live) /\ lost[d] \in BOOLEAN
        BY <1>0, <1>3, <1>a DEF ForwardOnAnswer, LostAlso
      <4> QED
        BY <1>0, <4>1
    <3> QED
      BY <3>1, <3>2
  <2>5. ASSUME NEW d \in KeeperForwardConns PROVE c2s'[d] = c2s[d]
    <3>1. PICK n \in 0..Cardinality({x \in ClientConnsOf(p) : srv[x] = "up"}) :
             c2s' = IF CanSendC(keeperConn[p])
                    THEN [q EXCEPT ![keeperConn[p]] = @ \o [i \in 1..n |-> UpdateConns(p, "DEC")]]
                    ELSE q
      BY <1>3 DEF ForwardOnAnswer
    <3>2. n = 0
      <4>1. {x \in ClientConnsOf(p) : srv[x] = "up"} = {}
        BY <2>2
      <4> QED
        BY <4>1, FS_EmptySet
    <3>3. q \in Queues(V) /\ q[d] = c2s[d]
      BY <1>0, <1>a, EmptiedType DEF Emptied
    <3> HIDE DEF q
    <3>4. c2s'[d] \in {c2s[d], c2s[d] \o [i \in 1..n |-> UpdateConns(p, "DEC")]}
      BY <1>0, <3>1, <3>3 DEF Queues
    <3>5. [i \in 1..n |-> UpdateConns(p, "DEC")] = <<>>
      BY <3>2
    <3>6. c2s[d] \o <<>> = c2s[d]
      BY <1>b
    <3> QED
      BY <3>4, <3>5, <3>6
  <2>6. \A d \in KeeperForwardConns : s2c'[d] = IF d = c THEN Tail(s2c[c]) ELSE s2c[d]
    BY <1>0, <1>a, <2>0, <2>1 DEF Recv, Queues
  <2> HIDE DEF m
  <2>7. \A r \in Forwards : server'[r] = IF r = p THEN m.serverid ELSE server[r]
    BY <1>a, <2>1
  <2>8. Linked(c)'
    <3>1. Linked(c) /\ s2c[c] \in Seq(V)
      BY <1>b, <2>0
    <3>2. Sent(Tail(s2c[c]), "FIN") \subseteq Sent(s2c[c], "FIN")
      BY <2>3, <3>1, SentTail
    <3>3. Sent(s2c'[c], "FIN") \subseteq Sent(s2c[c], "FIN")
      BY <2>0, <2>6, <3>2
    <3>4. Firm(c) => Firm(c)'
      BY <2>0, <2>1, <2>4, <2>5, <3>3 DEF Firm
    <3>5. StaysUp(c)'
      BY <1>c, <2>0, <2>1, <2>4, <2>5, <3>1, <3>4 DEF Linked, StaysUp
    <3>6. Sent(s2c'[c], A) = {}
      <4>1. Sent(s2c[c], A) \subseteq {m}
        <5> SUFFICES ASSUME NEW n \in Sent(s2c[c], A) PROVE n = m
          OBVIOUS
        <5>1. n = Answer(KeeperOf[p], n.serverid) /\ Given(c, n.serverid) /\ m = Answer(KeeperOf[p], m.serverid)
          BY <2>0, <2>2, <3>1 DEF Linked, AnsweredOnce
        <5>2. n.serverid = m.serverid
          BY <2>0, <2>2, <5>1, GivenConfigured DEF IdInv, GivenOnce
        <5> QED
          BY <5>1, <5>2
      <4>2. Sent(Tail(s2c[c]), A) \subseteq Sent(s2c[c], A)
        BY <2>3, <3>1, SentTail
      <4>3. m \notin Sent(Tail(s2c[c]), A)
        BY <2>2, <2>3, <3>1, OnceSentAndRead DEF m
      <4> QED
        BY <2>0, <2>6, <4>1, <4>2, <4>3
    <3>7. ReportsItself(c)'
      <4>1. ASSUME NEW n \in Sent(c2s[c], R) PROVE FALSE
        <5>1. n.forwardserverid = NoServer /\ Given(c, n.forwardserverid)
          BY <2>0, <2>2, <3>1, <4>1 DEF Linked, ReportsItself, AboutItself
        <5> QED
          BY <2>0, <5>1, GivenConfigured, ConfigAssumption DEF NoServer
      <4> QED
        BY <2>0, <2>5, <4>1 DEF ReportsItself
    <3> QED
      BY <3>5, <3>6, <3>7 DEF Linked, AnsweredOnce
  <2>9. ASSUME NEW d \in KeeperForwardConns, d # c PROVE Linked(d)'
    <3>1. Untouched(d)
      BY <2>1, <2>4, <2>5, <2>6, <2>9 DEF Untouched
    <3>2. CASE Owner(d) # p
      BY <1>0, <1>d, <2>1, <2>7, <3>1, <3>2
    <3>3. CASE Owner(d) = p
      <4>1. \A id : ~Given(d, id)
        BY <2>0, <2>2, <2>9, <3>3, GivenConfigured DEF IdInv, GivenOnce
      <4>2. StaysUp(d)'
        BY <1>b, <1>c, <2>1, <3>1 DEF Linked, StaysUp, Firm, Untouched
      <4>3. Sent(s2c[d], A) = {} /\ Sent(c2s[d], R) = {}
        BY <1>b, <4>1 DEF Linked, AnsweredOnce, ReportsItself, AboutItself
      <4> QED
        BY <3>1, <4>2, <4>3 DEF Linked, AnsweredOnce, ReportsItself, Untouched
    <3> QED
      BY <3>2, <3>3
  <2>10. ASSUME NEW r \in Forwards PROVE Placed(r)'
    <3>1. Placed(r)
      BY DEF IdInv
    <3>2. CASE r # p
      <4>1. checks'[r] = checks[r] /\ server'[r] = server[r]
        BY <1>a, <2>1, <2>7, <3>2
      <4>2. \A d \in KeeperConnsOf(r) : Given(d, server[r]) => Given(d, server[r])'
        BY <1>c, <4>1
      <4> QED
        BY <2>1, <3>1, <4>1, <4>2 DEF Placed, KeeperConnsOf
    <3>3. CASE r = p
      <4>1. checks[p] = <<>>
        BY <2>2, <3>1, <3>3 DEF Placed
      <4>2. checks'[p] = [i \in DOMAIN checks[p] |-> [checks[p][i] EXCEPT !.live = FALSE]]
        BY <1>a, <2>1
      <4>3. DOMAIN checks'[p] = {}
        BY <4>1, <4>2
      <4>4. server'[p] = m.serverid /\ server'[p] # NoServer
        BY <2>2, <2>7
      <4>5. Given(c, server[p])'
        BY <2>2, <4>4 DEF Given
      <4> QED
        BY <2>1, <3>1, <3>3, <4>3, <4>4, <4>5 DEF Placed, KeeperConnsOf
    <3> QED
      BY <3>2, <3>3
  <2>11. Started' /\ GivenOnce'
    BY <1>c DEF IdInv, Started, GivenOnce
  <2> QED
    BY <2>8, <2>9, <2>10, <2>11 DEF IdInv
<1>4. ASSUME NEW c \in KeeperConnsOf(p), ForwardOnAnswerAbort(p, c) PROVE IdInv'
  <2>1. ReadsC(c, A) /\ (PortTaken(Head(s2c[c]).serverid) \/ \E x \in ClientConnsOf(p) : srv[x] = "shut")
    BY <1>4 DEF ForwardOnAnswerAbort
  <2> QED
    BY <2>1, AnswerRead

<1>5. ASSUME NEW c \in KeeperConnsOf(p), ForwardOnKeeperForwardLogonSession(p, c) PROVE IdInv'
  <2>1. PICK m : m.type = "KeeperForwardLogonSessionRet" /\ c2s' = SendC(c2s, keeperConn[p], m)
    BY <1>5 DEF ForwardOnKeeperForwardLogonSession, ForwardSendToKeeper
  <2>2. s2c' = Recv(s2c, c) /\ UNCHANGED <<cli, srv, lost, server, alive, checks, keeperConn>> /\ s2c[c] # <<>>
    BY <1>5 DEF ForwardOnKeeperForwardLogonSession, ReadsC
  <2>3. ASSUME NEW d \in KeeperForwardConns PROVE Linked(d)'
    <3>1. s2c'[d] = IF d = c THEN Tail(s2c[d]) ELSE s2c[d]
      BY <1>0, <1>a, <2>2 DEF Recv, Queues
    <3>2. Thins(s2c[d], s2c'[d], A)
      BY <1>b, <2>2, <3>1, ThinsTail, ThinsTrivially
    <3>3. Sent(s2c'[d], "FIN") \subseteq Sent(s2c[d], "FIN")
      BY <1>b, <2>2, <3>1, SentTail
    <3> QED
      BY <1>a, <1>s, <2>1, <2>2, <3>2, <3>3
  <2> QED
    BY <1>e, <2>2, <2>3
<1>6. ASSUME NEW x \in ForwardConns, ForwardOnConnectionUp(p, x) PROVE IdInv'
  <2>1. /\ c2s' = SendC(c2s, keeperConn[p], UpdateConns(p, "INC")) /\ srv' = [srv EXCEPT ![x] = "up"]
        /\ UNCHANGED <<cli, s2c, lost, server, alive, checks, keeperConn>> /\ peer[x] = p /\ srv[x] = "none"
    BY <1>6 DEF ForwardOnConnectionUp, ForwardSendToKeeper, forwardVars
  <2>2. server[p] # NoServer
    BY <2>1 DEF WellFormed, ServedByServer
  <2>3. UpdateConns(p, "INC").type \notin {"KeeperQuery", "FIN"}
    BY DEF UpdateConns
  <2>4. ASSUME NEW d \in KeeperForwardConns PROVE Linked(d)'
    <3>1. srv'[d] = srv[d] /\ Thins(s2c[d], s2c'[d], A)
      BY <1>0, <1>a, <2>1, ThinsTrivially
    <3> QED
      BY <1>a, <1>s, <2>1, <2>2, <2>3, <3>1
  <2> QED
    BY <1>e, <2>1, <2>4
<1>7. ASSUME NEW x \in ForwardConns, ForwardOnConnectionDown(p, x) PROVE IdInv'
  <2>1. /\ c2s' = SendC(Drained(c2s, x), keeperConn[p], UpdateConns(p, "DEC")) /\ CloseS(x)
        /\ UNCHANGED <<cli, lost, server, alive, checks, keeperConn>> /\ peer[x] = p /\ srv[x] \in Open
    BY <1>7 DEF ForwardOnConnectionDown, ForwardSendToKeeper, forwardVars, ClosesS
  <2>2. server[p] # NoServer
    BY <2>1 DEF WellFormed, ServedByServer, Open
  <2>3. UpdateConns(p, "DEC").type \notin {"KeeperQuery", "FIN"}
    BY DEF UpdateConns
  <2>4. ASSUME NEW d \in KeeperForwardConns PROVE Linked(d)'
    <3>1. srv'[d] = srv[d] /\ s2c'[d] = s2c[d]
      BY <1>0, <1>a, <2>1 DEF CloseS, SendS, Queues
    <3>2. Thins(s2c[d], s2c'[d], A)
      BY <3>1, ThinsTrivially
    <3>3. Drained(c2s, x) \in Queues(V) /\ Drained(c2s, x)[d] = c2s[d]
      BY <1>0, <1>a, DrainedType DEF Drained, Queues
    <3> HIDE DEF Drained
    <3> QED
      BY <1>s, <2>1, <2>2, <2>3, <3>1, <3>2, <3>3
  <2> QED
    BY <1>e, <2>1, <2>4
<1>8. ASSUME NEW x \in ForwardConns, ForwardOnLogonForward(p, x) PROVE IdInv'
  <2> DEFINE t == [conn |-> x, uid |-> Head(c2s[x]).uid, session |-> Head(c2s[x]).session, live |-> TRUE]
  <2>1. /\ c2s' = Recv(c2s, x) /\ UNCHANGED <<cli, lost, server, alive, srv, s2c, keeperConn>>
        /\ checks' = [checks EXCEPT ![p] = Append(@, t)] /\ peer[x] = p /\ srv[x] \in Open
    BY <1>8 DEF ForwardOnLogonForward, ReadsS
  <2>2. t.live
    OBVIOUS
  <2> HIDE DEF t
  <2>3. server[p] # NoServer
    BY <2>1 DEF WellFormed, ServedByServer, Open
  <2>4. ASSUME NEW d \in KeeperForwardConns PROVE Linked(d)'
    <3>1. Untouched(d)
      BY <1>0, <1>a, <2>1 DEF Recv, Queues, Untouched
    <3> QED
      BY <1>d, <2>1, <3>1
  <2>5. ASSUME NEW r \in Forwards PROVE Placed(r)'
    <3>1. Placed(r) /\ checks[r] \in Seq(Check)
      BY <1>a DEF IdInv
    <3>2. \A d \in KeeperConnsOf(r) : Given(d, server[r]) => Given(d, server[r])'
      BY <1>c, <2>1
    <3>3. CASE r # p
      <4>1. checks'[r] = checks[r]
        BY <1>a, <2>1, <3>3
      <4> QED
        BY <2>1, <3>1, <3>2, <4>1 DEF Placed, KeeperConnsOf
    <3>4. CASE r = p
      <4>1. checks'[r] = Append(checks[r], t)
        BY <1>a, <2>1, <3>4
      <4>2. \A i \in DOMAIN Append(checks[r], t) :
               \/ i \in DOMAIN checks[r] /\ Append(checks[r], t)[i] = checks[r][i]
               \/ Append(checks[r], t)[i] = t
        BY <3>1
      <4>3. ASSUME NEW i \in DOMAIN checks'[r] PROVE checks'[r][i].live
        <5>1. CASE i \in DOMAIN checks[r] /\ checks'[r][i] = checks[r][i]
          BY <3>1, <5>1 DEF Placed
        <5>2. CASE checks'[r][i] = t
          BY <2>2, <5>2
        <5> QED
          BY <4>1, <4>2, <4>3, <5>1, <5>2
      <4> QED
        BY <2>1, <2>3, <3>1, <3>2, <3>4, <4>3 DEF Placed, KeeperConnsOf
    <3> QED
      BY <3>3, <3>4
  <2>6. Started' /\ GivenOnce'
    BY <1>c DEF IdInv, Started, GivenOnce
  <2> QED
    BY <2>4, <2>5, <2>6 DEF IdInv
<1>9. ASSUME ForwardCheckLogonForwardSession(p) PROVE IdInv'
  <2> DEFINE x == Head(checks[p]).conn
  <2>1. checks[p] \in Seq(Check) /\ checks[p] # <<>>
    BY <1>9 DEF ForwardCheckLogonForwardSession, ForwardTypeOK
  <2>2. x \in ForwardConns
    <3>1. Head(checks[p]) \in Check
      BY <2>1
    <3> QED
      BY <3>1 DEF Check
  <2>3. /\ UNCHANGED <<srv, s2c>> \/ ShutdownS(x, s2c)
        /\ UNCHANGED <<cli, c2s, lost, server, alive, keeperConn>>
        /\ checks' = [checks EXCEPT ![p] = Tail(@)]
    BY <1>9 DEF ForwardCheckLogonForwardSession
  <2> HIDE DEF x
  <2>4. ASSUME NEW d \in KeeperForwardConns PROVE Linked(d)'
    <3>1. Untouched(d)
      BY <1>0, <1>a, <2>2, <2>3 DEF ShutdownS, SendS, Queues, Untouched
    <3> QED
      BY <1>d, <2>3, <3>1
  <2>5. ASSUME NEW r \in Forwards PROVE Placed(r)'
    <3>1. Placed(r) /\ checks[r] \in Seq(Check)
      BY <1>a DEF IdInv
    <3>2. \A d \in KeeperConnsOf(r) : Given(d, server[r]) => Given(d, server[r])'
      BY <1>c, <2>3
    <3>3. checks'[r] = IF r = p THEN Tail(checks[r]) ELSE checks[r]
      BY <1>a, <2>3
    <3>4. ASSUME r = p PROVE /\ server[r] # NoServer
                             /\ \A i \in DOMAIN Tail(checks[r]) : /\ Tail(checks[r])[i] = checks[r][i + 1]
                                                                  /\ i + 1 \in DOMAIN checks[r]
      BY <2>1, <3>1, <3>4 DEF Placed
    <3> QED
      BY <2>3, <3>1, <3>2, <3>3, <3>4 DEF Placed, KeeperConnsOf
  <2>6. Started' /\ GivenOnce'
    BY <1>c DEF IdInv, Started, GivenOnce
  <2> QED
    BY <2>4, <2>5, <2>6 DEF IdInv
<1>10. ASSUME ForwardDanglingCheck(p) PROVE IdInv'
  <2>1. checks[p] \in Seq(Check) /\ checks[p] # <<>> /\ ~Head(checks[p]).live
    BY <1>10 DEF ForwardDanglingCheck, ForwardTypeOK
  <2>2. 1 \in DOMAIN checks[p] /\ checks[p][1] = Head(checks[p])
    BY <2>1
  <2>3. checks[p][1].live
    BY <2>2 DEF IdInv, Placed
  <2> QED
    BY <2>1, <2>2, <2>3
<1>11. ASSUME ForwardRestart(p) PROVE IdInv'
  BY <1>11 DEF ForwardRestart, MayRestart, LinksHold
<1> QED
  BY <1>1, <1>2, <1>3, <1>4, <1>5, <1>6, <1>7, <1>8, <1>9, <1>10, <1>11 DEF ForwardStep

-----------------------------------------------------------------------------
(* At the start no id has been given. *)
LEMMA InitIdInv == Init => IdInv
<1> SUFFICES ASSUME Init PROVE IdInv
  OBVIOUS
<1>1. /\ \A c \in KeeperForwardConns : /\ cli[c] = "none" /\ ~lost[c] /\ c2s[c] = <<>> /\ s2c[c] = <<>>
                                       /\ Owner(c) \in Forwards
      /\ \A k \in Keepers : serverStart[k] = <<>>
      /\ \A p \in Forwards : alive[p] /\ server[p] = NoServer /\ checks[p] = <<>> /\ KeeperOf[p] \in Keepers
  BY ConnKinds, ConfigAssumption DEF Init, NetInit, KeeperInit, ForwardInit, Owner
<1>2. \A c \in KeeperForwardConns : \A id : ~Given(c, id)
  BY <1>1 DEF Given
<1>3. ASSUME NEW c \in KeeperForwardConns PROVE Linked(c)
  BY <1>1, <1>2, EmptyQueue DEF Linked, StaysUp, AnsweredOnce, ReportsItself
<1>4. ASSUME NEW p \in Forwards PROVE Placed(p)
  BY <1>1 DEF Placed
<1> QED
  BY <1>1, <1>2, <1>3, <1>4 DEF IdInv, Started, GivenOnce

(* What the hub, the logon server and the clients do does not concern the  *)
(* connections between keepers and forward processes.                      *)
LEMMA IdsElsewhere ==
  ASSUME IdInv, UNCHANGED <<serverStart, alive, keeperConn, server, checks>>,
         \A c \in KeeperForwardConns : Untouched(c)
  PROVE  IdInv'
<1>1. \A c, id : Given(c, id)' <=> Given(c, id)
  BY DEF Given
<1>2. ASSUME NEW c \in KeeperForwardConns PROVE Linked(c)'
  BY <1>1, UntouchedSmooth, SmoothLinked DEF IdInv
<1> QED
  BY <1>2, QuietIds

(* No client step changes a forward process. *)
LEMMA ClientLeavesForwards ==
  ASSUME NEW c \in Clients, ClientStep(c)
  PROVE  UNCHANGED <<alive, keeperConn, server, checks>>
BY DEF ClientStep, ClientConnect, ClientOnConnectionDown, ClientOnLogonRetFailed, ClientOnLogonRetSuccess,
       ClientOnMisframedLogonRet, ForwardClientConnect, ForwardClientOnConnectionDown, forwardVars

(* No step of anybody gives an id away twice. *)
LEMMA IdInvStep ==
  ASSUME TypeInv, RegInv, RouteInv, IdInv, LinksHold, OneKeeperForAll, Next
  PROVE  IdInv'
<1>0. \A c \in KeeperForwardConns : /\ c \in Conns /\ c \notin HubConns /\ c \notin HubLogonConns
                                    /\ c \notin LogonConns /\ c \notin ForwardConns
  BY ConnKinds
<1>1. ASSUME Hub PROVE IdInv'
  <2>1. HubStep /\ UNCHANGED <<serverStart, alive, keeperConn, server, checks>>
    BY <1>1 DEF Hub, keeperVars, forwardVars
  <2> QED
    BY <1>0, <2>1, HubFrame, IdsElsewhere
<1>2. ASSUME NEW k \in Keepers, Keeper(k) PROVE IdInv'
  <2>1. KeeperStep(k) /\ UNCHANGED <<alive, keeperConn, server, checks>>
    BY <1>2 DEF Keeper, forwardVars
  <2> QED
    BY <2>1, KeeperIds
<1>3. ASSUME NEW p \in Forwards, Forward(p) PROVE IdInv'
  <2>1. ForwardStep(p) /\ UNCHANGED serverStart
    BY <1>3 DEF Forward, keeperVars
  <2> QED
    BY <2>1, ForwardIds
<1>4. ASSUME Logon PROVE IdInv'
  <2>1. LogonStep /\ UNCHANGED <<serverStart, alive, keeperConn, server, checks>>
    BY <1>4 DEF Logon, keeperVars, forwardVars
  <2> QED
    BY <1>0, <2>1, LogonFrame, IdsElsewhere
<1>5. ASSUME NEW c \in Clients, Client(c) PROVE IdInv'
  <2>1. ClientStep(c) /\ UNCHANGED serverStart
    BY <1>5 DEF Client, keeperVars
  <2>2. LogonConnOf(c) \in LogonConns
    BY DEF LogonConnOf, LogonConns
  <2> QED
    BY <1>0, <2>1, <2>2, ClientLeavesForwards, ClientFrame, IdsElsewhere
<1>6. ASSUME Network PROVE IdInv'
  <2>1. PICK c \in Conns : Cut(c)
    BY <1>6 DEF Network
  <2>2. UNCHANGED <<serverStart, alive, keeperConn, server, checks>>
    BY <1>6 DEF Network, keeperVars, forwardVars
  <2>3. c \notin KeeperForwardConns
    BY <2>1, ConnKinds DEF Cut, LinksHold, Kind
  <2>4. \A d \in KeeperForwardConns : Untouched(d)
    BY <1>0, <2>1, <2>3 DEF Cut, Untouched, TypeInv, Ends
  <2> QED
    BY <2>2, <2>4, IdsElsewhere
<1> QED
  BY <1>1, <1>2, <1>3, <1>4, <1>5, <1>6 DEF Next

(* While the processes of the keeper and of the forward servers run on and *)
(* the connections between them hold, an id is given to one connection of  *)
(* one process, for good (KeeperServer::onQuery, setStarted), and no       *)
(* forward process aborts or replaces its server.                          *)
THEOREM IdsForGood ==
  ASSUME LinksHold, OneKeeperForAll
  PROVE  Spec => []IdInv
<1>1. TypeInv /\ RegInv /\ RouteInv /\ IdInv /\ [Next]_vars => IdInv'
  <2> SUFFICES ASSUME TypeInv, RegInv, RouteInv, IdInv, [Next]_vars PROVE IdInv'
    OBVIOUS
  <2>1. CASE Next
    BY <2>1, IdInvStep
  <2>2. CASE UNCHANGED vars
    <3>1. \A c \in KeeperForwardConns : Untouched(c)
      BY <2>2 DEF vars, netVars, Untouched
    <3> QED
      BY <2>2, <3>1, IdsElsewhere DEF vars, keeperVars, forwardVars
  <2> QED
    BY <2>1, <2>2
<1> QED
  BY <1>1, InitIdInv, TypeInvariance, Registration, Routes, PTL DEF Spec

-----------------------------------------------------------------------------
(* Keeper k has given id to somebody. *)
Known(k, id) == \E c \in KeeperForwardConns : KeeperOf[Owner(c)] = k /\ Given(c, id)

(* The messages by which a keeper tells the hub of a forward server. *)
HubReports(c) == Sent(c2s[c], "HubKeeperUpdateForwardConns")

Added(k, id) == UpdateForwardConns(k, id, "ADD")

(* A keeper reports only of its own, and takes nobody off the list. *)
Reported(c) == \A m \in HubReports(c) :
                  /\ c \in HubKeeperConns
                  /\ m = UpdateForwardConns(Owner(c), m.forwardserverid, m.oper)
                  /\ m.oper \in {"ADD", "INC", "DEC"}
                  /\ Known(Owner(c), m.forwardserverid)

(* An id is added once, when it is not listed. *)
AddedOnce(k, id) == \A c \in HubConns :
                       /\ Once(c2s[c], Added(k, id))
                       /\ Added(k, id) \in HubReports(c) =>
                             /\ ~Listed(k, id)
                             /\ \A d \in HubConns : Added(k, id) \in HubReports(d) => c = d

(* The hub's list has ids that have been given, each once. *)
Listing(k) == \A i \in DOMAIN forwardConns[k] :
                 /\ Known(k, forwardConns[k][i].id)
                 /\ \A j \in DOMAIN forwardConns[k] : forwardConns[k][i].id = forwardConns[k][j].id => i = j

ListInv == /\ \A c \in HubConns : Reported(c)
           /\ \A k \in Keepers : \A id \in ServerIds : AddedOnce(k, id)
           /\ \A k \in Keepers : Listing(k)

(* What has been given stays given. *)
KeepsKnown == \A k, id : Known(k, id) => Known(k, id)'

(* A step that leaves the ids in the list of k as they are, or clears it.  *)
SameIds(k) == \/ forwardConns'[k] = <<>>
              \/ /\ DOMAIN forwardConns'[k] = DOMAIN forwardConns[k]
                 /\ \A i \in DOMAIN forwardConns[k] : forwardConns'[k][i].id = forwardConns[k][i].id

(* What the hub is told has a type of its own. *)
LEMMA ReportFields ==
  ASSUME NEW k, NEW id, NEW oper
  PROVE  /\ UpdateForwardConns(k, id, oper).type = "HubKeeperUpdateForwardConns"
         /\ UpdateForwardConns(k, id, oper).keeperserverid = k
         /\ UpdateForwardConns(k, id, oper).forwardserverid = id
         /\ UpdateForwardConns(k, id, oper).oper = oper
BY DEF UpdateForwardConns

(* The list stays right if it keeps its ids. *)
LEMMA SameIdsListing ==
  ASSUME KeepsKnown, NEW k, SameIds(k)
  PROVE  /\ Listing(k) => Listing(k)'
         /\ \A id : Listed(k, id)' => Listed(k, id)
<1>1. CASE forwardConns'[k] = <<>>
  <2>1. DOMAIN forwardConns'[k] = {}
    BY <1>1
  <2> QED
    BY <2>1 DEF Listing, Listed
<1>2. CASE /\ DOMAIN forwardConns'[k] = DOMAIN forwardConns[k]
           /\ \A i \in DOMAIN forwardConns[k] : forwardConns'[k][i].id = forwardConns[k][i].id
  <2>1. Listing(k) => Listing(k)'
    <3> SUFFICES ASSUME Listing(k), NEW i \in DOMAIN forwardConns'[k]
                 PROVE  /\ Known(k, forwardConns[k][i].id)'
                        /\ \A j \in DOMAIN forwardConns'[k] : forwardConns'[k][i].id = forwardConns'[k][j].id => i = j
      BY DEF Listing
    <3>1. Known(k, forwardConns[k][i].id) /\ forwardConns'[k][i].id = forwardConns[k][i].id
      BY <1>2 DEF Listing
    <3>2. Known(k, forwardConns[k][i].id)'
      BY <3>1 DEF KeepsKnown, Known, Given
    <3> QED
      BY <1>2, <3>2 DEF Listing
  <2> QED
    BY <1>2, <2>1 DEF Listed
<1> QED
  BY <1>1, <1>2 DEF SameIds

(* A step that only takes reports out of the queues to the hub, and leaves *)
(* the ids of the lists alone.                                             *)
LEMMA QuietLists ==
  ASSUME ListInv, KeepsKnown,
         \A c \in HubConns : Thins(c2s[c], c2s'[c], "HubKeeperUpdateForwardConns"),
         \A k \in Keepers : SameIds(k)
  PROVE  ListInv'
<1>1. \A c \in HubConns : HubReports(c)' \subseteq HubReports(c)
  BY DEF Thins, HubReports
<1>2. ASSUME NEW c \in HubConns PROVE Reported(c)'
  <2> SUFFICES ASSUME NEW m \in HubReports(c)'
               PROVE  /\ c \in HubKeeperConns
                      /\ m = UpdateForwardConns(Owner(c), m.forwardserverid, m.oper)
                      /\ m.oper \in {"ADD", "INC", "DEC"}
                      /\ Known(Owner(c), m.forwardserverid)'
    BY DEF Reported
  <2> QED
    BY <1>1 DEF ListInv, Reported, KeepsKnown
<1>3. ASSUME NEW k \in Keepers, NEW id \in ServerIds PROVE AddedOnce(k, id)'
  <2> SUFFICES ASSUME NEW c \in HubConns
               PROVE  /\ Once(c2s'[c], Added(k, id))
                      /\ Added(k, id) \in HubReports(c)' =>
                            /\ ~Listed(k, id)'
                            /\ \A d \in HubConns : Added(k, id) \in HubReports(d)' => c = d
    BY DEF AddedOnce, Added, UpdateForwardConns
  <2>1. Added(k, id).type = "HubKeeperUpdateForwardConns"
    BY ReportFields DEF Added
  <2>2. AddedOnce(k, id)
    BY DEF ListInv
  <2>3. Once(c2s'[c], Added(k, id))
    BY <2>1, <2>2 DEF AddedOnce, Thins
  <2>4. Listed(k, id)' => Listed(k, id)
    BY SameIdsListing
  <2> QED
    BY <1>1, <2>2, <2>3, <2>4 DEF AddedOnce
<1>4. ASSUME NEW k \in Keepers PROVE Listing(k)'
  BY SameIdsListing DEF ListInv
<1> QED
  BY <1>2, <1>3, <1>4 DEF ListInv

(* A queue that starts anew with one message of another type is thinned. *)
LEMMA ThinsOne ==
  ASSUME NEW q, NEW m, NEW t, m.type # t
  PROVE  Thins(q, <<m>>, t)
<1>1. Sent(<<m>>, t) = {}
  BY SentOne
<1>2. \A n : Once(<<m>>, n)
  BY DEF Once
<1> QED
  BY <1>1, <1>2 DEF Thins

(* INC and DEC leave the ids as they are, whether or not the id is listed. *)
LEMMA CountKeepsIds ==
  ASSUME NEW list \in Seq(ForwardEntry), NEW id, NEW oper \in {"INC", "DEC"}
  PROVE  /\ DOMAIN UpdatedForwardList(list, oper, id) = DOMAIN list
         /\ \A i \in DOMAIN list : UpdatedForwardList(list, oper, id)[i].id = list[i].id
<1> DEFINE hits == {n \in DOMAIN list : list[n].id = id}
           i    == Min(hits)
<1>0. \A j \in DOMAIN list : list[j] \in ForwardEntry
  OBVIOUS
<1> HIDE DEF hits
<1>1. CASE hits = {}
  <2>1. UpdatedForwardList(list, oper, id) = list
    BY <1>1, Zenon DEF UpdatedForwardList, hits
  <2> QED
    BY <2>1
<1>2. CASE hits # {}
  <2>1. CASE oper = "INC"
    <3>1. UpdatedForwardList(list, oper, id) = [list EXCEPT ![i].numConnections = Incremented(@)]
      BY <1>2, <2>1, Zenon DEF UpdatedForwardList, hits
    <3> HIDE DEF i
    <3> QED
      BY <1>0, <3>1 DEF ForwardEntry
  <2>2. CASE oper = "DEC"
    <3>1. UpdatedForwardList(list, oper, id) = [list EXCEPT ![i].numConnections = Decremented(@)]
      BY <1>2, <2>2, Zenon DEF UpdatedForwardList, hits
    <3> HIDE DEF i
    <3> QED
      BY <1>0, <3>1 DEF ForwardEntry
  <2> QED
    BY <2>1, <2>2
<1> QED
  BY <1>1, <1>2

(* The hub lists each id it is told of once. *)
LEMMA AddLists ==
  ASSUME TypeInv, ListInv, KeepsKnown, NEW c \in HubConns, ReadsS(c, "HubKeeperUpdateForwardConns"),
         NEW k \in Keepers, NEW id \in ServerIds, Head(c2s[c]) = Added(k, id), Owner(c) = k, Known(k, id),
         c2s' = Recv(c2s, c),
         forwardConns' = [forwardConns EXCEPT ![k] = Append(@, [id |-> id, numConnections |-> 0])]
  PROVE  ListInv'
<1> DEFINE H == "HubKeeperUpdateForwardConns"
           V == Vetted(verified)
           a == Added(k, id)
           e == [id |-> id, numConnections |-> 0]
           list == forwardConns[k]
           new  == Append(list, e)
<1>0. \A d \in HubConns : d \in Conns
  BY ConnKinds
<1>1. c2s \in Queues(V) /\ forwardConns \in [Keepers -> Seq(ForwardEntry)] /\ list \in Seq(ForwardEntry)
  BY DEF TypeInv, Mail, HubTypeOK, ForwardEntry
<1>2. \A d \in HubConns : c2s[d] \in Seq(V) /\ c2s'[d] = IF d = c THEN Tail(c2s[d]) ELSE c2s[d]
  BY <1>0, <1>1 DEF Recv, Queues
<1>3. c2s[c] # <<>> /\ a = Head(c2s[c]) /\ a.type = H
  BY ReportFields DEF ReadsS, Added
<1>4. a.forwardserverid = id /\ a.keeperserverid = k
  BY ReportFields DEF Added
<1>5. \A d \in HubConns : Thins(c2s[d], c2s'[d], H)
  BY <1>2, <1>3, ThinsTail, ThinsTrivially
<1>6. \A d \in HubConns : HubReports(d)' \subseteq HubReports(d)
  BY <1>5 DEF Thins, HubReports
<1>7. a \in HubReports(c)
  BY <1>2, <1>3, HeadSent DEF HubReports
<1>8. ~Listed(k, id) /\ Once(c2s[c], a) /\ \A d \in HubConns : a \in HubReports(d) => c = d
  BY <1>7 DEF ListInv, AddedOnce
<1>9. \A d \in HubConns : a \notin HubReports(d)'
  <2>1. a \notin Sent(Tail(c2s[c]), H)
    BY <1>2, <1>3, <1>8, OnceSentAndRead
  <2>2. a \notin HubReports(c)'
    BY <1>2, <2>1 DEF HubReports
  <2> QED
    BY <1>6, <1>8, <2>2
<1>10. ASSUME NEW d \in HubConns PROVE Reported(d)'
  <2> SUFFICES ASSUME NEW m \in HubReports(d)'
               PROVE  /\ d \in HubKeeperConns
                      /\ m = UpdateForwardConns(Owner(d), m.forwardserverid, m.oper)
                      /\ m.oper \in {"ADD", "INC", "DEC"}
                      /\ Known(Owner(d), m.forwardserverid)'
    BY DEF Reported
  <2> QED
    BY <1>6 DEF ListInv, Reported, KeepsKnown
<1> HIDE DEF a
<1>11. ASSUME NEW l \in Keepers, l # k PROVE forwardConns'[l] = forwardConns[l]
  BY <1>1, <1>11
<1>12. /\ forwardConns'[k] = new
       /\ DOMAIN new = 1..(Len(list) + 1) /\ DOMAIN list = 1..Len(list) /\ Len(list) \in Nat
       /\ \A i \in DOMAIN list : new[i] = list[i] /\ i # Len(list) + 1
       /\ new[Len(list) + 1] = e /\ e.id = id
  BY <1>1
<1>13. \A i \in DOMAIN new : i \in DOMAIN list \/ i = Len(list) + 1
  BY <1>12
<1> HIDE DEF e, new
<1>14. Listing(k)'
  <2> SUFFICES ASSUME NEW i \in DOMAIN forwardConns'[k]
               PROVE  /\ Known(k, forwardConns[k][i].id)'
                      /\ \A j \in DOMAIN forwardConns'[k] : forwardConns'[k][i].id = forwardConns'[k][j].id => i = j
    BY DEF Listing
  <2>1. \A j \in DOMAIN list : list[j].id # id /\ Known(k, list[j].id)
                               /\ \A n \in DOMAIN list : list[j].id = list[n].id => j = n
    BY <1>8 DEF Listed, ListInv, Listing
  <2>2. Known(k, new[i].id)
    BY <1>12, <1>13, <2>1
  <2>3. Known(k, forwardConns[k][i].id)'
    <3>1. PICK x : x = forwardConns'[k][i].id /\ Known(k, x)'
      BY <1>12, <2>2 DEF KeepsKnown
    <3> QED
      BY <3>1 DEF Known, Given
  <2>4. \A j \in DOMAIN new : new[i].id = new[j].id => i = j
    BY <1>12, <1>13, <2>1
  <2> QED
    BY <1>12, <2>3, <2>4
<1>15. ASSUME NEW l \in Keepers PROVE Listing(l)'
  <2>1. CASE l = k
    BY <1>14, <2>1
  <2>2. CASE l # k
    <3>1. SameIds(l)
      BY <1>11, <2>2 DEF SameIds
    <3> QED
      BY <3>1, SameIdsListing DEF ListInv
  <2> QED
    BY <2>1, <2>2
<1>16. ASSUME NEW l \in Keepers, NEW n \in ServerIds PROVE AddedOnce(l, n)'
  <2> SUFFICES ASSUME NEW d \in HubConns
               PROVE  /\ Once(c2s'[d], Added(l, n))
                      /\ Added(l, n) \in HubReports(d)' =>
                            /\ ~Listed(l, n)'
                            /\ \A x \in HubConns : Added(l, n) \in HubReports(x)' => d = x
    BY DEF AddedOnce, Added, UpdateForwardConns
  <2>1. Added(l, n).type = H
    BY ReportFields DEF Added
  <2>2. AddedOnce(l, n)
    BY DEF ListInv
  <2>3. Once(c2s'[d], Added(l, n))
    BY <1>5, <2>1, <2>2 DEF AddedOnce, Thins
  <2>4. ASSUME Added(l, n) \in HubReports(d)' PROVE ~Listed(l, n)'
    <3>1. Added(l, n) # a
      BY <1>9, <2>4
    <3>2. l # k \/ n # id
      BY <3>1 DEF a
    <3>3. ~Listed(l, n)
      BY <1>6, <2>2, <2>4 DEF AddedOnce
    <3>4. CASE l # k
      BY <1>11, <3>3, <3>4 DEF Listed
    <3>5. CASE l = k /\ n # id
      <4>1. \A i \in DOMAIN new : new[i].id # n
        BY <1>12, <1>13, <3>3, <3>5 DEF Listed
      <4> QED
        BY <1>12, <3>5, <4>1 DEF Listed
    <3> QED
      BY <3>2, <3>4, <3>5
  <2> QED
    BY <1>6, <2>2, <2>3, <2>4 DEF AddedOnce
<1> QED
  BY <1>10, <1>15, <1>16 DEF ListInv

(* The hub keeps its lists right. *)
LEMMA HubLists ==
  ASSUME TypeInv, ListInv, HubStep, UNCHANGED serverStart
  PROVE  ListInv'
<1> DEFINE H == "HubKeeperUpdateForwardConns"
           V == Vetted(verified)
<1>0. \A d \in HubConns : d \in Conns
  BY ConnKinds
<1>a. c2s \in Queues(V) /\ \A d \in HubConns : c2s[d] \in Seq(V)
  BY <1>0 DEF TypeInv, Mail, Queues
<1>b. KeepsKnown
  BY DEF KeepsKnown, Known, Given
<1>c. ASSUME NEW c \in HubConns, NEW t, ReadsS(c, t), c2s' = Recv(c2s, c), UNCHANGED forwardConns PROVE ListInv'
  <2>1. \A d \in HubConns : c2s'[d] = IF d = c THEN Tail(c2s[d]) ELSE c2s[d]
    BY <1>0, <1>a, <1>c DEF Recv, Queues
  <2>2. c2s[c] # <<>>
    BY <1>c DEF ReadsS
  <2>3. \A d \in HubConns : Thins(c2s[d], c2s'[d], H)
    BY <1>a, <2>1, <2>2, ThinsTail, ThinsTrivially
  <2>4. \A k \in Keepers : SameIds(k)
    BY <1>c DEF SameIds
  <2> QED
    BY <1>b, <2>3, <2>4, QuietLists
<1>1. ASSUME NEW c \in HubConns, HubOnConnectionDown(c) PROVE ListInv'
  <2>1. c2s' = Drained(c2s, c) /\ UNCHANGED forwardConns
    BY <1>1 DEF HubOnConnectionDown
  <2>2. \A d \in HubConns : c2s'[d] \in {c2s[d], <<>>}
    BY <1>0, <1>a, <2>1 DEF Drained, Queues
  <2>3. \A d \in HubConns : Thins(c2s[d], c2s'[d], H)
    BY <2>2, ThinsTrivially
  <2>4. \A k \in Keepers : SameIds(k)
    BY <2>1 DEF SameIds
  <2> QED
    BY <1>b, <2>3, <2>4, QuietLists
<1>2. ASSUME NEW c \in HubConns, HubOnHubConnectionData(c) PROVE ListInv'
  BY <1>2, <1>c DEF HubOnHubConnectionData
<1>3. ASSUME NEW c \in HubConns, HubOnHubKeeperLogonSessionRet(c) PROVE ListInv'
  BY <1>3, <1>c DEF HubOnHubKeeperLogonSessionRet, hubVars
<1>4. ASSUME NEW c \in HubConns, HubOnHubKeeperUpdateForwardConns(c) PROVE ListInv'
  <2> DEFINE m  == Head(c2s[c])
             k  == m.keeperserverid
             id == m.forwardserverid
  <2>1. m \in V /\ m.type = H /\ ReadsS(c, H) /\ c2s[c] # <<>>
    BY <1>0, <1>4, ReadAtServer DEF HubOnHubKeeperUpdateForwardConns, ReadsS
  <2>2. k \in Keepers /\ id \in ServerIds
    BY <2>1, MessageFields
  <2>3. /\ forwardConns' = [forwardConns EXCEPT ![k] = UpdatedForwardList(@, m.oper, id)]
        /\ c2s' = Recv(c2s, c)
    BY <1>4 DEF HubOnHubKeeperUpdateForwardConns
  <2>4. m \in HubReports(c)
    BY <1>a, <2>1, HeadSent DEF HubReports
  <2>5. m = UpdateForwardConns(Owner(c), id, m.oper) /\ m.oper \in {"ADD", "INC", "DEC"} /\ Known(Owner(c), id)
    BY <2>4 DEF ListInv, Reported
  <2>6. Owner(c) = k
    BY <2>5, ReportFields
  <2>7. forwardConns \in [Keepers -> Seq(ForwardEntry)]
    BY DEF TypeInv, HubTypeOK, ForwardEntry
  <2>8. CASE m.oper = "ADD"
    <3> DEFINE list == forwardConns[k]
    <3>1. m = Added(k, id)
      BY <2>5, <2>6, <2>8 DEF Added
    <3>2. UpdatedForwardList(list, "ADD", id) = Append(list, [id |-> id, numConnections |-> 0])
      BY Zenon DEF UpdatedForwardList
    <3>3. forwardConns' = [forwardConns EXCEPT ![k] = Append(@, [id |-> id, numConnections |-> 0])]
      BY <2>3, <2>8, <3>2
    <3> QED
      BY <1>b, <2>1, <2>2, <2>3, <2>5, <2>6, <3>1, <3>3, AddLists
  <2>9. CASE m.oper \in {"INC", "DEC"}
    <3> DEFINE list == forwardConns[k]
               oper == m.oper
    <3>1. list \in Seq(ForwardEntry) /\ oper \in {"INC", "DEC"}
      BY <2>2, <2>7, <2>9
    <3>2. forwardConns'[k] = UpdatedForwardList(list, oper, id) /\ \A l \in Keepers : l # k => forwardConns'[l] = forwardConns[l]
      BY <2>2, <2>3, <2>7
    <3> HIDE DEF m, k, id, oper
    <3>3. SameIds(k)
      <4> HIDE DEF list
      <4>1. /\ DOMAIN UpdatedForwardList(list, oper, id) = DOMAIN list
            /\ \A i \in DOMAIN list : UpdatedForwardList(list, oper, id)[i].id = list[i].id
        BY <3>1, CountKeepsIds
      <4> QED
        BY <3>2, <4>1 DEF SameIds, list
    <3>4. \A l \in Keepers : SameIds(l)
      BY <3>2, <3>3 DEF SameIds
    <3>5. \A d \in HubConns : c2s'[d] = IF d = c THEN Tail(c2s[d]) ELSE c2s[d]
      BY <1>0, <1>a, <2>3 DEF Recv, Queues
    <3>6. \A d \in HubConns : Thins(c2s[d], c2s'[d], H)
      BY <1>a, <2>1, <3>5, ThinsTail, ThinsTrivially
    <3> QED
      BY <1>b, <3>4, <3>6, QuietLists
  <2> QED
    BY <2>5, <2>8, <2>9
<1>5. ASSUME NEW c \in HubConns, HubOnHubLogonQueryForwardID(c) PROVE ListInv'
  BY <1>5, <1>c DEF HubOnHubLogonQueryForwardID, hubVars
<1>6. ASSUME HubRestart PROVE ListInv'
  <2>1. \A d \in HubConns : c2s'[d] = <<>>
    BY <1>0, <1>6 DEF HubRestart, Die, Emptied
  <2>2. \A d \in HubConns : Thins(c2s[d], c2s'[d], H)
    BY <2>1, ThinsTrivially
  <2>3. \A k \in Keepers : SameIds(k)
    BY <1>6 DEF HubRestart, HubStart, SameIds
  <2> QED
    BY <1>b, <2>2, <2>3, QuietLists
<1> QED
  BY <1>1, <1>2, <1>3, <1>4, <1>5, <1>6 DEF HubStep

(* A keeper that tells the hub of an id it has just given, or that it has  *)
(* given before, keeps the hub's lists right.                              *)
LEMMA ReportLists ==
  ASSUME TypeInv, RegInv, ListInv, KeepsKnown, UNCHANGED forwardConns, NEW k \in Keepers, NEW id \in ServerIds,
         NEW oper \in {"ADD", "INC", "DEC"}, Known(k, id)', oper = "ADD" => ~Known(k, id),
         NEW q \in Queues(Vetted(verified)), \A d \in HubConns : q[d] = c2s[d],
         c2s' = SendC(q, keeperHubConn[k], UpdateForwardConns(k, id, oper))
  PROVE  ListInv'
<1> DEFINE H == "HubKeeperUpdateForwardConns"
           V == Vetted(verified)
           n == UpdateForwardConns(k, id, oper)
           h == keeperHubConn[k]
<1>0. \A d \in HubConns : d \in Conns /\ c2s[d] \in Seq(V)
  BY ConnKinds DEF TypeInv, Mail, Queues
<1>1. h # NoConn => h \in HubKeeperConns /\ h \in HubConns /\ Owner(h) = k
  BY ConnKinds DEF TypeInv, KeeperTypeOK, Opt, RegInv, KeeperRegistered
<1>2. n.type = H /\ n.forwardserverid = id /\ n.oper = oper
  BY ReportFields
<1>3. \A d \in HubConns : c2s'[d] = c2s[d] \/ (d = h /\ h # NoConn /\ c2s'[d] = Append(c2s[d], n))
  BY <1>0 DEF SendC, CanSendC, Queues
<1>4. n = UpdateForwardConns(k, id, oper)
  OBVIOUS
<1> HIDE DEF n, h
<1>5. \A d \in HubConns : HubReports(d)' \subseteq HubReports(d) \cup (IF d = h /\ h # NoConn THEN {n} ELSE {})
  <2> SUFFICES ASSUME NEW d \in HubConns
               PROVE  HubReports(d)' \subseteq HubReports(d) \cup (IF d = h /\ h # NoConn THEN {n} ELSE {})
    OBVIOUS
  <2>0. c2s[d] \in Seq(V) /\ n.type = H
    BY <1>0, <1>2
  <2>1. Sent(Append(c2s[d], n), H) = Sent(c2s[d], H) \cup {n}
    <3>1. PICK r, M, z : r = c2s[d] /\ M = V /\ z = n
      BY Zenon
    <3>2. r \in Seq(M) /\ z.type = H
      BY <2>0, <3>1
    <3> HIDE DEF H, V
    <3>3. Sent(Append(r, z), H) = Sent(r, H) \cup {z}
      BY <3>2, SentAppend
    <3> QED
      BY <3>1, <3>3
  <2> QED
    BY <1>3, <2>1 DEF HubReports
<1>6. ASSUME NEW d \in HubConns PROVE Reported(d)'
  <2> SUFFICES ASSUME NEW m \in HubReports(d)'
               PROVE  /\ d \in HubKeeperConns
                      /\ m = UpdateForwardConns(Owner(d), m.forwardserverid, m.oper)
                      /\ m.oper \in {"ADD", "INC", "DEC"}
                      /\ Known(Owner(d), m.forwardserverid)'
    BY DEF Reported
  <2>1. CASE m \in HubReports(d)
    BY <2>1 DEF ListInv, Reported, KeepsKnown
  <2>2. CASE m = n /\ d = h /\ h # NoConn
    BY <1>1, <1>2, <1>4, <2>2
  <2> QED
    BY <1>5, <2>1, <2>2
<1>7. ASSUME NEW l \in Keepers, NEW j \in ServerIds PROVE AddedOnce(l, j)'
  <2> DEFINE a == Added(l, j)
  <2> SUFFICES ASSUME NEW d \in HubConns
               PROVE  /\ Once(c2s'[d], a)
                      /\ a \in HubReports(d)' =>
                            /\ ~Listed(l, j)'
                            /\ \A x \in HubConns : a \in HubReports(x)' => d = x
    BY DEF AddedOnce, Added, UpdateForwardConns
  <2>1. a.type = H /\ a.keeperserverid = l /\ a.forwardserverid = j /\ a.oper = "ADD"
    BY ReportFields DEF Added
  <2>2. AddedOnce(l, j) /\ (Listed(l, j)' <=> Listed(l, j))
    BY DEF ListInv, Listed
  <2>3. CASE a # n
    <3>1. \A x \in HubConns : a \in HubReports(x)' => a \in HubReports(x)
      BY <1>5, <2>3
    <3>2. Once(c2s'[d], a)
      <4>1. Once(c2s[d], a)
        BY <2>2 DEF AddedOnce
      <4>2. Once(Append(c2s[d], n), a)
        <5>1. \A i \in DOMAIN Append(c2s[d], n) : \/ i \in DOMAIN c2s[d] /\ Append(c2s[d], n)[i] = c2s[d][i]
                                                  \/ Append(c2s[d], n)[i] = n
          BY <1>0
        <5> HIDE DEF a
        <5> QED
          BY <2>3, <4>1, <5>1 DEF Once
      <4> QED
        BY <1>3, <4>1, <4>2
    <3> QED
      BY <2>2, <3>1, <3>2 DEF AddedOnce
  <2>4. CASE a = n
    <3>1. j = id /\ oper = "ADD" /\ l = k
      BY <1>2, <1>4, <2>1, <2>4, ReportFields
    <3>2. ~Known(l, j)
      BY <3>1
    <3>3. \A x \in HubConns : a \notin HubReports(x)
      <4> SUFFICES ASSUME NEW x \in HubConns, a \in HubReports(x) PROVE FALSE
        OBVIOUS
      <4>1. a = UpdateForwardConns(Owner(x), a.forwardserverid, a.oper) /\ Known(Owner(x), a.forwardserverid)
        BY DEF ListInv, Reported
      <4>2. Owner(x) = l
        BY <2>1, <4>1, ReportFields
      <4> QED
        BY <2>1, <3>2, <4>1, <4>2
    <3>4. ~Listed(l, j)
      BY <3>2 DEF ListInv, Listing, Listed
    <3>5. \A x \in HubConns : a \in HubReports(x)' => x = h
      BY <1>5, <3>3
    <3>6. Once(c2s'[d], a)
      <4>1. a \notin Sent(c2s[d], a.type)
        BY <2>1, <3>3 DEF HubReports
      <4>2. Once(Append(c2s[d], a), a)
        BY <1>0, <4>1, OnceSentAndRead
      <4>3. Once(c2s[d], a)
        BY <2>2 DEF AddedOnce
      <4> QED
        BY <1>3, <2>4, <4>2, <4>3
    <3> QED
      BY <2>2, <3>4, <3>5, <3>6
  <2> QED
    BY <2>3, <2>4
<1>8. ASSUME NEW l \in Keepers PROVE Listing(l)'
  <2>1. SameIds(l)
    BY DEF SameIds
  <2> QED
    BY <2>1, SameIdsListing DEF ListInv
<1> QED
  BY <1>6, <1>7, <1>8 DEF ListInv

(* The connection of a refused process goes without a trace. *)
LEMMA RefusedGoes ==
  ASSUME TypeInv, IdInv, NEW k \in Keepers, NEW c \in KeeperForwardConns, KeeperOnConnectionDown(k, c)
  PROVE  c2s' = Drained(c2s, c) /\ UNCHANGED serverStart
<1>1. KeeperOf[Owner(c)] = k /\ ClosesS(c) /\ Linked(c)
  BY DEF KeeperOnConnectionDown, IdInv
<1>2. c2s[c] # <<>> /\ Head(c2s[c]) = FIN
  BY <1>1 DEF ClosesS, Linked, StaysUp
<1>3. \A id \in ServerIds : ~Given(c, id)
  BY <1>1, <1>2, NotGiven
<1>4. \A i \in DOMAIN serverStart[k] : serverStart[k][i].connName # c
  BY <1>1, <1>3, GivenConfigured DEF Given
<1> QED
  BY <1>4 DEF KeeperOnConnectionDown

(* A keeper reports the ids it gives, once, and what the processes it has  *)
(* given them to report.                                                   *)
LEMMA KeeperLists ==
  ASSUME TypeInv, RegInv, IdInv, ListInv, LinksHold, OneKeeperForAll, NEW k \in Keepers, KeeperStep(k), UNCHANGED forwardConns
  PROVE  ListInv'
<1> DEFINE H == "HubKeeperUpdateForwardConns"
           V == Vetted(verified)
<1>0. /\ \A d \in HubConns : d \in Conns /\ d \notin KeeperForwardConns
      /\ \A d \in KeeperForwardConns : d \in Conns /\ d \notin HubConns
      /\ \A d \in HubKeeperConns : d \in HubConns
  BY ConnKinds
<1>a. c2s \in Queues(V) /\ \A d \in Conns : c2s[d] \in Seq(V)
  BY DEF TypeInv, Mail, Queues
<1>b. ASSUME UNCHANGED serverStart PROVE KeepsKnown
  BY <1>b DEF KeepsKnown, Known, Given
<1>c. ASSUME UNCHANGED serverStart, \A d \in HubConns : Thins(c2s[d], c2s'[d], H) PROVE ListInv'
  <2>1. \A l \in Keepers : SameIds(l)
    BY DEF SameIds
  <2> QED
    BY <1>b, <1>c, <2>1, QuietLists
<1>d. ASSUME UNCHANGED serverStart, \A d \in HubConns : c2s'[d] = c2s[d] PROVE ListInv'
  BY <1>c, <1>d, ThinsTrivially
<1>e. ASSUME NEW c \in KeeperForwardConns, NEW t, ReadsS(c, t)
      PROVE  Recv(c2s, c) \in Queues(V) /\ \A d \in HubConns : Recv(c2s, c)[d] = c2s[d]
  <2>1. Recv(c2s, c) \in Queues(V)
    BY <1>0, <1>e, ReadAtServer
  <2>2. \A d \in HubConns : Recv(c2s, c)[d] = c2s[d]
    BY <1>0, <1>a DEF Recv, Queues
  <2> QED
    BY <2>1, <2>2
<1>f. FIN.type # H
  BY DEF FIN
<1>1. ASSUME NEW c \in HubKeeperConns, KeeperConnectHub(k, c) PROVE ListInv'
  <2> DEFINE m == [type |-> "HubConnectionData", servertype |-> "KEEPER", serverid |-> k]
  <2>1. c2s' = [c2s EXCEPT ![c] = <<m>>] /\ UNCHANGED serverStart
    BY <1>1 DEF KeeperConnectHub, Connected
  <2>2. m.type # H
    OBVIOUS
  <2> HIDE DEF m
  <2>3. \A d \in HubConns : c2s'[d] = IF d = c THEN <<m>> ELSE c2s[d]
    BY <1>0, <1>a, <2>1 DEF Queues
  <2>4. \A d \in HubConns : Thins(c2s[d], c2s'[d], H)
    BY <2>2, <2>3, ThinsOne, ThinsTrivially
  <2> QED
    BY <1>c, <2>1, <2>4
<1>2. ASSUME NEW c \in HubKeeperConns, KeeperOnHubConnectionDown(k, c) PROVE ListInv'
  <2>1. c2s' = SendC(c2s, c, FIN) /\ UNCHANGED serverStart
    BY <1>2 DEF KeeperOnHubConnectionDown, CloseC
  <2>2. \A d \in HubConns : c2s'[d] \in {c2s[d], Append(c2s[d], FIN)}
    BY <1>0, <1>a, <2>1 DEF SendC, Queues
  <2>3. \A d \in HubConns : Thins(c2s[d], Append(c2s[d], FIN), H)
    BY <1>0, <1>a, <1>f, ThinsAppend
  <2>4. \A d \in HubConns : Thins(c2s[d], c2s'[d], H)
    BY <2>2, <2>3, ThinsTrivially
  <2> QED
    BY <1>c, <2>1, <2>4
<1>3. ASSUME NEW c \in HubKeeperConns, KeeperOnHubKeeperLogonSession(k, c) PROVE ListInv'
  BY <1>3, <1>d DEF KeeperOnHubKeeperLogonSession, keeperVars
<1>4. ASSUME NEW c \in KeeperForwardConns, KeeperOnConnectionDown(k, c) PROVE ListInv'
  <2>1. c2s' = Drained(c2s, c) /\ UNCHANGED serverStart
    BY <1>4, RefusedGoes
  <2>2. \A d \in HubConns : c2s'[d] = c2s[d]
    BY <1>0, <1>a, <2>1 DEF Drained, Queues
  <2> QED
    BY <1>d, <2>1, <2>2
<1>5. ASSUME NEW c \in KeeperForwardConns, KeeperOnQuery(k, c) PROVE ListInv'
  <2>1. KeeperOf[Owner(c)] = k /\ ReadsS(c, "KeeperQuery")
    BY <1>5 DEF KeeperOnQuery
  <2>2. PICK id \in ServerIds :
           /\ ~isStarted(k, id)
           /\ c2s' = SendC(Recv(c2s, c), keeperHubConn[k], UpdateForwardConns(k, id, "ADD"))
           /\ serverStart' = [serverStart EXCEPT ![k] = setStarted(@, id, TRUE, c)]
    BY <1>5, QueryAnswered
  <2>3. /\ \A d \in KeeperForwardConns : \A j : Given(d, j)' <=> (Given(d, j) \/ (d = c /\ j = id))
        /\ \A d \in KeeperForwardConns : KeeperOf[Owner(d)] = k => ~Given(d, id)
    BY <2>1, <2>2, GivenAppended DEF IdInv
  <2>4. KeepsKnown /\ Known(k, id)' /\ ~Known(k, id)
    BY <2>1, <2>3 DEF KeepsKnown, Known
  <2> QED
    BY <1>e, <2>1, <2>2, <2>4, ReportLists
<1>6. ASSUME NEW c \in KeeperForwardConns, KeeperOnQueryDuplicate(k, c) PROVE ListInv'
  <2>1. c2s' = Recv(c2s, c) /\ UNCHANGED serverStart /\ ReadsS(c, "KeeperQuery")
    BY <1>6 DEF KeeperOnQueryDuplicate, keeperVars
  <2> QED
    BY <1>d, <1>e, <2>1
<1>7. ASSUME NEW c \in KeeperForwardConns, KeeperOnKeeperForwardLogonSessionRet(k, c) PROVE ListInv'
  <2> DEFINE q == Recv(c2s, c)
  <2>1. PICK m : m.type # H /\ c2s' = SendC(q, keeperHubConn[k], m)
    BY <1>7 DEF KeeperOnKeeperForwardLogonSessionRet, KeeperSendToHub
  <2>2. UNCHANGED serverStart /\ ReadsS(c, "KeeperForwardLogonSessionRet")
    BY <1>7 DEF KeeperOnKeeperForwardLogonSessionRet, keeperVars
  <2>3. q \in Queues(V) /\ \A d \in HubConns : q[d] = c2s[d]
    BY <1>e, <2>2
  <2> HIDE DEF q
  <2>4. \A d \in HubConns : c2s'[d] \in {c2s[d], Append(c2s[d], m)}
    BY <1>0, <2>1, <2>3 DEF SendC, Queues
  <2>5. \A d \in HubConns : Thins(c2s[d], Append(c2s[d], m), H)
    BY <1>0, <1>a, <2>1, ThinsAppend
  <2>6. \A d \in HubConns : Thins(c2s[d], c2s'[d], H)
    BY <2>4, <2>5, ThinsTrivially
  <2> QED
    BY <1>c, <2>2, <2>6
<1>8. ASSUME NEW c \in KeeperForwardConns, KeeperOnKeeperForwardUpdateForwardConns(k, c) PROVE ListInv'
  <2> DEFINE R == "KeeperForwardUpdateForwardConns"
             m == Head(c2s[c])
  <2>1. /\ KeeperOf[Owner(c)] = k /\ ReadsS(c, R) /\ UNCHANGED serverStart
        /\ c2s' = SendC(Recv(c2s, c), keeperHubConn[k], UpdateForwardConns(m.keeperserverid, m.forwardserverid, m.oper))
    BY <1>8 DEF KeeperOnKeeperForwardUpdateForwardConns, KeeperSendToHub, keeperVars
  <2>2. m.type = R /\ c2s[c] # <<>>
    BY <2>1 DEF ReadsS
  <2>3. m \in Sent(c2s[c], R)
    BY <1>0, <1>a, <2>2, HeadSent
  <2> HIDE DEF m
  <2>4. m.keeperserverid = k /\ m.oper \in {"INC", "DEC"} /\ Given(c, m.forwardserverid)
    BY <2>1, <2>3 DEF IdInv, Linked, ReportsItself, AboutItself
  <2>5. m.forwardserverid \in ServerIds
    BY <2>4, GivenConfigured
  <2>6. KeepsKnown /\ Known(k, m.forwardserverid)
    BY <1>b, <2>1, <2>4 DEF Known
  <2>7. \E id \in ServerIds : \E oper \in {"ADD", "INC", "DEC"} :
           /\ Known(k, id)' /\ oper # "ADD"
           /\ c2s' = SendC(Recv(c2s, c), keeperHubConn[k], UpdateForwardConns(k, id, oper))
    BY <2>1, <2>4, <2>5, <2>6 DEF KeepsKnown
  <2> QED
    BY <1>e, <2>1, <2>6, <2>7, ReportLists
<1>9. ASSUME KeeperOnQueryDone(k) PROVE ListInv'
  BY <1>9, <1>d DEF KeeperOnQueryDone, netVars
<1>10. ASSUME KeeperRestart(k) PROVE ListInv'
  BY <1>10 DEF KeeperRestart, MayRestart, LinksHold
<1> QED
  BY <1>1, <1>2, <1>3, <1>4, <1>5, <1>6, <1>7, <1>8, <1>9, <1>10 DEF KeeperStep

(* The logon server does not report forward servers. *)
LEMMA LogonLists ==
  ASSUME TypeInv, LogonStep, NEW d \in HubConns
  PROVE  Thins(c2s[d], c2s'[d], "HubKeeperUpdateForwardConns")
<1> USE DEF TypeInv
<1> DEFINE H == "HubKeeperUpdateForwardConns"
           Goal == Thins(c2s[d], c2s'[d], H)
<1>0. /\ \A c \in HubLogonConns : c \in HubConns /\ c \notin LogonConns /\ c \in Conns
      /\ \A c \in LogonConns : c \notin HubConns /\ c \in Conns
      /\ d \in Conns /\ d \notin LogonConns
  BY ConnKinds
<1>a. c2s \in Queues(Vetted(verified)) /\ c2s[d] \in Seq(Vetted(verified))
  BY <1>0 DEF Mail, Queues
<1>c. ASSUME c2s'[d] = c2s[d] PROVE Goal
  BY <1>c, ThinsTrivially
<1>d. ASSUME NEW c, NEW m, m.type # H, c2s' = SendC(c2s, c, m) PROVE Goal
  <2>1. c2s'[d] \in {c2s[d], Append(c2s[d], m)}
    BY <1>0, <1>a, <1>d DEF SendC, Queues
  <2>2. Thins(c2s[d], Append(c2s[d], m), H)
    BY <1>a, <1>d, ThinsAppend
  <2> QED
    BY <2>1, <2>2, ThinsTrivially
<1>1. ASSUME NEW c \in HubLogonConns, LogonConnectHub(c) PROVE Goal
  <2> DEFINE m == [type |-> "HubConnectionData", servertype |-> "LOGON"]
  <2>1. c2s' = [c2s EXCEPT ![c] = <<m>>]
    BY <1>1 DEF LogonConnectHub, Connected
  <2>2. m.type # H
    OBVIOUS
  <2> HIDE DEF m
  <2>3. c2s'[d] \in {<<m>>, c2s[d]}
    BY <1>0, <1>a, <2>1 DEF Queues
  <2> QED
    BY <2>2, <2>3, ThinsOne, ThinsTrivially
<1>2. ASSUME NEW c \in HubLogonConns, LogonOnHubConnectionDown(c) PROVE Goal
  <2>1. c2s' = SendC(c2s, c, FIN) /\ FIN.type # H
    BY <1>2 DEF LogonOnHubConnectionDown, CloseC, FIN
  <2> QED
    BY <1>d, <2>1
<1>3. ASSUME NEW c \in HubLogonConns, LogonOnHubLogonAnswerForwardID(c) PROVE Goal
  BY <1>c, <1>3 DEF LogonOnHubLogonAnswerForwardID
<1>4. ASSUME NEW x \in LogonConns, LogonOnConnectionUp(x) PROVE Goal
  BY <1>c, <1>4 DEF LogonOnConnectionUp
<1>5. ASSUME NEW x \in LogonConns, LogonOnConnectionDown(x) PROVE Goal
  <2>1. c2s'[d] = c2s[d]
    BY <1>0, <1>a, <1>5 DEF LogonOnConnectionDown, Drained, Queues
  <2> QED
    BY <1>c, <2>1
<1>6. ASSUME NEW x \in LogonConns, LogonOnLogon(x) PROVE Goal
  <2>1. c2s'[d] = c2s[d]
    BY <1>0, <1>a, <1>6 DEF LogonOnLogon, Recv, Queues
  <2> QED
    BY <1>c, <2>1
<1>7. ASSUME NEW y \in tasks, LogonQueryAccountMatch(y) PROVE Goal
  <2>1. \E m : m.type # H /\ c2s' = SendC(c2s, logonHubConn, m)
    BY <1>7 DEF LogonQueryAccountMatch, LogonSendToHub
  <2> QED
    BY <1>d, <2>1
<1>8. ASSUME NEW y \in tasks, LogonQueryAccountMismatch(y) PROVE Goal
  BY <1>c, <1>8 DEF LogonQueryAccountMismatch
<1>9. ASSUME NEW y \in tasks, LogonQueryAccountNoConnection(y) PROVE Goal
  BY <1>c, <1>9 DEF LogonQueryAccountNoConnection, netVars
<1>10. ASSUME LogonRestart PROVE Goal
  <2>1. c2s'[d] = c2s[d]
    BY <1>0, <1>10 DEF LogonRestart, Die, Emptied
  <2> QED
    BY <1>c, <2>1
<1> QED
  BY <1>1, <1>2, <1>3, <1>4, <1>5, <1>6, <1>7, <1>8, <1>9, <1>10 DEF LogonStep

-----------------------------------------------------------------------------
(* At the start nothing is listed or reported. *)
LEMMA InitListInv == Init => ListInv
<1> SUFFICES ASSUME Init PROVE ListInv
  OBVIOUS
<1>1. \A c \in HubConns : c2s[c] = <<>>
  BY ConnKinds DEF Init, NetInit
<1>2. \A k \in Keepers : forwardConns[k] = <<>>
  BY DEF Init, HubInit
<1>3. \A c \in HubConns : HubReports(c) = {}
  BY <1>1, EmptyQueue DEF HubReports
<1>4. \A c \in HubConns : \A m : Once(c2s[c], m)
  BY <1>1 DEF Once
<1> QED
  BY <1>2, <1>3, <1>4 DEF ListInv, Reported, AddedOnce, Listing

(* No step of anybody lists an id twice. *)
LEMMA ListInvStep ==
  ASSUME TypeInv, RegInv, IdInv, ListInv, LinksHold, OneKeeperForAll, Next
  PROVE  ListInv'
<1> DEFINE H == "HubKeeperUpdateForwardConns"
<1>0. \A c \in HubConns : /\ c \in Conns /\ c \notin KeeperForwardConns /\ c \notin LogonConns /\ c \notin ForwardConns
  BY ConnKinds
<1>a. ASSUME UNCHANGED <<forwardConns, serverStart>>, \A c \in HubConns : Thins(c2s[c], c2s'[c], H) PROVE ListInv'
  <2>1. KeepsKnown
    BY <1>a DEF KeepsKnown, Known, Given
  <2>2. \A k \in Keepers : SameIds(k)
    BY <1>a DEF SameIds
  <2> QED
    BY <1>a, <2>1, <2>2, QuietLists
<1>1. ASSUME Hub PROVE ListInv'
  BY <1>1, HubLists DEF Hub, keeperVars
<1>2. ASSUME NEW k \in Keepers, Keeper(k) PROVE ListInv'
  BY <1>2, KeeperLists DEF Keeper, hubVars
<1>3. ASSUME NEW p \in Forwards, Forward(p) PROVE ListInv'
  <2>1. ForwardStep(p) /\ UNCHANGED <<forwardConns, serverStart>>
    BY <1>3 DEF Forward, hubVars, keeperVars
  <2>2. \A c \in HubConns : c \notin KeeperConnsOf(p)
    BY <1>0 DEF KeeperConnsOf
  <2>3. \A c \in HubConns : Untouched(c)
    BY <1>0, <2>1, <2>2, ForwardFrame DEF RegInv
  <2>4. \A c \in HubConns : Thins(c2s[c], c2s'[c], H)
    BY <2>3, ThinsTrivially DEF Untouched
  <2> QED
    BY <1>a, <2>1, <2>4
<1>4. ASSUME Logon PROVE ListInv'
  BY <1>4, <1>a, LogonLists DEF Logon, hubVars, keeperVars
<1>5. ASSUME NEW c \in Clients, Client(c) PROVE ListInv'
  <2>1. ClientStep(c) /\ UNCHANGED <<forwardConns, serverStart>>
    BY <1>5 DEF Client, hubVars, keeperVars
  <2>2. LogonConnOf(c) \in LogonConns
    BY DEF LogonConnOf, LogonConns
  <2>3. \A d \in HubConns : Untouched(d)
    BY <1>0, <2>1, <2>2, ClientFrame
  <2>4. \A d \in HubConns : Thins(c2s[d], c2s'[d], H)
    BY <2>3, ThinsTrivially DEF Untouched
  <2> QED
    BY <1>a, <2>1, <2>4
<1>6. ASSUME Network PROVE ListInv'
  <2>1. UNCHANGED <<c2s, forwardConns, serverStart>>
    BY <1>6 DEF Network, Cut, hubVars, keeperVars
  <2> QED
    BY <1>a, <2>1, ThinsTrivially
<1> QED
  BY <1>1, <1>2, <1>3, <1>4, <1>5, <1>6 DEF Next

(* The hub's lists hold ids that a keeper has given out, each once. *)
THEOREM ListedOnce ==
  ASSUME LinksHold, OneKeeperForAll
  PROVE  Spec => []ListInv
<1>1. TypeInv /\ RegInv /\ IdInv /\ ListInv /\ [Next]_vars => ListInv'
  <2> SUFFICES ASSUME TypeInv, RegInv, IdInv, ListInv, [Next]_vars PROVE ListInv'
    OBVIOUS
  <2>1. CASE Next
    BY <2>1, ListInvStep
  <2>2. CASE UNCHANGED vars
    <3>1. UNCHANGED <<c2s, forwardConns, serverStart>>
      BY <2>2 DEF vars, netVars, hubVars, keeperVars
    <3>2. KeepsKnown
      BY <3>1 DEF KeepsKnown, Known, Given
    <3>3. \A k \in Keepers : SameIds(k)
      BY <3>1 DEF SameIds
    <3> QED
      BY <3>1, <3>2, <3>3, QuietLists, ThinsTrivially
  <2> QED
    BY <2>1, <2>2
<1> QED
  BY <1>1, InitListInv, TypeInvariance, Registration, IdsForGood, PTL DEF Spec

(* While the keeper and the forward processes run on and the connections   *)
(* between them hold, the keeper gives each id to one process, so that no  *)
(* forward process aborts in KeeperClient::onAnswer, and the hub lists     *)
(* each id once (HubServer::onHubKeeperUpdateForwardConns), whatever       *)
(* becomes of the hub, the logon server, the clients and their             *)
(* connections.                                                            *)
THEOREM NoIdIsGivenTwice ==
  ASSUME LinksHold, OneKeeperForAll
  PROVE  Spec => []NoIdTwice
<1>1. IdInv /\ ListInv => NoIdTwice
  BY DEF IdInv, Placed, ListInv, Listing, NoIdTwice
<1> QED
  BY <1>1, IdsForGood, ListedOnce, PTL

-----------------------------------------------------------------------------
(* How often m is among the first n messages of q. *)
Places(q, m, n) == {i \in 1..n : q[i] = m}
Count(q, m, n)  == Cardinality(Places(q, m, n))

(* What a message does to a count that x raises and y lowers. *)
Sway(z, x, y) == IF z = x THEN 1 ELSE IF z = y THEN -1 ELSE 0

(* A count of n passes through the messages of q and ends at e, without    *)
(* ever leaving what a uint16_t can hold.                                  *)
Along(n, q, x, y, a) == n + Count(q, x, a) - Count(q, y, a)

Walk(n, q, x, y, e) == /\ \A a \in 0..Len(q) : Along(n, q, x, y, a) \in UInt16
                       /\ e = Along(n, q, x, y, Len(q))

(* Counts are naturals, and no message is among the first zero. *)
LEMMA CountFinite ==
  ASSUME NEW q, NEW m, NEW n \in Nat
  PROVE  /\ IsFiniteSet(Places(q, m, n)) /\ Count(q, m, n) \in Nat
         /\ Count(q, m, 0) = 0
         /\ (\A i \in 1..n : q[i] # m) => Count(q, m, n) = 0
<1>1. Places(q, m, n) \in SUBSET (1..n)
  BY DEF Places
<1>2. IsFiniteSet(1..n)
  BY FS_Interval
<1>3. IsFiniteSet(Places(q, m, n)) /\ Count(q, m, n) \in Nat
  BY <1>1, <1>2, FS_Subset, FS_CardinalityType DEF Count
<1>4. Places(q, m, 0) = {} /\ ((\A i \in 1..n : q[i] # m) => Places(q, m, n) = {})
  BY DEF Places
<1> QED
  BY <1>3, <1>4, FS_EmptySet DEF Count

(* Counting one message more. *)
LEMMA CountUp ==
  ASSUME NEW q, NEW m, NEW n \in Nat
  PROVE  Count(q, m, n + 1) = Count(q, m, n) + IF q[n + 1] = m THEN 1 ELSE 0
<1>0. n + 1 \notin Places(q, m, n)
  BY DEF Places
<1>1. IsFiniteSet(Places(q, m, n)) /\ n + 1 \notin Places(q, m, n)
  BY <1>0, CountFinite
<1>2. CASE q[n + 1] = m
  <2>1. Places(q, m, n + 1) = Places(q, m, n) \cup {n + 1}
    BY <1>2 DEF Places
  <2>2. Cardinality(Places(q, m, n) \cup {n + 1}) = Cardinality(Places(q, m, n)) + 1
    BY <1>1, FS_AddElement
  <2> QED
    BY <1>2, <2>1, <2>2 DEF Count
<1>3. CASE q[n + 1] # m
  <2>1. Places(q, m, n + 1) = Places(q, m, n)
    BY <1>3 DEF Places
  <2>2. Count(q, m, n) \in Nat
    BY CountFinite
  <2> QED
    BY <1>3, <2>1, <2>2 DEF Count
<1> QED
  BY <1>2, <1>3

(* Counting from the second message on. *)
LEMMA CountTail ==
  ASSUME NEW V, NEW q \in Seq(V), q # <<>>, NEW m, NEW n \in Nat, n < Len(q)
  PROVE  Count(q, m, n + 1) = Count(Tail(q), m, n) + IF Head(q) = m THEN 1 ELSE 0
<1> DEFINE r == Tail(q)
           S == Places(r, m, n)
           T == {i \in Places(q, m, n + 1) : i # 1}
           f == [i \in S |-> i + 1]
<1>1. Len(q) \in Nat \ {0} /\ Head(q) = q[1] /\ \A i \in 1..n : r[i] = q[i + 1]
  OBVIOUS
<1> HIDE DEF r
<1>2. IsFiniteSet(S) /\ Cardinality(S) \in Nat
  BY CountFinite DEF Count
<1>3. \A i \in S : i + 1 \in T
  BY <1>1 DEF Places
<1>4. \A j \in T : j - 1 \in S
  BY <1>1 DEF Places
<1>5. S \subseteq Nat /\ T \subseteq Nat
  BY DEF Places
<1> HIDE DEF S, T
<1>6. f \in Bijection(S, T)
  <2>1. f \in [S -> T]
    BY <1>3
  <2>2. \A i, j \in S : f[i] = f[j] => i = j
    BY <1>5
  <2>3. \A j \in T : \E i \in S : f[i] = j
    <3> TAKE j \in T
    <3>1. j - 1 \in S /\ f[j - 1] = j
      BY <1>4, <1>5
    <3> QED
      BY <3>1
  <2> HIDE DEF f
  <2> QED
    BY <2>1, <2>2, <2>3 DEF Bijection, Injection, IsInjective, Surjection
<1>7. IsFiniteSet(T) /\ Cardinality(T) = Cardinality(S)
  BY <1>2, <1>6, FS_Bijection DEF ExistsBijection
<1>8. CASE Head(q) = m
  <2>1. Places(q, m, n + 1) = T \cup {1} /\ 1 \notin T
    BY <1>1, <1>8 DEF T, Places
  <2>2. Cardinality(T \cup {1}) = Cardinality(T) + 1
    BY <1>7, <2>1, FS_AddElement
  <2> QED
    BY <1>7, <1>8, <2>1, <2>2 DEF Count, S, r
<1>9. CASE Head(q) # m
  <2>1. Places(q, m, n + 1) = T
    BY <1>1, <1>9 DEF T, Places
  <2> QED
    BY <1>2, <1>7, <1>9, <2>1 DEF Count, S, r
<1> QED
  BY <1>8, <1>9

(* Where nothing counts, the count stays as it is. *)
LEMMA WalkStill ==
  ASSUME NEW V, NEW q \in Seq(V), NEW n \in UInt16, NEW x, NEW y,
         \A i \in DOMAIN q : q[i] # x /\ q[i] # y
  PROVE  Walk(n, q, x, y, n)
<1>1. Len(q) \in Nat /\ DOMAIN q = 1..Len(q) /\ n \in Int
  BY DEF UInt16
<1>2. ASSUME NEW a \in 0..Len(q) PROVE Count(q, x, a) = 0 /\ Count(q, y, a) = 0
  <2>1. a \in Nat /\ \A i \in 1..a : i \in DOMAIN q
    BY <1>1
  <2> QED
    BY <2>1, CountFinite
<1>3. \A a \in 0..Len(q) : Along(n, q, x, y, a) = n
  BY <1>1, <1>2 DEF Along
<1>4. Len(q) \in 0..Len(q)
  BY <1>1
<1> QED
  BY <1>3, <1>4 DEF Walk

(* Where a walk leads. *)
LEMMA WalkEnds ==
  ASSUME NEW V, NEW q \in Seq(V), NEW n, NEW x, NEW y, NEW e, Walk(n, q, x, y, e), n \in UInt16
  PROVE  e \in UInt16 /\ e + Count(q, y, Len(q)) = n + Count(q, x, Len(q))
<1>1. Len(q) \in Nat /\ Len(q) \in 0..Len(q) /\ n \in Int
  BY DEF UInt16
<1>2. Count(q, x, Len(q)) \in Nat /\ Count(q, y, Len(q)) \in Nat
  BY <1>1, CountFinite
<1> QED
  BY <1>1, <1>2 DEF Walk, Along

(* A message that is sent takes the end of the walk on. *)
LEMMA WalkAppend ==
  ASSUME NEW V, NEW q \in Seq(V), NEW z, NEW n \in UInt16, NEW x, NEW y, x # y, NEW e,
         Walk(n, q, x, y, e), e + Sway(z, x, y) \in UInt16
  PROVE  Walk(n, Append(q, z), x, y, e + Sway(z, x, y))
<1> DEFINE r == Append(q, z)
           l == Len(q)
<1>1. l \in Nat /\ Len(r) = l + 1 /\ r[l + 1] = z /\ \A i \in 1..l : r[i] = q[i]
  OBVIOUS
<1> HIDE DEF r, l
<1>2. \A m : \A a \in 0..l : Count(r, m, a) = Count(q, m, a) /\ Count(q, m, a) \in Nat
  <2> SUFFICES ASSUME NEW m, NEW a \in 0..l PROVE Count(r, m, a) = Count(q, m, a) /\ Count(q, m, a) \in Nat
    OBVIOUS
  <2>1. Places(r, m, a) = Places(q, m, a)
    BY <1>1 DEF Places
  <2> QED
    BY <1>1, <2>1, CountFinite DEF Count
<1>3. \A m : Count(r, m, l + 1) = Count(q, m, l) + IF z = m THEN 1 ELSE 0
  <2>1. l \in 0..l
    BY <1>1
  <2> QED
    BY <1>1, <1>2, <2>1, CountUp
<1>4. \A a \in 0..l : Along(n, r, x, y, a) = Along(n, q, x, y, a)
  BY <1>2 DEF Along
<1>5. Along(n, r, x, y, l + 1) = e + Sway(z, x, y)
  <2>1. e = n + Count(q, x, l) - Count(q, y, l) /\ Count(q, x, l) \in Nat /\ Count(q, y, l) \in Nat /\ n \in Int
    BY <1>1, <1>2 DEF Walk, Along, l, UInt16
  <2>2. Count(r, x, l + 1) = Count(q, x, l) + IF z = x THEN 1 ELSE 0
    BY <1>3
  <2>3. Count(r, y, l + 1) = Count(q, y, l) + IF z = y THEN 1 ELSE 0
    BY <1>3
  <2> QED
    BY <2>1, <2>2, <2>3 DEF Along, Sway
<1>6. \A a \in 0..(l + 1) : a \in 0..l \/ a = l + 1
  BY <1>1
<1>7. \A a \in 0..(l + 1) : Along(n, r, x, y, a) \in UInt16
  BY <1>4, <1>5, <1>6 DEF Walk, l
<1>8. Walk(n, r, x, y, e + Sway(z, x, y))
  BY <1>1, <1>5, <1>7 DEF Walk
<1> QED
  BY <1>8 DEF r

(* A message that is read takes the start of the walk on. *)
LEMMA WalkTail ==
  ASSUME NEW V, NEW q \in Seq(V), q # <<>>, NEW n \in UInt16, NEW x, NEW y, x # y, NEW e, Walk(n, q, x, y, e)
  PROVE  /\ n + Sway(Head(q), x, y) \in UInt16
         /\ Walk(n + Sway(Head(q), x, y), Tail(q), x, y, e)
<1> DEFINE r == Tail(q)
           l == Len(q) - 1
           s == Sway(Head(q), x, y)
<1>1. Len(q) \in Nat /\ l \in Nat /\ Len(r) = l /\ l + 1 = Len(q)
  OBVIOUS
<1>2. ASSUME NEW a \in 0..l PROVE Along(n + s, r, x, y, a) = Along(n, q, x, y, a + 1) /\ a + 1 \in 0..Len(q)
  <2>1. a \in Nat /\ a < Len(q) /\ a + 1 \in 0..Len(q)
    BY <1>1
  <2>2. \A m : Count(q, m, a + 1) = Count(r, m, a) + IF Head(q) = m THEN 1 ELSE 0
    BY <2>1, CountTail
  <2> HIDE DEF r
  <2>3. Count(r, x, a) \in Nat /\ Count(r, y, a) \in Nat /\ n \in Int
    BY <2>1, CountFinite DEF UInt16
  <2>4. Count(q, x, a + 1) = Count(r, x, a) + IF Head(q) = x THEN 1 ELSE 0
    BY <2>2
  <2>5. Count(q, y, a + 1) = Count(r, y, a) + IF Head(q) = y THEN 1 ELSE 0
    BY <2>2
  <2>6. (IF Head(q) = x THEN 1 ELSE 0) - (IF Head(q) = y THEN 1 ELSE 0) = s /\ s \in Int
    BY DEF Sway
  <2> HIDE DEF s
  <2> QED
    BY <2>1, <2>3, <2>4, <2>5, <2>6, SMTT(30) DEF Along
<1> HIDE DEF r, l, s
<1>3. \A a \in 0..l : Along(n + s, r, x, y, a) \in UInt16
  BY <1>2 DEF Walk
<1>4. Along(n + s, r, x, y, l) = e
  BY <1>1, <1>2 DEF Walk
<1>5. n + s \in UInt16
  <2>1. 0 \in 0..l /\ 0 \in Nat
    BY <1>1
  <2>2. Count(r, x, 0) = 0 /\ Count(r, y, 0) = 0
    BY <2>1, CountFinite
  <2>3. n + s \in Int
    BY DEF UInt16, s, Sway
  <2> QED
    BY <1>3, <2>1, <2>2, <2>3 DEF Along
<1>6. Walk(n + s, r, x, y, e)
  BY <1>1, <1>3, <1>4 DEF Walk
<1> QED
  BY <1>5, <1>6 DEF r, s

-----------------------------------------------------------------------------
(* The hub is not restarted and no connection of a keeper to it is cut. *)
HubHolds == FaultKinds \cap {"hub", "hubkeeper"} = {}

(* The only connection keeper k then makes to the hub. *)
HubOf(k) == <<"hubkeeper", k, 1>>

(* A keeper's connection to the hub is not made yet, or it is the one the  *)
(* keeper has registered, and stays.                                       *)
Steady(c) == /\ ~lost[c]
             /\ cli[c] \in {"none", "up"}
             /\ cli[c] = "none" => srv[c] = "none" /\ c2s[c] = <<>> /\ s2c[c] = <<>>
             /\ cli[c] = "up" => Firm(c) /\ keeperHubConn[Owner(c)] = c /\ c = HubOf(Owner(c))

(* A client connection that nobody listened for is not accepted. *)
Unmet(x) == peer[x] = Nobody => srv[x] = "none"

SteadyInv == /\ \A c \in HubKeeperConns : Steady(c)
             /\ \A x \in ForwardConns : Unmet(x)

(* A step that closes neither end of c and sends no FIN. *)
LEMMA SteadyOn ==
  ASSUME NEW c, Steady(c), cli'[c] = cli[c], srv'[c] = srv[c], lost'[c] = lost[c],
         keeperHubConn'[Owner(c)] = keeperHubConn[Owner(c)],
         Sent(c2s'[c], "FIN") \subseteq Sent(c2s[c], "FIN"), Sent(s2c'[c], "FIN") \subseteq Sent(s2c[c], "FIN"),
         cli[c] = "none" => c2s'[c] = c2s[c] /\ s2c'[c] = s2c[c]
  PROVE  Steady(c)'
<1>1. Firm(c) => Firm(c)'
  BY DEF Firm
<1> QED
  BY <1>1 DEF Steady

(* A connection that stays is not found closed at either end. *)
LEMMA SteadyStays ==
  ASSUME TypeInv, NEW c \in HubKeeperConns, Steady(c)
  PROVE  ~ClosesS(c) /\ ~ClosesC(c)
<1>1. c2s[c] \in Seq(Vetted(verified)) /\ s2c[c] \in Seq(Vetted(verified))
  BY ConnKinds DEF TypeInv, Mail, Queues
<1>2. /\ c2s[c] # <<>> => Head(c2s[c]) \in Sent(c2s[c], Head(c2s[c]).type)
      /\ s2c[c] # <<>> => Head(s2c[c]) \in Sent(s2c[c], Head(s2c[c]).type)
  BY <1>1, HeadSent
<1>3. FIN.type = "FIN"
  BY DEF FIN
<1> QED
  BY <1>2, <1>3 DEF Steady, Firm, ClosesS, ClosesC, Open

(* The hub closes no connection of a keeper. *)
LEMMA HubSteady ==
  ASSUME TypeInv, HubHolds, HubStep, UNCHANGED keeperHubConn, NEW d \in HubKeeperConns,
         \A c \in HubKeeperConns : Steady(c)
  PROVE  Steady(d)'
<1> DEFINE V == Vetted(verified)
<1>0. d \in Conns /\ d \in HubConns /\ d # NoConn /\ Steady(d) /\ \A c \in HubConns : c \in Conns
  BY ConnKinds, NoConnNotConn
<1>a. c2s \in Queues(V) /\ s2c \in Queues(V) /\ c2s[d] \in Seq(V) /\ s2c[d] \in Seq(V) /\ srv \in [Conns -> EndState]
  BY <1>0 DEF TypeInv, Mail, Ends, Queues
<1>b. ASSUME NEW c \in HubConns, NEW t, ReadsS(c, t), c2s' = Recv(c2s, c), UNCHANGED <<cli, srv, lost>>,
             s2c' = s2c \/ \E e, m : m.type # "FIN" /\ s2c' = SendS(s2c, e, m)
      PROVE  Steady(d)'
  <2>1. c2s'[d] = IF c = d THEN Tail(c2s[d]) ELSE c2s[d]
    BY <1>0, <1>a, <1>b DEF Recv, Queues
  <2>2. c = d => c2s[d] # <<>> /\ srv[d] \in Open
    BY <1>b DEF ReadsS
  <2>3. Sent(c2s'[d], "FIN") \subseteq Sent(c2s[d], "FIN")
    BY <1>a, <2>1, <2>2, SentTail
  <2>4. Sent(s2c'[d], "FIN") \subseteq Sent(s2c[d], "FIN") /\ (cli[d] = "none" => s2c'[d] = s2c[d])
    <3>1. CASE s2c' = s2c
      BY <3>1
    <3>2. ASSUME NEW e, NEW m, m.type # "FIN", s2c' = SendS(s2c, e, m)
          PROVE  Sent(s2c'[d], "FIN") \subseteq Sent(s2c[d], "FIN") /\ (cli[d] = "none" => s2c'[d] = s2c[d])
      <4>0. s2c \in Queues(V) /\ d \in Conns
        BY <1>0, <1>a
      <4> HIDE DEF V
      <4>1. Sent(s2c'[d], "FIN") = Sent(s2c[d], "FIN")
        <5>1. Sent(SendS(s2c, e, m)[d], "FIN") = Sent(s2c[d], "FIN")
          BY <3>2, <4>0, SentOther
        <5> QED
          BY <3>2, <5>1
      <4>2. srv[d] = "none" => s2c'[d] = s2c[d]
        BY <1>0, <1>a, <3>2 DEF SendS, CanSendS, Queues
      <4> QED
        BY <1>0, <4>1, <4>2 DEF Steady
    <3> QED
      BY <1>b, <3>1, <3>2
  <2>5. cli[d] = "none" => c2s'[d] = c2s[d]
    BY <1>0, <2>1, <2>2 DEF Steady, Open
  <2> QED
    BY <1>0, <1>b, <2>3, <2>4, <2>5, SteadyOn
<1>1. ASSUME NEW c \in HubConns, HubOnConnectionDown(c) PROVE Steady(d)'
  <2>1. ClosesS(c) /\ CloseS(c) /\ c2s' = Drained(c2s, c) /\ UNCHANGED <<cli, lost>>
    BY <1>1 DEF HubOnConnectionDown
  <2>2. c # d
    BY <1>0, <2>1, SteadyStays
  <2>3. c2s'[d] = c2s[d] /\ s2c'[d] = s2c[d] /\ srv'[d] = srv[d]
    BY <1>0, <1>a, <2>1, <2>2 DEF CloseS, SendS, Drained, Queues
  <2> QED
    BY <1>0, <2>1, <2>3, SteadyOn
<1>2. ASSUME NEW c \in HubConns, HubOnHubConnectionData(c) PROVE Steady(d)'
  BY <1>2, <1>b DEF HubOnHubConnectionData
<1>3. ASSUME NEW c \in HubConns, HubOnHubKeeperLogonSessionRet(c) PROVE Steady(d)'
  <2>1. \E e, m : m.type # "FIN" /\ s2c' = SendS(s2c, e, m)
    BY <1>3 DEF HubOnHubKeeperLogonSessionRet, HubSendToLogon
  <2> QED
    BY <1>3, <1>b, <2>1 DEF HubOnHubKeeperLogonSessionRet
<1>4. ASSUME NEW c \in HubConns, HubOnHubKeeperUpdateForwardConns(c) PROVE Steady(d)'
  BY <1>4, <1>b DEF HubOnHubKeeperUpdateForwardConns
<1>5. ASSUME NEW c \in HubConns, HubOnHubLogonQueryForwardID(c) PROVE Steady(d)'
  <2>1. s2c' = s2c \/ \E e, m : m.type # "FIN" /\ s2c' = SendS(s2c, e, m)
    BY <1>5 DEF HubOnHubLogonQueryForwardID, HubSendToKeeper
  <2> QED
    BY <1>5, <1>b, <2>1 DEF HubOnHubLogonQueryForwardID
<1>6. ASSUME HubRestart PROVE Steady(d)'
  BY <1>6 DEF HubRestart, MayRestart, HubHolds
<1> QED
  BY <1>1, <1>2, <1>3, <1>4, <1>5, <1>6 DEF HubStep

(* A keeper connects to the hub once. *)
LEMMA ConnectsOnce ==
  ASSUME TypeInv, NEW k \in Keepers, NEW c \in HubKeeperConns, KeeperConnectHub(k, c),
         \A d \in HubKeeperConns : Steady(d)
  PROVE  c = HubOf(k) /\ cli[c] = "none"
<1>1. Owner(c) = k /\ MayConnect(c)
  BY DEF KeeperConnectHub, Connected
<1>2. c = <<"hubkeeper", k, c[3]>> /\ c[3] \in 1..MaxConn /\ Kind(c) = "hubkeeper"
  BY <1>1 DEF HubKeeperConns, Owner, Kind
<1>3. HubOf(k) \in HubKeeperConns
  BY NetAssumption DEF HubOf, HubKeeperConns
<1>4. c[3] = 1
  <2> SUFFICES ASSUME c[3] # 1 PROVE FALSE
    OBVIOUS
  <2>1. 1 \in 1..(c[3] - 1)
    BY <1>2, NetAssumption
  <2>2. cli[HubOf(k)] = "down"
    BY <1>1, <1>2, <2>1 DEF MayConnect, HubOf
  <2> QED
    BY <1>3, <2>2 DEF Steady
<1> QED
  BY <1>1, <1>2, <1>4 DEF MayConnect, HubOf

(* Nor does a keeper close its connection to the hub. *)
LEMMA KeeperSteady ==
  ASSUME TypeInv, RegInv, LinksHold, NEW k \in Keepers, KeeperStep(k), NEW d \in HubKeeperConns,
         \A c \in HubKeeperConns : Steady(c)
  PROVE  Steady(d)'
<1> DEFINE V == Vetted(verified)
<1>0. /\ d \in Conns /\ d # NoConn /\ Steady(d) /\ Owner(d) \in Keepers
      /\ \A c \in HubKeeperConns : c \in Conns
      /\ \A c \in KeeperForwardConns : c \in Conns /\ c # d
  BY ConnKinds, NoConnNotConn DEF Owner
<1>a. /\ c2s \in Queues(V) /\ s2c \in Queues(V) /\ c2s[d] \in Seq(V) /\ s2c[d] \in Seq(V)
      /\ srv \in [Conns -> EndState] /\ cli \in [Conns -> EndState]
      /\ keeperHubConn \in [Keepers -> HubKeeperConns \cup {NoConn}]
  BY <1>0 DEF TypeInv, Mail, Ends, Queues, KeeperTypeOK, Opt
<1>b. ASSUME NEW c \in KeeperForwardConns, NEW e, NEW m, m.type # "FIN", c2s[c] # <<>>,
             c2s' = SendC(Recv(c2s, c), e, m) \/ c2s' = Recv(c2s, c),
             UNCHANGED <<cli, lost, keeperHubConn>>, srv'[d] = srv[d], s2c'[d] = s2c[d]
      PROVE  Steady(d)'
  <2>1. Recv(c2s, c) \in Queues(V) /\ Recv(c2s, c)[d] = c2s[d]
    BY <1>0, <1>a, <1>b, RecvType DEF Recv, Queues
  <2>2. c2s'[d] = c2s[d] \/ (c2s'[d] = Append(c2s[d], m) /\ cli[d] = "up")
    BY <1>0, <1>b, <2>1 DEF SendC, CanSendC, Queues
  <2>3. Sent(Append(c2s[d], m), "FIN") = Sent(c2s[d], "FIN")
    BY <1>a, <1>b, SentAppend
  <2>4. Sent(c2s'[d], "FIN") = Sent(c2s[d], "FIN")
    BY <2>2, <2>3
  <2> QED
    BY <1>0, <1>b, <2>2, <2>4, SteadyOn
<1>1. ASSUME NEW c \in HubKeeperConns, KeeperConnectHub(k, c) PROVE Steady(d)'
  <2> DEFINE m == [type |-> "HubConnectionData", servertype |-> "KEEPER", serverid |-> k]
  <2>1. /\ cli' = [cli EXCEPT ![c] = "up"] /\ c2s' = [c2s EXCEPT ![c] = <<m>>] /\ srv' = [srv EXCEPT ![c] = "up"]
        /\ keeperHubConn' = [keeperHubConn EXCEPT ![k] = c] /\ UNCHANGED <<s2c, lost>> /\ Owner(c) = k
    BY <1>1 DEF KeeperConnectHub, Connected
  <2>2. c = HubOf(k) /\ cli[c] = "none" /\ Steady(c)
    BY <1>1, ConnectsOnce
  <2>3. m.type # "FIN"
    OBVIOUS
  <2> HIDE DEF m
  <2>4. CASE d = c
    <3>1. /\ cli'[c] = "up" /\ srv'[c] = "up" /\ c2s'[c] = <<m>> /\ s2c'[c] = <<>>
          /\ keeperHubConn'[k] = c
      BY <1>0, <1>a, <2>1, <2>2, <2>4 DEF Queues, Steady
    <3>2. Sent(<<m>>, "FIN") = {} /\ Sent(<<>>, "FIN") = {}
      BY <2>3, SentOne
    <3>3. Firm(c)'
      BY <3>1, <3>2 DEF Firm
    <3> QED
      BY <2>1, <2>2, <2>4, <3>1, <3>3 DEF Steady
  <2>5. CASE d # c
    <3>1. cli'[d] = cli[d] /\ srv'[d] = srv[d] /\ c2s'[d] = c2s[d] /\ s2c'[d] = s2c[d] /\ lost'[d] = lost[d]
      BY <1>0, <1>a, <2>1, <2>5 DEF Queues
    <3>2. CASE Owner(d) # k
      <4>1. keeperHubConn'[Owner(d)] = keeperHubConn[Owner(d)]
        BY <1>0, <1>a, <2>1, <3>2
      <4> QED
        BY <1>0, <3>1, <4>1, SteadyOn
    <3>3. CASE Owner(d) = k
      <4>1. cli[d] = "none"
        BY <1>0, <2>2, <2>5, <3>3 DEF Steady
      <4> QED
        BY <1>0, <3>1, <4>1 DEF Steady
    <3> QED
      BY <3>2, <3>3
  <2> QED
    BY <2>4, <2>5
<1>2. ASSUME NEW c \in HubKeeperConns, KeeperOnHubConnectionDown(k, c) PROVE Steady(d)'
  BY <1>2, SteadyStays DEF KeeperOnHubConnectionDown
<1>3. ASSUME NEW c \in HubKeeperConns, KeeperOnHubKeeperLogonSession(k, c) PROVE Steady(d)'
  <2> DEFINE q == Recv(s2c, c)
             id == Head(s2c[c]).forwardserverid
             e == conns[k][id]
  <2>1. PICK m : m.type # "FIN" /\ s2c' = SendS(q, e, m)
    BY <1>3 DEF KeeperOnHubKeeperLogonSession, KeeperSendToForward
  <2>2. UNCHANGED <<cli, srv, c2s, lost, keeperHubConn>> /\ cli[c] \in Open /\ s2c[c] # <<>>
        /\ ReadsC(c, "HubKeeperLogonSession")
    BY <1>3 DEF KeeperOnHubKeeperLogonSession, keeperVars, ReadsC
  <2>3. q \in Queues(V) /\ q[d] = IF d = c THEN Tail(s2c[d]) ELSE s2c[d]
    BY <1>0, <1>a, <2>2, RecvType DEF Recv, Queues
  <2>4. e # d
    <3>1. Head(s2c[c]) \in V /\ Head(s2c[c]).type = "HubKeeperLogonSession"
      BY <1>0, <2>2, ReadAtClient
    <3>2. id \in ServerIds
      BY <3>1, MessageFields
    <3> QED
      BY <1>0, <3>2 DEF TypeInv, KeeperTypeOK, Opt
  <2> HIDE DEF q, e
  <2>5. s2c'[d] = IF d = c THEN Tail(s2c[d]) ELSE s2c[d]
    BY <1>0, <2>1, <2>3, <2>4 DEF SendS, Queues
  <2>6. Sent(s2c'[d], "FIN") \subseteq Sent(s2c[d], "FIN")
    BY <1>a, <2>2, <2>5, SentTail
  <2>7. cli[d] = "none" => s2c'[d] = s2c[d]
    BY <2>2, <2>5 DEF Open
  <2> QED
    BY <1>0, <2>2, <2>6, <2>7, SteadyOn
<1>4. ASSUME NEW c \in KeeperForwardConns, KeeperOnConnectionDown(k, c) PROVE Steady(d)'
  <2>1. PICK m : m.type # "FIN" /\ (c2s' = Drained(c2s, c) \/ c2s' = SendC(Drained(c2s, c), keeperHubConn[k], m))
    <3>1. \A id : UpdateForwardConns(k, id, "REMOVE").type # "FIN"
      BY DEF UpdateForwardConns
    <3> QED
      BY <1>4, <3>1 DEF KeeperOnConnectionDown, KeeperSendToHub
  <2>2. CloseS(c) /\ UNCHANGED <<cli, lost, keeperHubConn>>
    BY <1>4 DEF KeeperOnConnectionDown
  <2>3. srv'[d] = srv[d] /\ s2c'[d] = s2c[d]
    BY <1>0, <1>a, <2>2 DEF CloseS, SendS, Queues
  <2>4. Drained(c2s, c) \in Queues(V) /\ Drained(c2s, c)[d] = c2s[d]
    BY <1>0, <1>a, DrainedType DEF Drained, Queues
  <2>5. c2s'[d] = c2s[d] \/ (c2s'[d] = Append(c2s[d], m) /\ cli[d] = "up")
    BY <1>0, <2>1, <2>4 DEF SendC, CanSendC, Queues
  <2>6. Sent(Append(c2s[d], m), "FIN") = Sent(c2s[d], "FIN")
    BY <1>a, <2>1, SentAppend
  <2>7. Sent(c2s'[d], "FIN") = Sent(c2s[d], "FIN")
    BY <2>5, <2>6
  <2> QED
    BY <1>0, <2>2, <2>3, <2>5, <2>7, SteadyOn
<1>5. ASSUME NEW c \in KeeperForwardConns, KeeperOnQuery(k, c) PROVE Steady(d)'
  <2>1. PICK id \in ServerIds : /\ s2c' = SendS(s2c, c, Answer(k, id))
                                /\ c2s' = SendC(Recv(c2s, c), keeperHubConn[k], UpdateForwardConns(k, id, "ADD"))
    BY <1>5, QueryAnswered
  <2>2. UNCHANGED <<cli, srv, lost, keeperHubConn>> /\ c2s[c] # <<>>
    BY <1>5 DEF KeeperOnQuery, ReadsS
  <2>3. s2c'[d] = s2c[d]
    BY <1>0, <1>a, <2>1 DEF SendS, Queues
  <2>4. UpdateForwardConns(k, id, "ADD").type # "FIN"
    BY DEF UpdateForwardConns
  <2> QED
    BY <1>b, <2>1, <2>2, <2>3, <2>4
<1>6. ASSUME NEW c \in KeeperForwardConns, KeeperOnQueryDuplicate(k, c) PROVE Steady(d)'
  <2>1. ShutdownS(c, s2c) /\ c2s' = Recv(c2s, c) /\ UNCHANGED <<cli, lost, keeperHubConn>> /\ c2s[c] # <<>>
    BY <1>6 DEF KeeperOnQueryDuplicate, ReadsS, keeperVars
  <2>2. srv'[d] = srv[d] /\ s2c'[d] = s2c[d]
    BY <1>0, <1>a, <2>1 DEF ShutdownS, SendS, Queues
  <2>3. [type |-> "none"].type # "FIN"
    OBVIOUS
  <2> QED
    BY <1>b, <2>1, <2>2, <2>3
<1>7. ASSUME NEW c \in KeeperForwardConns, KeeperOnKeeperForwardLogonSessionRet(k, c) PROVE Steady(d)'
  <2>1. PICK m : m.type # "FIN" /\ c2s' = SendC(Recv(c2s, c), keeperHubConn[k], m)
    BY <1>7 DEF KeeperOnKeeperForwardLogonSessionRet, KeeperSendToHub
  <2>2. UNCHANGED <<cli, srv, s2c, lost, keeperHubConn>> /\ c2s[c] # <<>>
    BY <1>7 DEF KeeperOnKeeperForwardLogonSessionRet, ReadsS, keeperVars
  <2> QED
    BY <1>b, <2>1, <2>2
<1>8. ASSUME NEW c \in KeeperForwardConns, KeeperOnKeeperForwardUpdateForwardConns(k, c) PROVE Steady(d)'
  <2>1. PICK m : m.type # "FIN" /\ c2s' = SendC(Recv(c2s, c), keeperHubConn[k], m)
    BY <1>8 DEF KeeperOnKeeperForwardUpdateForwardConns, KeeperSendToHub, UpdateForwardConns
  <2>2. UNCHANGED <<cli, srv, s2c, lost, keeperHubConn>> /\ c2s[c] # <<>>
    BY <1>8 DEF KeeperOnKeeperForwardUpdateForwardConns, ReadsS, keeperVars
  <2> QED
    BY <1>b, <2>1, <2>2
<1>9. ASSUME KeeperOnQueryDone(k) PROVE Steady(d)'
  BY <1>0, <1>9, SteadyOn DEF KeeperOnQueryDone, netVars
<1>10. ASSUME KeeperRestart(k) PROVE Steady(d)'
  BY <1>10 DEF KeeperRestart, MayRestart, LinksHold
<1> QED
  BY <1>1, <1>2, <1>3, <1>4, <1>5, <1>6, <1>7, <1>8, <1>9, <1>10 DEF KeeperStep

(* The connections of clients that process p has open. *)
OpenAt(p) == {x \in ForwardConns : peer[x] = p /\ srv[x] \in Open}

(* A step that opens and closes no accepting end of x. *)
SameEnd(x) == /\ srv'[x] \in Open <=> srv[x] \in Open
              /\ srv[x] = "none" => srv'[x] = "none"

(* A forward process opens and closes connections of clients only in       *)
(* ForwardServer::onConnection.                                            *)
LEMMA ForwardOpens ==
  ASSUME TypeInv, IdInv, LinksHold, NEW p \in Forwards, ForwardStep(p)
  PROVE  /\ peer' = peer
         /\ \/ \A x \in ForwardConns : SameEnd(x)
            \/ \E x \in ForwardConns : ForwardOnConnectionUp(p, x) \/ ForwardOnConnectionDown(p, x)
<1> DEFINE Goal == /\ peer' = peer
                   /\ \/ \A x \in ForwardConns : SameEnd(x)
                      \/ \E x \in ForwardConns : ForwardOnConnectionUp(p, x) \/ ForwardOnConnectionDown(p, x)
<1>0. /\ \A x \in ForwardConns : x \in Conns /\ x \notin KeeperForwardConns
      /\ \A c \in KeeperConnsOf(p) : c \in KeeperForwardConns
      /\ srv \in [Conns -> EndState]
  BY ConnKinds DEF KeeperConnsOf, TypeInv, Ends
<1>a. ASSUME peer' = peer, \A x \in ForwardConns : srv'[x] = srv[x] PROVE Goal
  BY <1>a DEF SameEnd
<1>1. ASSUME NEW c \in KeeperConnsOf(p), ForwardConnectKeeper(p, c) PROVE Goal
  BY <1>0, <1>1, <1>a DEF ForwardConnectKeeper
<1>2. ASSUME NEW c \in KeeperConnsOf(p), ForwardOnKeeperConnectionDown(p, c) PROVE Goal
  BY <1>2, <1>a DEF ForwardOnKeeperConnectionDown
<1>3. ASSUME NEW c \in KeeperConnsOf(p), ForwardOnAnswer(p, c) PROVE Goal
  <2>1. ReadsC(c, "KeeperAnswer") /\ srv' = Killed(srv, ClientConnsOf(p)) /\ peer' = peer
    BY <1>3 DEF ForwardOnAnswer
  <2>2. \A x \in ClientConnsOf(p) : srv[x] = "down"
    BY <2>1, AnswerRead
  <2>3. \A x \in ForwardConns : srv'[x] = srv[x]
    BY <1>0, <2>1, <2>2 DEF Killed
  <2> QED
    BY <1>a, <2>1, <2>3
<1>4. ASSUME NEW c \in KeeperConnsOf(p), ForwardOnAnswerAbort(p, c) PROVE Goal
  <2>1. ReadsC(c, "KeeperAnswer") /\ (PortTaken(Head(s2c[c]).serverid) \/ \E x \in ClientConnsOf(p) : srv[x] = "shut")
    BY <1>4 DEF ForwardOnAnswerAbort
  <2> QED
    BY <2>1, AnswerRead
<1>5. ASSUME NEW c \in KeeperConnsOf(p), ForwardOnKeeperForwardLogonSession(p, c) PROVE Goal
  BY <1>5, <1>a DEF ForwardOnKeeperForwardLogonSession
<1>6. ASSUME NEW x \in ForwardConns, ForwardOnConnectionUp(p, x) PROVE Goal
  BY <1>6 DEF ForwardOnConnectionUp, forwardVars
<1>7. ASSUME NEW x \in ForwardConns, ForwardOnConnectionDown(p, x) PROVE Goal
  BY <1>7 DEF ForwardOnConnectionDown, forwardVars
<1>8. ASSUME NEW x \in ForwardConns, ForwardOnLogonForward(p, x) PROVE Goal
  BY <1>8, <1>a DEF ForwardOnLogonForward
<1>9. ASSUME ForwardCheckLogonForwardSession(p) PROVE Goal
  <2> DEFINE y == Head(checks[p]).conn
  <2>1. peer' = peer /\ (UNCHANGED srv \/ ShutdownS(y, s2c))
    BY <1>9 DEF ForwardCheckLogonForwardSession
  <2> HIDE DEF y
  <2>2. \A x \in ForwardConns : srv'[x] = srv[x] \/ (srv[x] = "up" /\ srv'[x] = "shut")
    BY <1>0, <2>1 DEF ShutdownS
  <2> QED
    BY <2>1, <2>2 DEF SameEnd, Open
<1>10. ASSUME ForwardDanglingCheck(p) PROVE Goal
  <2>1. checks[p] \in Seq(Check) /\ checks[p] # <<>> /\ ~Head(checks[p]).live
    BY <1>10 DEF ForwardDanglingCheck, TypeInv, ForwardTypeOK
  <2>2. 1 \in DOMAIN checks[p] /\ checks[p][1] = Head(checks[p])
    BY <2>1
  <2>3. checks[p][1].live
    BY <2>2 DEF IdInv, Placed
  <2> QED
    BY <2>1, <2>2, <2>3
<1>11. ASSUME ForwardRestart(p) PROVE Goal
  BY <1>11 DEF ForwardRestart, MayRestart, LinksHold
<1> QED
  BY <1>1, <1>2, <1>3, <1>4, <1>5, <1>6, <1>7, <1>8, <1>9, <1>10, <1>11 DEF ForwardStep

(* A client that connects is not counted before it is accepted. *)
LEMMA ClientOpens ==
  ASSUME TypeInv, \A x \in ForwardConns : Unmet(x), NEW c \in Clients, ClientStep(c)
  PROVE  /\ \A x \in ForwardConns : Unmet(x)'
         /\ \A p \in Forwards : OpenAt(p)' = OpenAt(p)
<1>0. \A x \in ForwardConns : srv'[x] = srv[x]
  BY ConnKinds, ClientFrame
<1>1. CASE peer' = peer
  <2>1. \A x \in ForwardConns : Unmet(x)'
    BY <1>0, <1>1 DEF Unmet
  <2>2. \A p \in Forwards : OpenAt(p)' = OpenAt(p)
    BY <1>0, <1>1 DEF OpenAt
  <2> QED
    BY <2>1, <2>2
<1>2. ASSUME NEW p \in Forwards, ForwardClientConnect(c, p)
      PROVE  /\ \A x \in ForwardConns : Unmet(x)'
             /\ \A r \in Forwards : OpenAt(r)' = OpenAt(r)
  <2> DEFINE y == forwardClient[c].conn
  <2>1. peer' = [peer EXCEPT ![y] = p] /\ cli[y] = "none" /\ forwardClient[c] # NoClient
    BY <1>2 DEF ForwardClientConnect
  <2>2. y \in ForwardConns
    BY <2>1 DEF TypeInv, ClientTypeOK, Opt
  <2>3. peer \in [ForwardConns -> Forwards \cup {Nobody}]
    BY DEF TypeInv, ForwardTypeOK, Opt
  <2> HIDE DEF y
  <2>4. peer[y] = Nobody /\ srv[y] = "none"
    BY <2>1, <2>2, <2>3 DEF TypeInv, WellFormed, ServedByServer, Unmet
  <2>5. \A x \in ForwardConns : peer'[x] = IF x = y THEN p ELSE peer[x]
    BY <2>1, <2>3
  <2>6. \A x \in ForwardConns : Unmet(x)'
    BY <1>0, <2>4, <2>5 DEF Unmet
  <2>7. ASSUME NEW r \in Forwards, NEW x \in ForwardConns
        PROVE  peer'[x] = r /\ srv'[x] \in Open <=> peer[x] = r /\ srv[x] \in Open
    BY <1>0, <2>4, <2>5 DEF Open
  <2>8. \A r \in Forwards : OpenAt(r)' = OpenAt(r)
    BY <2>7 DEF OpenAt
  <2> QED
    BY <2>6, <2>8
<1>3. peer' = peer \/ \E p \in Forwards : ForwardClientConnect(c, p)
  BY DEF ClientStep, ClientConnect, ClientOnConnectionDown, ClientOnLogonRetFailed, ClientOnLogonRetSuccess,
         ClientOnMisframedLogonRet, ForwardClientOnConnectionDown, forwardVars
<1> QED
  BY <1>1, <1>2, <1>3

(* At the start nobody is connected. *)
LEMMA InitSteady == Init => SteadyInv
<1> SUFFICES ASSUME Init PROVE SteadyInv
  OBVIOUS
<1>1. \A c \in Conns : cli[c] = "none" /\ srv[c] = "none" /\ c2s[c] = <<>> /\ s2c[c] = <<>> /\ ~lost[c]
  BY DEF Init, NetInit
<1> QED
  BY <1>1, ConnKinds DEF SteadyInv, Steady, Unmet

(* The connections of the keepers to the hub hold, whatever happens to     *)
(* clients and to the logon server.                                        *)
LEMMA SteadyStep ==
  ASSUME TypeInv, RegInv, IdInv, SteadyInv, LinksHold, HubHolds, Next
  PROVE  SteadyInv'
<1>0. /\ \A c \in HubKeeperConns : /\ c \in Conns /\ c \in HubConns /\ c \notin KeeperForwardConns /\ c \notin HubLogonConns
                                   /\ c \notin LogonConns /\ c \notin ForwardConns /\ Kind(c) = "hubkeeper"
      /\ \A x \in ForwardConns : /\ x \in Conns /\ x \notin HubConns /\ x \notin KeeperForwardConns
                                 /\ x \notin LogonConns /\ x \notin HubLogonConns
                                 /\ x \notin HubKeeperConns
      /\ \A c \in Clients : LogonConnOf(c) \in LogonConns
  BY ConnKinds DEF LogonConnOf, LogonConns, HubConns, Kind, HubKeeperConns
<1>a. ASSUME NEW c \in HubKeeperConns, Untouched(c), UNCHANGED keeperHubConn PROVE Steady(c)'
  BY <1>a, SteadyOn DEF SteadyInv, Untouched
<1>b. ASSUME NEW x \in ForwardConns, Untouched(x), UNCHANGED peer PROVE Unmet(x)'
  BY <1>b DEF SteadyInv, Unmet, Untouched
<1>1. ASSUME Hub PROVE SteadyInv'
  <2>1. HubStep /\ UNCHANGED <<keeperHubConn, peer>>
    BY <1>1 DEF Hub, keeperVars, forwardVars
  <2>2. \A x \in ForwardConns : Untouched(x)
    BY <1>0, <2>1, HubFrame
  <2> QED
    BY <1>b, <2>1, <2>2, HubSteady DEF SteadyInv
<1>2. ASSUME NEW k \in Keepers, Keeper(k) PROVE SteadyInv'
  <2>1. KeeperStep(k) /\ UNCHANGED peer
    BY <1>2 DEF Keeper, forwardVars
  <2>2. \A x \in ForwardConns : x \notin KeeperEnds(k)
    BY <1>0 DEF KeeperEnds
  <2>3. \A x \in ForwardConns : Untouched(x)
    BY <1>0, <2>1, <2>2, KeeperFrame DEF RegInv
  <2> QED
    BY <1>b, <2>1, <2>3, KeeperSteady DEF SteadyInv
<1>3. ASSUME NEW p \in Forwards, Forward(p) PROVE SteadyInv'
  <2>1. ForwardStep(p) /\ UNCHANGED keeperHubConn
    BY <1>3 DEF Forward, keeperVars
  <2>2. \A c \in HubKeeperConns : c \notin KeeperConnsOf(p)
    BY <1>0 DEF KeeperConnsOf
  <2>3. \A c \in HubKeeperConns : Untouched(c)
    BY <1>0, <2>1, <2>2, ForwardFrame DEF RegInv
  <2>4. peer' = peer
    BY <2>1, ForwardOpens
  <2>5. CASE \A x \in ForwardConns : SameEnd(x)
    <3>1. \A x \in ForwardConns : Unmet(x)'
      BY <2>4, <2>5 DEF SteadyInv, Unmet, SameEnd
    <3> QED
      BY <1>a, <2>1, <2>3, <3>1 DEF SteadyInv
  <2>6. ASSUME NEW y \in ForwardConns, ForwardOnConnectionUp(p, y) \/ ForwardOnConnectionDown(p, y) PROVE SteadyInv'
    <3>1. peer[y] = p /\ \A x \in ForwardConns : x # y => srv'[x] = srv[x]
      BY <1>0, <2>6 DEF ForwardOnConnectionUp, ForwardOnConnectionDown, CloseS, TypeInv, Ends
    <3>2. \A x \in ForwardConns : Unmet(x)'
      BY <2>4, <3>1, ForwardAssumption DEF SteadyInv, Unmet
    <3> QED
      BY <1>a, <2>1, <2>3, <3>2 DEF SteadyInv
  <2> QED
    BY <2>1, <2>5, <2>6, ForwardOpens
<1>4. ASSUME Logon PROVE SteadyInv'
  <2>1. LogonStep /\ UNCHANGED <<keeperHubConn, peer>>
    BY <1>4 DEF Logon, keeperVars, forwardVars
  <2>2. (\A x \in ForwardConns : Untouched(x)) /\ (\A c \in HubKeeperConns : Untouched(c))
    BY <1>0, <2>1, LogonFrame
  <2> QED
    BY <1>a, <1>b, <2>1, <2>2 DEF SteadyInv
<1>5. ASSUME NEW c \in Clients, Client(c) PROVE SteadyInv'
  <2>1. ClientStep(c) /\ UNCHANGED keeperHubConn
    BY <1>5 DEF Client, keeperVars
  <2>2. \A d \in HubKeeperConns : Untouched(d)
    BY <1>0, <2>1, ClientFrame
  <2> QED
    BY <1>a, <2>1, <2>2, ClientOpens DEF SteadyInv
<1>6. ASSUME Network PROVE SteadyInv'
  <2>1. PICK c \in Conns : Cut(c)
    BY <1>6 DEF Network
  <2>2. UNCHANGED <<cli, srv, c2s, s2c, keeperHubConn, peer>> /\ lost' = [lost EXCEPT ![c] = TRUE] /\ Kind(c) # "hubkeeper"
    BY <1>6, <2>1 DEF Network, Cut, keeperVars, forwardVars, HubHolds
  <2>3. \A d \in HubKeeperConns : lost'[d] = lost[d]
    BY <1>0, <2>2 DEF TypeInv, Ends
  <2>4. \A d \in HubKeeperConns : Untouched(d)
    BY <2>2, <2>3 DEF Untouched
  <2>5. \A x \in ForwardConns : Unmet(x)'
    BY <2>2 DEF SteadyInv, Unmet
  <2> QED
    BY <1>a, <2>2, <2>4, <2>5 DEF SteadyInv
<1> QED
  BY <1>1, <1>2, <1>3, <1>4, <1>5, <1>6 DEF Next

-----------------------------------------------------------------------------
(* The reports of a connection that goes up or down, to the hub and to the *)
(* keeper.                                                                 *)
Inc(k, id) == UpdateForwardConns(k, id, "INC")
Dec(k, id) == UpdateForwardConns(k, id, "DEC")

Report(k, id, oper) == [type |-> "KeeperForwardUpdateForwardConns", keeperserverid |-> k,
                        forwardserverid |-> id, oper |-> oper]
UpReport(k, id)   == Report(k, id, "INC")
DownReport(k, id) == Report(k, id, "DEC")

(* The hub's count n of id, taken on by the reports to the hub (h), then   *)
(* by those to the keeper (f), is the number of connections that are open. *)
Settles(n, h, f, k, id, open) ==
    \E mid \in UInt16 : /\ Walk(n, h, Inc(k, id), Dec(k, id), mid)
                        /\ Walk(mid, f, UpReport(k, id), DownReport(k, id), open)

Has(q, m) == \E i \in DOMAIN q : q[i] = m

(* The hub hears of an id before it hears of its connections. *)
Leads(q, k, id) == \A i, j \in DOMAIN q : q[i] = Added(k, id) /\ q[j] \in {Inc(k, id), Dec(k, id)} => i < j

Lists(list, id) == \E i \in DOMAIN list : list[i].id = id

(* The hub's account of id: what it has, or will have when it has been     *)
(* told of the id, settles. Until then it hears nothing of the id.         *)
Book(list, h, f, k, id, open, state) ==
    /\ \A i \in DOMAIN list : list[i].id = id => Settles(list[i].numConnections, h, f, k, id, open)
    /\ Has(h, Added(k, id)) => Settles(0, h, f, k, id, open)
    /\ Leads(h, k, id)
    /\ Lists(list, id) \/ Has(h, Added(k, id)) => state = "up"

(* The reports differ. *)
LEMMA ReportsDiffer ==
  ASSUME NEW k, NEW id
  PROVE  /\ Inc(k, id) # Dec(k, id) /\ Inc(k, id) # Added(k, id) /\ Dec(k, id) # Added(k, id)
         /\ UpReport(k, id) # DownReport(k, id)
<1>1. Inc(k, id).oper = "INC" /\ Dec(k, id).oper = "DEC" /\ Added(k, id).oper = "ADD"
  BY ReportFields DEF Inc, Dec, Added
<1>2. UpReport(k, id).oper = "INC" /\ DownReport(k, id).oper = "DEC"
  BY DEF UpReport, DownReport, Report
<1> QED
  BY <1>1, <1>2

(* A queue from which something is read, or into which something is sent,  *)
(* that is not in S.                                                       *)
Aside(q, r, S) == \/ r = q
                  \/ \E z : z \notin S /\ r = Append(q, z)
                  \/ q # <<>> /\ Head(q) \notin S /\ r = Tail(q)

(* What is in a queue after a message is sent or read. *)
LEMMA QueueElements ==
  ASSUME NEW V, NEW q \in Seq(V)
  PROVE  /\ \A z, m : Has(Append(q, z), m) <=> (Has(q, m) \/ z = m)
         /\ q # <<>> => \A m : Has(Tail(q), m) => Has(q, m)
         /\ q # <<>> => Has(q, Head(q))
<1>1. ASSUME NEW z, NEW m PROVE Has(Append(q, z), m) <=> (Has(q, m) \/ z = m)
  <2> DEFINE r == Append(q, z)
  <2>1. /\ DOMAIN r = 1..(Len(q) + 1) /\ DOMAIN q = 1..Len(q) /\ Len(q) \in Nat
        /\ r[Len(q) + 1] = z /\ \A i \in DOMAIN q : r[i] = q[i]
    OBVIOUS
  <2> HIDE DEF r
  <2>2. \A i \in DOMAIN r : i \in DOMAIN q \/ i = Len(q) + 1
    BY <2>1
  <2>3. Len(q) + 1 \in DOMAIN r /\ \A i \in DOMAIN q : i \in DOMAIN r
    BY <2>1
  <2>4. Has(r, m) <=> (Has(q, m) \/ z = m)
    BY <2>1, <2>2, <2>3 DEF Has
  <2> QED
    BY <2>4 DEF r
<1>2. ASSUME q # <<>>, NEW m, Has(Tail(q), m) PROVE Has(q, m)
  <2>1. \A i \in DOMAIN Tail(q) : Tail(q)[i] = q[i + 1] /\ i + 1 \in DOMAIN q
    BY <1>2
  <2> QED
    BY <1>2, <2>1 DEF Has
<1>3. ASSUME q # <<>> PROVE Has(q, Head(q))
  <2>1. 1 \in DOMAIN q /\ q[1] = Head(q)
    BY <1>3
  <2> QED
    BY <2>1 DEF Has
<1> QED
  BY <1>1, <1>2, <1>3

(* Reading keeps the order; so does sending, but for a message that should *)
(* have come first.                                                        *)
LEMMA LeadsOn ==
  ASSUME NEW V, NEW q \in Seq(V), NEW k, NEW id, Leads(q, k, id)
  PROVE  /\ \A z : z # Added(k, id) => Leads(Append(q, z), k, id)
         /\ ~Has(q, Inc(k, id)) /\ ~Has(q, Dec(k, id)) => Leads(Append(q, Added(k, id)), k, id)
         /\ q # <<>> => Leads(Tail(q), k, id)
<1>0. Len(q) \in Nat /\ DOMAIN q = 1..Len(q)
  OBVIOUS
<1>a. ASSUME NEW z
      PROVE  \A i \in DOMAIN Append(q, z) : \/ i \in DOMAIN q /\ Append(q, z)[i] = q[i] /\ i < Len(q) + 1
                                            \/ i = Len(q) + 1 /\ Append(q, z)[i] = z
  OBVIOUS
<1>1. ASSUME NEW z, z # Added(k, id) PROVE Leads(Append(q, z), k, id)
  BY <1>a, <1>1 DEF Leads
<1>2. ASSUME ~Has(q, Inc(k, id)), ~Has(q, Dec(k, id)) PROVE Leads(Append(q, Added(k, id)), k, id)
  <2>1. Added(k, id) \notin {Inc(k, id), Dec(k, id)} /\ \A j \in DOMAIN q : q[j] \notin {Inc(k, id), Dec(k, id)}
    BY <1>2, ReportsDiffer DEF Has
  <2> QED
    BY <1>a, <2>1 DEF Leads
<1>3. ASSUME q # <<>> PROVE Leads(Tail(q), k, id)
  <2>1. \A i \in DOMAIN Tail(q) : Tail(q)[i] = q[i + 1] /\ i + 1 \in DOMAIN q /\ i \in Nat
    BY <1>3
  <2> QED
    BY <2>1 DEF Leads
<1> QED
  BY <1>1, <1>2, <1>3

(* What does not count leaves a walk as it is. *)
LEMMA WalkAside ==
  ASSUME NEW V, NEW q \in Seq(V), NEW r, NEW S, Aside(q, r, S), NEW x \in S, NEW y \in S, x # y,
         NEW n \in UInt16, NEW e, Walk(n, q, x, y, e)
  PROVE  Walk(n, r, x, y, e)
<1>0. n \in Int /\ e \in Int /\ e \in UInt16
  BY WalkEnds DEF UInt16
<1>1. CASE r = q
  BY <1>1
<1>2. ASSUME NEW z, z \notin S, r = Append(q, z) PROVE Walk(n, r, x, y, e)
  <2>1. Sway(z, x, y) = 0
    BY <1>2 DEF Sway
  <2>2. e + Sway(z, x, y) = e
    BY <1>0, <2>1
  <2> QED
    BY <1>0, <1>2, <2>2, WalkAppend
<1>3. CASE q # <<>> /\ Head(q) \notin S /\ r = Tail(q)
  <2>1. Sway(Head(q), x, y) = 0
    BY <1>3 DEF Sway
  <2>2. n + Sway(Head(q), x, y) = n
    BY <1>0, <2>1
  <2> QED
    BY <1>3, <2>2, WalkTail
<1> QED
  BY <1>1, <1>2, <1>3 DEF Aside

(* Nor does it change what settles. *)
LEMMA SettlesAside ==
  ASSUME NEW V, NEW h \in Seq(V), NEW f \in Seq(V), NEW h2, NEW f2, NEW k, NEW id, NEW open, NEW n \in UInt16,
         Aside(h, h2, {Inc(k, id), Dec(k, id), Added(k, id)}), Aside(f, f2, {UpReport(k, id), DownReport(k, id)}),
         Settles(n, h, f, k, id, open)
  PROVE  Settles(n, h2, f2, k, id, open)
<1>1. PICK mid \in UInt16 : /\ Walk(n, h, Inc(k, id), Dec(k, id), mid)
                            /\ Walk(mid, f, UpReport(k, id), DownReport(k, id), open)
  BY DEF Settles
<1>2. Inc(k, id) # Dec(k, id) /\ UpReport(k, id) # DownReport(k, id)
  BY ReportsDiffer
<1>3. Walk(n, h2, Inc(k, id), Dec(k, id), mid)
  BY <1>1, <1>2, WalkAside, SMTT(30)
<1>4. Walk(mid, f2, UpReport(k, id), DownReport(k, id), open)
  BY <1>1, <1>2, WalkAside, SMTT(30)
<1> QED
  BY <1>3, <1>4 DEF Settles

(* What list2 has of id, list has too. *)
Kept(list, list2, id) == \A i \in DOMAIN list2 : list2[i].id = id => \E j \in DOMAIN list : list[j] = list2[i]

(* An account to which nothing happens. *)
LEMMA BookAside ==
  ASSUME NEW V, NEW h \in Seq(V), NEW f \in Seq(V), NEW h2, NEW f2, NEW k, NEW id, NEW open, NEW state,
         NEW list \in Seq(ForwardEntry), NEW list2, Book(list, h, f, k, id, open, state),
         Aside(h, h2, {Inc(k, id), Dec(k, id), Added(k, id)}), Aside(f, f2, {UpReport(k, id), DownReport(k, id)}),
         Kept(list, list2, id)
  PROVE  Book(list2, h2, f2, k, id, open, state)
<1>0. \A j \in DOMAIN list : list[j].numConnections \in UInt16
  <2>1. \A j \in DOMAIN list : list[j] \in ForwardEntry
    OBVIOUS
  <2> QED
    BY <2>1 DEF ForwardEntry
<1>1. \A n \in UInt16 : Settles(n, h, f, k, id, open) => Settles(n, h2, f2, k, id, open)
  BY SettlesAside
<1>2. Has(h2, Added(k, id)) => Has(h, Added(k, id))
  <2>1. /\ \A z, m : Has(Append(h, z), m) <=> (Has(h, m) \/ z = m)
        /\ h # <<>> => \A m : Has(Tail(h), m) => Has(h, m)
    BY QueueElements
  <2>2. ASSUME NEW z, z # Added(k, id), h2 = Append(h, z), Has(h2, Added(k, id)) PROVE Has(h, Added(k, id))
    BY <2>1, <2>2
  <2>3. h2 = h \/ (\E z : z # Added(k, id) /\ h2 = Append(h, z)) \/ (h # <<>> /\ h2 = Tail(h))
    BY DEF Aside
  <2> QED
    BY <2>1, <2>2, <2>3
<1>3. Leads(h2, k, id)
  BY LeadsOn DEF Aside, Book
<1>4. 0 \in UInt16
  BY DEF UInt16
<1>5. Lists(list2, id) => Lists(list, id)
  BY DEF Lists, Kept
<1>6. \A i \in DOMAIN list2 : list2[i].id = id => Settles(list2[i].numConnections, h2, f2, k, id, open)
  BY <1>0, <1>1 DEF Book, Kept
<1> QED
  BY <1>1, <1>2, <1>3, <1>4, <1>5, <1>6 DEF Book

(* A count that stays within bounds does not wrap. *)
LEMMA CountsWithoutWrap ==
  ASSUME NEW n \in UInt16
  PROVE  /\ n + 1 \in UInt16 => Incremented(n) = n + 1
         /\ n - 1 \in UInt16 => Decremented(n) = n - 1
<1>1. ASSUME n + 1 \in UInt16 PROVE Incremented(n) = n + 1
  BY <1>1 DEF UInt16, Incremented
<1>2. ASSUME n - 1 \in UInt16 PROVE Decremented(n) = n - 1
  BY <1>2 DEF UInt16, Decremented
<1> QED
  BY <1>1, <1>2

(* The hub counts the only entry with the id up or down. *)
LEMMA OneCounted ==
  ASSUME NEW list \in Seq(ForwardEntry), NEW id, NEW j \in DOMAIN list, list[j].id = id,
         \A i \in DOMAIN list : list[i].id = id => i = j
  PROVE  /\ UpdatedForwardList(list, "INC", id)[j].numConnections = Incremented(list[j].numConnections)
         /\ UpdatedForwardList(list, "DEC", id)[j].numConnections = Decremented(list[j].numConnections)
<1> DEFINE hits == {n \in DOMAIN list : list[n].id = id}
           i    == Min(hits)
<1>0. list[j] \in ForwardEntry
  OBVIOUS
<1>1. hits # {} /\ hits \in SUBSET Nat /\ \A n \in hits : n = j
  OBVIOUS
<1> HIDE DEF hits
<1>2. i \in hits
  BY <1>1, MinProperty
<1>3. i = j
  BY <1>1, <1>2
<1>4. UpdatedForwardList(list, "INC", id) = [list EXCEPT ![i].numConnections = Incremented(@)]
  BY <1>1, Zenon DEF UpdatedForwardList, hits
<1>5. UpdatedForwardList(list, "DEC", id) = [list EXCEPT ![i].numConnections = Decremented(@)]
  BY <1>1, Zenon DEF UpdatedForwardList, hits
<1> HIDE DEF i
<1> QED
  BY <1>0, <1>3, <1>4, <1>5 DEF ForwardEntry

(* The hub reads that a connection of id has come or gone. *)
LEMMA BookCount ==
  ASSUME NEW V, NEW h \in Seq(V), h # <<>>, NEW f, NEW k, NEW id, NEW open, NEW state, NEW oper \in {"INC", "DEC"},
         NEW list \in Seq(ForwardEntry), Book(list, h, f, k, id, open, state),
         Head(h) = UpdateForwardConns(k, id, oper),
         \A i, j \in DOMAIN list : list[i].id = list[j].id => i = j
  PROVE  Book(UpdatedForwardList(list, oper, id), Tail(h), f, k, id, open, state)
<1> DEFINE list2 == UpdatedForwardList(list, oper, id)
           s == Sway(Head(h), Inc(k, id), Dec(k, id))
<1>1. DOMAIN list2 = DOMAIN list /\ \A i \in DOMAIN list : list2[i].id = list[i].id
  BY CountKeepsIds
<1>2. Inc(k, id) # Dec(k, id)
  BY ReportsDiffer
<1>3. (oper = "INC" => s = 1) /\ (oper = "DEC" => s = -1)
  BY <1>2 DEF Sway, Inc, Dec
<1>4. ~Has(h, Added(k, id))
  <2> SUFFICES ASSUME NEW i \in DOMAIN h, h[i] = Added(k, id) PROVE FALSE
    BY DEF Has
  <2>1. 1 \in DOMAIN h /\ h[1] = Head(h) /\ i \in Nat \ {0}
    OBVIOUS
  <2>2. h[1] \in {Inc(k, id), Dec(k, id)}
    BY <2>1 DEF Inc, Dec
  <2>3. i < 1
    BY <2>1, <2>2 DEF Book, Leads
  <2> QED
    BY <2>1, <2>3
<1>5. ~Has(Tail(h), Added(k, id))
  BY <1>4, QueueElements
<1>6. Leads(Tail(h), k, id)
  BY LeadsOn DEF Book
<1>7. Lists(list2, id) => Lists(list, id)
  BY <1>1 DEF Lists
<1> HIDE DEF s
<1>8. ASSUME NEW j \in DOMAIN list, list[j].id = id PROVE Settles(list2[j].numConnections, Tail(h), f, k, id, open)
  <2> DEFINE n == list[j].numConnections
  <2>1. Settles(n, h, f, k, id, open)
    BY <1>8 DEF Book
  <2>2. list[j] \in ForwardEntry
    OBVIOUS
  <2>3. n \in UInt16
    BY <2>2 DEF ForwardEntry
  <2>4. list2[j].numConnections = IF oper = "INC" THEN Incremented(n) ELSE Decremented(n)
    BY <1>8, OneCounted
  <2> HIDE DEF n, list2
  <2>5. PICK mid \in UInt16 : /\ Walk(n, h, Inc(k, id), Dec(k, id), mid)
                              /\ Walk(mid, f, UpReport(k, id), DownReport(k, id), open)
    BY <2>1 DEF Settles
  <2>6. n + s \in UInt16 /\ Walk(n + s, Tail(h), Inc(k, id), Dec(k, id), mid)
    BY <1>2, <2>3, <2>5, WalkTail DEF s
  <2>7. list2[j].numConnections = n + s
    <3>1. n \in Int
      BY <2>3 DEF UInt16
    <3>2. CASE oper = "INC"
      BY <1>3, <2>3, <2>4, <2>6, <3>1, <3>2, CountsWithoutWrap
    <3>3. CASE oper = "DEC"
      <4>1. n + s = n - 1
        BY <1>3, <3>1, <3>3
      <4> QED
        BY <2>3, <2>4, <2>6, <3>3, <4>1, CountsWithoutWrap
    <3> QED
      BY <3>2, <3>3
  <2> QED
    BY <2>5, <2>6, <2>7 DEF Settles
<1>9. \A i \in DOMAIN list2 : list2[i].id = id => Settles(list2[i].numConnections, Tail(h), f, k, id, open)
  BY <1>1, <1>8
<1> HIDE DEF list2
<1>10. Book(list2, Tail(h), f, k, id, open, state)
  BY <1>5, <1>6, <1>7, <1>9 DEF Book
<1> QED
  BY <1>10 DEF list2

(* The hub reads that id has been given. *)
LEMMA BookAdd ==
  ASSUME NEW V, NEW h \in Seq(V), h # <<>>, NEW f \in Seq(V), NEW k, NEW id, NEW open, NEW state,
         NEW list \in Seq(ForwardEntry), Book(list, h, f, k, id, open, state),
         Head(h) = Added(k, id), ~Lists(list, id), ~Has(Tail(h), Added(k, id))
  PROVE  Book(Append(list, [id |-> id, numConnections |-> 0]), Tail(h), f, k, id, open, state)
<1> DEFINE e == [id |-> id, numConnections |-> 0]
           list2 == Append(list, e)
           s == Sway(Head(h), Inc(k, id), Dec(k, id))
<1>1. Inc(k, id) # Dec(k, id) /\ s = 0
  BY ReportsDiffer DEF Sway
<1>2. Has(h, Added(k, id))
  BY QueueElements
<1>3. 0 \in UInt16 /\ 0 + s = 0
  BY <1>1 DEF UInt16
<1> HIDE DEF s
<1>4. Settles(0, Tail(h), f, k, id, open)
  <2>1. PICK mid \in UInt16 : /\ Walk(0, h, Inc(k, id), Dec(k, id), mid)
                              /\ Walk(mid, f, UpReport(k, id), DownReport(k, id), open)
    BY <1>2 DEF Book, Settles
  <2>2. Walk(0 + s, Tail(h), Inc(k, id), Dec(k, id), mid)
    BY <1>1, <1>3, <2>1, WalkTail DEF s
  <2> QED
    BY <1>3, <2>1, <2>2 DEF Settles
<1>5. \A i \in DOMAIN list2 : (i \in DOMAIN list /\ list2[i] = list[i]) \/ list2[i] = e
  OBVIOUS
<1>6. e.numConnections = 0
  OBVIOUS
<1> HIDE DEF e, list2
<1>7. \A i \in DOMAIN list2 : list2[i].id = id => Settles(list2[i].numConnections, Tail(h), f, k, id, open)
  BY <1>4, <1>5, <1>6 DEF Lists
<1>8. Leads(Tail(h), k, id) /\ state = "up"
  BY <1>2, LeadsOn DEF Book
<1>9. Book(list2, Tail(h), f, k, id, open, state)
  BY <1>7, <1>8 DEF Book
<1> QED
  BY <1>9 DEF e, list2

(* The keeper passes a report of id on. Before the hub knows of the id,    *)
(* the report may be lost.                                                 *)
LEMMA BookPass ==
  ASSUME NEW V, NEW h \in Seq(V), NEW h2, NEW f \in Seq(V), f # <<>>, NEW k, NEW id, NEW open, NEW state,
         NEW list \in Seq(ForwardEntry), Book(list, h, f, k, id, open, state), NEW oper \in {"INC", "DEC"},
         Head(f) = Report(k, id, oper),
         h2 = Append(h, UpdateForwardConns(k, id, oper)) \/ (h2 = h /\ state # "up")
  PROVE  Book(list, h2, Tail(f), k, id, open, state)
<1> DEFINE z == UpdateForwardConns(k, id, oper)
           s == Sway(z, Inc(k, id), Dec(k, id))
<1>0. /\ Inc(k, id) # Dec(k, id) /\ UpReport(k, id) # DownReport(k, id)
      /\ z \in {Inc(k, id), Dec(k, id)} /\ z # Added(k, id)
  BY ReportsDiffer DEF Inc, Dec
<1>1. s = Sway(Head(f), UpReport(k, id), DownReport(k, id))
  BY <1>0 DEF Sway, Inc, Dec, UpReport, DownReport
<1> HIDE DEF z, s
<1>2. CASE h2 = h /\ state # "up"
  BY <1>2 DEF Book, Lists
<1>3. CASE h2 = Append(h, z)
  <2>1. ASSUME NEW n \in UInt16, Settles(n, h, f, k, id, open) PROVE Settles(n, h2, Tail(f), k, id, open)
    <3>1. PICK mid \in UInt16 : /\ Walk(n, h, Inc(k, id), Dec(k, id), mid)
                                /\ Walk(mid, f, UpReport(k, id), DownReport(k, id), open)
      BY <2>1 DEF Settles
    <3>2. mid + s \in UInt16 /\ Walk(mid + s, Tail(f), UpReport(k, id), DownReport(k, id), open)
      BY <1>0, <1>1, <3>1, WalkTail
    <3>3. Walk(n, h2, Inc(k, id), Dec(k, id), mid + s)
      BY <1>0, <1>3, <3>1, <3>2, WalkAppend DEF s
    <3> QED
      BY <3>2, <3>3 DEF Settles
  <2>2. \A j \in DOMAIN list : list[j] \in ForwardEntry
    OBVIOUS
  <2>3. \A j \in DOMAIN list : list[j].numConnections \in UInt16
    BY <2>2 DEF ForwardEntry
  <2>4. Has(h2, Added(k, id)) => Has(h, Added(k, id))
    BY <1>0, <1>3, QueueElements
  <2>5. Leads(h2, k, id)
    BY <1>0, <1>3, LeadsOn DEF Book
  <2>6. 0 \in UInt16
    BY DEF UInt16
  <2> QED
    BY <2>1, <2>3, <2>4, <2>5, <2>6 DEF Book
<1> QED
  BY <1>2, <1>3 DEF z

(* A forward process reports that a connection has come or gone. *)
LEMMA BookReport ==
  ASSUME NEW V, NEW h, NEW f \in Seq(V), NEW k, NEW id, NEW open, NEW state, NEW z,
         NEW list \in Seq(ForwardEntry), Book(list, h, f, k, id, open, state), NEW open2 \in UInt16,
         open2 = open + Sway(z, UpReport(k, id), DownReport(k, id))
  PROVE  Book(list, h, Append(f, z), k, id, open2, state)
<1>0. UpReport(k, id) # DownReport(k, id)
  BY ReportsDiffer
<1>1. ASSUME NEW n \in UInt16, Settles(n, h, f, k, id, open) PROVE Settles(n, h, Append(f, z), k, id, open2)
  <2>1. PICK mid \in UInt16 : /\ Walk(n, h, Inc(k, id), Dec(k, id), mid)
                              /\ Walk(mid, f, UpReport(k, id), DownReport(k, id), open)
    BY <1>1 DEF Settles
  <2>2. Walk(mid, Append(f, z), UpReport(k, id), DownReport(k, id), open2)
    BY <1>0, <2>1, WalkAppend
  <2> QED
    BY <2>1, <2>2 DEF Settles
<1>2. \A j \in DOMAIN list : list[j] \in ForwardEntry
  OBVIOUS
<1>3. \A j \in DOMAIN list : list[j].numConnections \in UInt16
  BY <1>2 DEF ForwardEntry
<1>4. 0 \in UInt16
  BY DEF UInt16
<1> QED
  BY <1>1, <1>3, <1>4 DEF Book

(* An id that is given has no connections yet, and nothing has been heard  *)
(* of it.                                                                  *)
LEMMA BookNew ==
  ASSUME NEW V, NEW h \in Seq(V), NEW f \in Seq(V), NEW k, NEW id, NEW state, NEW list, ~Lists(list, id),
         ~Has(h, Added(k, id)), ~Has(h, Inc(k, id)), ~Has(h, Dec(k, id)),
         ~Has(f, UpReport(k, id)), ~Has(f, DownReport(k, id)),
         NEW h2, h2 = h \/ (h2 = Append(h, Added(k, id)) /\ state = "up")
  PROVE  Book(list, h2, f, k, id, 0, state)
<1>1. Leads(h, k, id)
  BY DEF Leads, Has
<1>2. CASE h2 = h
  BY <1>1, <1>2 DEF Book, Lists
<1>3. CASE h2 = Append(h, Added(k, id)) /\ state = "up"
  <2>0. 0 \in UInt16
    BY DEF UInt16
  <2>1. Leads(h2, k, id)
    BY <1>1, <1>3, LeadsOn
  <2>2. ~Has(h2, Inc(k, id)) /\ ~Has(h2, Dec(k, id))
    BY <1>3, QueueElements, ReportsDiffer
  <2>3. h2 \in Seq(V \cup {Added(k, id)})
    BY <1>3
  <2>4. Walk(0, h2, Inc(k, id), Dec(k, id), 0)
    BY <2>0, <2>2, <2>3, WalkStill DEF Has
  <2>5. Walk(0, f, UpReport(k, id), DownReport(k, id), 0)
    BY <2>0, WalkStill DEF Has
  <2>6. Settles(0, h2, f, k, id, 0)
    BY <2>0, <2>4, <2>5 DEF Settles
  <2> QED
    BY <1>3, <2>1, <2>6 DEF Book, Lists
<1> QED
  BY <1>2, <1>3

-----------------------------------------------------------------------------
(* The hub's account of the id that connection c was given. *)
Booked(c, id) == Book(forwardConns[KeeperOf[Owner(c)]], c2s[HubOf(KeeperOf[Owner(c)])], c2s[c],
                      KeeperOf[Owner(c)], id, Cardinality(OpenAt(Owner(c))), cli[HubOf(KeeperOf[Owner(c)])])

LoadInv == \A c \in KeeperForwardConns : \A id \in ServerIds : Given(c, id) => Booked(c, id)

(* The connections that carry the reports of c. *)
LEMMA Carriers ==
  ASSUME TypeInv, NEW c \in KeeperForwardConns
  PROVE  /\ Owner(c) \in Forwards /\ KeeperOf[Owner(c)] \in Keepers /\ c \in Conns
         /\ HubOf(KeeperOf[Owner(c)]) \in HubKeeperConns /\ HubOf(KeeperOf[Owner(c)]) \in Conns
         /\ Owner(HubOf(KeeperOf[Owner(c)])) = KeeperOf[Owner(c)]
         /\ c2s[HubOf(KeeperOf[Owner(c)])] \in Seq(Vetted(verified)) /\ c2s[c] \in Seq(Vetted(verified))
         /\ forwardConns[KeeperOf[Owner(c)]] \in Seq(ForwardEntry)
<1>1. Owner(c) \in Forwards /\ KeeperOf[Owner(c)] \in Keepers /\ c \in Conns
  BY ConnKinds, ConfigAssumption DEF Owner
<1>2. /\ HubOf(KeeperOf[Owner(c)]) \in HubKeeperConns
      /\ Owner(HubOf(KeeperOf[Owner(c)])) = KeeperOf[Owner(c)]
  BY <1>1, NetAssumption DEF HubOf, HubKeeperConns, Owner
<1>3. HubOf(KeeperOf[Owner(c)]) \in Conns
  BY <1>2, ConnKinds
<1> QED
  BY <1>1, <1>2, <1>3 DEF TypeInv, Mail, Queues, HubTypeOK, ForwardEntry

(* A step with no report of id. *)
LEMMA BookedAside ==
  ASSUME TypeInv, NEW c \in KeeperForwardConns, NEW id, Booked(c, id), NEW k, k = KeeperOf[Owner(c)],
         Aside(c2s[HubOf(k)], c2s'[HubOf(k)], {Inc(k, id), Dec(k, id), Added(k, id)}),
         Aside(c2s[c], c2s'[c], {UpReport(k, id), DownReport(k, id)}),
         OpenAt(Owner(c))' = OpenAt(Owner(c)),
         cli'[HubOf(k)] = cli[HubOf(k)], Kept(forwardConns[k], forwardConns'[k], id)
  PROVE  Booked(c, id)'
<1>1. Book(forwardConns[k], c2s[HubOf(k)], c2s[c], k, id, Cardinality(OpenAt(Owner(c))), cli[HubOf(k)])
  BY DEF Booked
<1>2. c2s[HubOf(k)] \in Seq(Vetted(verified)) /\ c2s[c] \in Seq(Vetted(verified)) /\ forwardConns[k] \in Seq(ForwardEntry)
  BY Carriers
<1>3. PICK h, f, list, h2, f2, list2, open, state :
         /\ h = c2s[HubOf(k)] /\ f = c2s[c] /\ list = forwardConns[k] /\ open = Cardinality(OpenAt(Owner(c)))
         /\ h2 = c2s'[HubOf(k)] /\ f2 = c2s'[c] /\ list2 = forwardConns'[k] /\ state = cli[HubOf(k)]
  BY Zenon
<1>4. /\ Book(list, h, f, k, id, open, state) /\ h \in Seq(Vetted(verified)) /\ f \in Seq(Vetted(verified))
      /\ list \in Seq(ForwardEntry) /\ Aside(h, h2, {Inc(k, id), Dec(k, id), Added(k, id)})
      /\ Aside(f, f2, {UpReport(k, id), DownReport(k, id)})
  BY <1>1, <1>2, <1>3
<1>5. Kept(list, list2, id)
  BY <1>3
<1>6. Book(list2, h2, f2, k, id, open, state)
  BY <1>4, <1>5, BookAside
<1>7. Book(forwardConns'[k], c2s'[HubOf(k)], c2s'[c], k, id, Cardinality(OpenAt(Owner(c))'), cli'[HubOf(k)])
  BY <1>3, <1>6
<1> QED
  BY <1>7 DEF Booked

(* A list that stays has what it has. *)
LEMMA KeptSame ==
  ASSUME NEW list, NEW id
  PROVE  Kept(list, list, id)
BY DEF Kept

(* The message m is in the queue. *)
LEMMA HasSent ==
  ASSUME NEW q, NEW m
  PROVE  Has(q, m) <=> m \in Sent(q, m.type)
BY DEF Has, Sent

(* What the hub does to the entry of one id leaves those of others alone. *)
LEMMA OthersKept ==
  ASSUME NEW list \in Seq(ForwardEntry), NEW id, NEW j, j # id, NEW oper \in {"ADD", "INC", "DEC"}
  PROVE  Kept(list, UpdatedForwardList(list, oper, j), id)
<1> SUFFICES ASSUME NEW i \in DOMAIN UpdatedForwardList(list, oper, j), UpdatedForwardList(list, oper, j)[i].id = id
             PROVE  \E n \in DOMAIN list : list[n] = UpdatedForwardList(list, oper, j)[i]
  BY DEF Kept
<1> DEFINE hits == {n \in DOMAIN list : list[n].id = j}
           a    == Min(hits)
           list2 == UpdatedForwardList(list, oper, j)
<1>1. CASE oper = "ADD"
  <2> DEFINE e == [id |-> j, numConnections |-> 0]
  <2>1. list2 = Append(list, e) /\ e.id = j
    BY <1>1, Zenon DEF UpdatedForwardList
  <2> HIDE DEF e
  <2>2. i \in DOMAIN list /\ list2[i] = list[i]
    BY <2>1
  <2> QED
    BY <2>2
<1> HIDE DEF hits
<1>2. CASE oper \in {"INC", "DEC"}
  <2>1. DOMAIN list2 = DOMAIN list /\ list2[i].id = list[i].id
    BY <1>2, CountKeepsIds
  <2>2. i \notin hits
    BY <2>1 DEF hits
  <2>3. list2[i] = list[i]
    <3>1. CASE hits = {}
      BY <1>2, <3>1, Zenon DEF UpdatedForwardList, hits
    <3>2. CASE hits # {}
      <4>1. hits \in SUBSET Nat
        BY DEF hits
      <4>2. a \in hits
        BY <3>2, <4>1, MinProperty
      <4>3. \/ list2 = [list EXCEPT ![a].numConnections = Incremented(@)]
            \/ list2 = [list EXCEPT ![a].numConnections = Decremented(@)]
        BY <1>2, <3>2, Zenon DEF UpdatedForwardList, hits
      <4>4. i # a /\ i \in DOMAIN list
        BY <2>1, <2>2, <4>2 DEF list2
      <4> HIDE DEF a, list2
      <4> QED
        BY <4>3, <4>4
    <3> QED
      BY <3>1, <3>2
  <2> QED
    BY <2>1, <2>3
<1> QED
  BY <1>1, <1>2

(* The hub's accounts stay right as it reads. *)
LEMMA HubLoads ==
  ASSUME TypeInv, ListInv, SteadyInv, LoadInv, HubHolds, HubStep, UNCHANGED peer,
         NEW c \in KeeperForwardConns, NEW id \in ServerIds, Given(c, id)
  PROVE  Booked(c, id)'
<1> DEFINE R == "HubKeeperUpdateForwardConns"
           V == Vetted(verified)
           k == KeeperOf[Owner(c)]
           h == HubOf(k)
           S == {Inc(k, id), Dec(k, id), Added(k, id)}
<1>0. /\ k \in Keepers /\ h \in HubKeeperConns /\ h \in HubConns /\ h \in Conns /\ Owner(h) = k
      /\ c2s[h] \in Seq(V) /\ c2s[c] \in Seq(V) /\ forwardConns[k] \in Seq(ForwardEntry)
      /\ c \in Conns /\ c \notin HubConns /\ Owner(c) \in Forwards
      /\ \A d \in HubConns : d \in Conns
      /\ \A x \in ForwardConns : x \in Conns /\ x \notin HubConns
  BY Carriers, ConnKinds
<1>a. Booked(c, id) /\ Steady(h)
  BY <1>0 DEF LoadInv, SteadyInv
<1>b. c2s \in Queues(V) /\ forwardConns \in [Keepers -> Seq(ForwardEntry)]
  BY DEF TypeInv, Mail, HubTypeOK, ForwardEntry
<1>c. c2s'[c] = c2s[c] /\ cli'[h] = cli[h] /\ \A x \in ForwardConns : srv'[x] = srv[x]
  BY <1>0, HubFrame DEF Untouched
<1>d. OpenAt(Owner(c))' = OpenAt(Owner(c))
  BY <1>c DEF OpenAt
<1> HIDE DEF k, h
<1>e. ASSUME Aside(c2s[h], c2s'[h], S), Kept(forwardConns[k], forwardConns'[k], id)
      PROVE  Booked(c, id)'
  <2>1. Aside(c2s[c], c2s'[c], {UpReport(k, id), DownReport(k, id)})
    BY <1>c DEF Aside
  <2> QED
    BY <1>a, <1>c, <1>d, <1>e, <2>1, BookedAside DEF h, k
<1>f. \A m \in S : m.type = R
  BY ReportFields DEF Inc, Dec, Added
<1>g. ASSUME NEW d \in HubConns, NEW t, t # R, ReadsS(d, t), c2s' = Recv(c2s, d), UNCHANGED forwardConns
      PROVE  Booked(c, id)'
  <2>1. c2s'[h] = IF d = h THEN Tail(c2s[h]) ELSE c2s[h]
    BY <1>0, <1>b, <1>g DEF Recv, Queues
  <2>2. d = h => c2s[h] # <<>> /\ Head(c2s[h]).type = t
    BY <1>g DEF ReadsS
  <2>3. Aside(c2s[h], c2s'[h], S)
    BY <1>f, <1>g, <2>1, <2>2 DEF Aside
  <2> QED
    BY <1>e, <1>g, <2>3, KeptSame
<1>1. ASSUME NEW d \in HubConns, HubOnConnectionDown(d) PROVE Booked(c, id)'
  <2>1. ClosesS(d) /\ c2s' = Drained(c2s, d) /\ UNCHANGED forwardConns
    BY <1>1 DEF HubOnConnectionDown
  <2>2. d # h
    BY <1>0, <1>a, <2>1, SteadyStays
  <2>3. c2s'[h] = c2s[h]
    BY <1>0, <1>b, <2>1, <2>2 DEF Drained, Queues
  <2>4. Aside(c2s[h], c2s'[h], S)
    BY <2>3 DEF Aside
  <2> QED
    BY <1>e, <2>1, <2>4, KeptSame
<1>2. ASSUME NEW d \in HubConns, HubOnHubConnectionData(d) PROVE Booked(c, id)'
  BY <1>2, <1>g DEF HubOnHubConnectionData
<1>3. ASSUME NEW d \in HubConns, HubOnHubKeeperLogonSessionRet(d) PROVE Booked(c, id)'
  BY <1>3, <1>g DEF HubOnHubKeeperLogonSessionRet, hubVars
<1>4. ASSUME NEW d \in HubConns, HubOnHubKeeperUpdateForwardConns(d) PROVE Booked(c, id)'
  <2> DEFINE m == Head(c2s[d])
             j == m.forwardserverid
             l == Owner(d)
             oper == m.oper
  <2>1. m \in V /\ m.type = R /\ c2s[d] # <<>> /\ d \in Conns /\ c2s[d] \in Seq(V)
    BY <1>0, <1>4, <1>b, ReadAtServer DEF HubOnHubKeeperUpdateForwardConns, ReadsS, Queues
  <2>2. m \in HubReports(d)
    BY <2>1, HeadSent DEF HubReports
  <2>3. d \in HubKeeperConns /\ m = UpdateForwardConns(l, j, oper) /\ oper \in {"ADD", "INC", "DEC"}
    BY <2>2 DEF ListInv, Reported
  <2>4. m.keeperserverid = l /\ l \in Keepers
    <3>1. l \in Keepers
      BY <2>3 DEF HubKeeperConns, Owner
    <3> HIDE DEF m, l
    <3>2. m.keeperserverid = l
      BY <2>3, ReportFields
    <3> QED
      BY <3>1, <3>2
  <2>5. d = HubOf(l)
    BY <2>1, <2>3 DEF SteadyInv, Steady
  <2>6. /\ forwardConns' = [forwardConns EXCEPT ![l] = UpdatedForwardList(@, oper, j)]
        /\ c2s' = Recv(c2s, d)
    BY <1>4, <2>4 DEF HubOnHubKeeperUpdateForwardConns
  <2>7. c2s'[h] = IF d = h THEN Tail(c2s[h]) ELSE c2s[h]
    BY <1>0, <1>b, <2>6 DEF Recv, Queues
  <2>8. forwardConns'[k] = IF l = k THEN UpdatedForwardList(forwardConns[k], oper, j) ELSE forwardConns[k]
    BY <1>0, <1>b, <2>6
  <2> HIDE DEF m, j, l, oper
  <2>9. CASE l # k
    <3>1. d # h
      BY <1>0, <2>9 DEF l
    <3>2. Aside(c2s[h], c2s'[h], S)
      BY <2>7, <3>1 DEF Aside
    <3> QED
      BY <1>e, <2>8, <2>9, <3>2, KeptSame
  <2>10. CASE l = k /\ j # id
    <3>1. d = h
      BY <2>5, <2>10 DEF h
    <3>2. m \notin S
      <4>1. m.forwardserverid = j
        BY DEF j
      <4>2. \A n \in S : n.forwardserverid = id
        BY ReportFields DEF Inc, Dec, Added
      <4> QED
        BY <2>10, <4>1, <4>2
    <3>3. c2s'[h] = Tail(c2s[h]) /\ Head(c2s[h]) = m /\ c2s[h] # <<>>
      BY <2>1, <2>7, <3>1 DEF m
    <3>4. Aside(c2s[h], c2s'[h], S)
      BY <3>2, <3>3 DEF Aside
    <3>5. Kept(forwardConns[k], forwardConns'[k], id)
      BY <1>0, <2>3, <2>8, <2>10, OthersKept
    <3> QED
      BY <1>e, <3>4, <3>5
  <2>11. CASE l = k /\ j = id
    <3> DEFINE list == forwardConns[k]
               open == Cardinality(OpenAt(Owner(c)))
    <3>1. d = h
      BY <2>5, <2>11 DEF h
    <3>2. c2s'[h] = Tail(c2s[h]) /\ Head(c2s[h]) = UpdateForwardConns(k, id, oper) /\ c2s[h] # <<>>
      BY <2>1, <2>3, <2>7, <2>11, <3>1 DEF m
    <3>3. Book(list, c2s[h], c2s[c], k, id, open, cli[h])
      BY <1>a DEF Booked, h, k
    <3>4. list \in Seq(ForwardEntry) /\ c2s[h] \in Seq(V) /\ c2s[c] \in Seq(V)
      BY <1>0
    <3> HIDE DEF open
    <3>5. Book(forwardConns'[k], Tail(c2s[h]), c2s[c], k, id, open, cli[h])
      <4>1. CASE oper \in {"INC", "DEC"}
        <5>1. \A a, b \in DOMAIN list : list[a].id = list[b].id => a = b
          BY <1>0 DEF ListInv, Listing
        <5> HIDE DEF list
        <5>2. Book(UpdatedForwardList(list, oper, id), Tail(c2s[h]), c2s[c], k, id, open, cli[h])
          BY <3>2, <3>3, <3>4, <4>1, <5>1, BookCount
        <5> QED
          BY <2>8, <2>11, <5>2 DEF list
      <4>2. CASE oper = "ADD"
        <5>1. Head(c2s[h]) = Added(k, id) /\ Added(k, id).type = R
          BY <3>2, <4>2, ReportFields DEF Added
        <5>2. Added(k, id) \in HubReports(h)
          BY <3>2, <3>4, <5>1, HeadSent DEF HubReports
        <5>3. AddedOnce(k, id)
          BY <1>0 DEF ListInv
        <5>4. ~Listed(k, id) /\ Once(c2s[h], Added(k, id))
          BY <1>0, <5>2, <5>3 DEF AddedOnce
        <5>5. ~Lists(list, id)
          BY <5>4 DEF Listed, Lists
        <5>6. Added(k, id) \notin Sent(Tail(c2s[h]), R)
          BY <3>2, <3>4, <5>1, <5>4, OnceSentAndRead
        <5>7. ~Has(Tail(c2s[h]), Added(k, id))
          BY <5>1, <5>6, HasSent
        <5>8. UpdatedForwardList(list, "ADD", id) = Append(list, [id |-> id, numConnections |-> 0])
          BY Zenon DEF UpdatedForwardList
        <5> HIDE DEF list
        <5>9. Book(Append(list, [id |-> id, numConnections |-> 0]), Tail(c2s[h]), c2s[c], k, id, open, cli[h])
          BY <3>2, <3>3, <3>4, <5>1, <5>5, <5>7, BookAdd
        <5> QED
          BY <2>8, <2>11, <4>2, <5>8, <5>9 DEF list
      <4> QED
        BY <2>3, <4>1, <4>2
    <3>6. Book(forwardConns'[k], c2s'[h], c2s'[c], k, id, Cardinality(OpenAt(Owner(c))'), cli'[h])
      BY <1>c, <1>d, <3>2, <3>5 DEF open
    <3> QED
      BY <3>6 DEF Booked, h, k
  <2> QED
    BY <2>9, <2>10, <2>11
<1>5. ASSUME NEW d \in HubConns, HubOnHubLogonQueryForwardID(d) PROVE Booked(c, id)'
  BY <1>5, <1>g DEF HubOnHubLogonQueryForwardID, hubVars
<1>6. ASSUME HubRestart PROVE Booked(c, id)'
  BY <1>6 DEF HubRestart, MayRestart, HubHolds
<1> QED
  BY <1>1, <1>2, <1>3, <1>4, <1>5, <1>6 DEF HubStep

-----------------------------------------------------------------------------
(* A keeper opens and closes no connection of a client. *)
LEMMA KeeperOpens ==
  ASSUME TypeInv, RegInv, NEW k \in Keepers, KeeperStep(k), UNCHANGED peer, NEW p
  PROVE  OpenAt(p)' = OpenAt(p)
<1>1. ASSUME NEW x \in ForwardConns PROVE srv'[x] = srv[x]
  <2>1. x \in Conns /\ x \notin KeeperEnds(k)
    BY ConnKinds DEF KeeperEnds
  <2> QED
    BY <2>1, KeeperFrame DEF RegInv, Untouched
<1> QED
  BY <1>1 DEF OpenAt

(* What a keeper sends to the hub goes out on its one connection, if that  *)
(* is up.                                                                  *)
LEMMA Relays ==
  ASSUME TypeInv, NEW k \in Keepers, NEW h, h = HubOf(k), Steady(h), NEW q \in Queues(Vetted(verified)),
         q[h] = c2s[h], NEW z, c2s' = SendC(q, keeperHubConn[k], z)
  PROVE  /\ (cli[h] = "up" /\ c2s'[h] = Append(c2s[h], z)) \/ (cli[h] # "up" /\ c2s'[h] = c2s[h])
         /\ \A c \in KeeperForwardConns : c2s'[c] = q[c]
<1>1. h \in HubKeeperConns /\ Owner(h) = k
  BY NetAssumption DEF HubOf, HubKeeperConns, Owner
<1>2. h \in Conns /\ h # NoConn /\ keeperHubConn[k] \in HubKeeperConns \cup {NoConn}
  BY <1>1, ConnKinds, NoConnNotConn DEF TypeInv, KeeperTypeOK, Opt
<1>3. cli[h] = "up" => c2s'[h] = Append(c2s[h], z)
  <2> HAVE cli[h] = "up"
  <2>1. keeperHubConn[k] = h /\ CanSendC(h)
    BY <1>1, <1>2 DEF Steady, Firm, CanSendC
  <2>2. c2s' = [q EXCEPT ![h] = Append(@, z)]
    BY <2>1, Zenon DEF SendC
  <2> QED
    BY <1>2, <2>2 DEF Queues
<1>4. cli[h] # "up" => c2s'[h] = c2s[h]
  <2> HAVE cli[h] # "up"
  <2> DEFINE x == keeperHubConn[k]
  <2>1. c2s' = q \/ (x # h /\ c2s' = [q EXCEPT ![x] = Append(@, z)])
    BY Zenon DEF SendC, CanSendC
  <2> HIDE DEF x
  <2> QED
    BY <1>2, <2>1 DEF Queues
<1>5. \A c \in KeeperForwardConns : c \in Conns /\ c # keeperHubConn[k]
  BY <1>2, ConnKinds, NoConnNotConn
<1>6. \A c \in KeeperForwardConns : c2s'[c] = q[c]
  BY <1>5 DEF SendC, Queues
<1> QED
  BY <1>3, <1>4, <1>6

(* A step of a keeper that has no report of id. *)
LEMMA KeeperAside ==
  ASSUME TypeInv, RegInv, NEW k \in Keepers, KeeperStep(k), UNCHANGED <<forwardConns, peer>>,
         NEW c \in KeeperForwardConns, NEW id, Booked(c, id), NEW l, l = KeeperOf[Owner(c)],
         cli'[HubOf(l)] = cli[HubOf(l)],
         Aside(c2s[HubOf(l)], c2s'[HubOf(l)], {Inc(l, id), Dec(l, id), Added(l, id)}),
         Aside(c2s[c], c2s'[c], {UpReport(l, id), DownReport(l, id)})
  PROVE  Booked(c, id)'
<1>1. OpenAt(Owner(c))' = OpenAt(Owner(c))
  BY KeeperOpens
<1>2. Kept(forwardConns[l], forwardConns'[l], id)
  BY KeptSame
<1> QED
  BY <1>1, <1>2, BookedAside

(* The account of id, for what it is worth in the next state. *)
LEMMA BookedNext ==
  ASSUME NEW c, NEW id, NEW k, k = KeeperOf[Owner(c)],
         Book(forwardConns'[k], c2s'[HubOf(k)], c2s'[c], k, id, Cardinality(OpenAt(Owner(c))'), cli'[HubOf(k)])
  PROVE  Booked(c, id)'
BY DEF Booked

(* A report from a forward process is a record of four fields. *)
LEMMA ReportIs ==
  ASSUME NEW v, NEW m \in Vetted(v), m.type = "KeeperForwardUpdateForwardConns"
  PROVE  m = Report(m.keeperserverid, m.forwardserverid, m.oper)
<1>1. m \in [type : {"HubKeeperUpdateForwardConns", "KeeperForwardUpdateForwardConns"},
             keeperserverid : Keepers, forwardserverid : ServerIds, oper : {"ADD", "REMOVE", "INC", "DEC"}]
  BY DEF Vetted, Message, FIN
<1>2. m = [type |-> m.type, keeperserverid |-> m.keeperserverid, forwardserverid |-> m.forwardserverid, oper |-> m.oper]
  BY <1>1
<1> QED
  BY <1>2 DEF Report

(* The reports of other ids are not those of id. *)
LEMMA OtherReports ==
  ASSUME NEW k, NEW id, NEW l, NEW j, j # id, NEW oper
  PROVE  UpdateForwardConns(l, j, oper) \notin {Inc(k, id), Dec(k, id), Added(k, id)}
BY ReportFields DEF Inc, Dec, Added

(* KeeperServer::onKeeperForwardUpdateForwardConns passes a report on. *)
LEMMA RelayLoads ==
  ASSUME TypeInv, RegInv, IdInv, SteadyInv, LoadInv, OneKeeperForAll, NEW k \in Keepers, NEW d \in KeeperForwardConns,
         KeeperOnKeeperForwardUpdateForwardConns(k, d), KeeperStep(k), UNCHANGED <<forwardConns, peer>>,
         NEW c \in KeeperForwardConns, NEW id \in ServerIds, Given(c, id)
  PROVE  Booked(c, id)'
<1> DEFINE R == "KeeperForwardUpdateForwardConns"
           V == Vetted(verified)
           m == Head(c2s[d])
           j == m.forwardserverid
           oper == m.oper
           h == HubOf(k)
           z == UpdateForwardConns(k, j, oper)
           q == Recv(c2s, d)
<1>0. /\ KeeperOf[Owner(c)] = k /\ h \in HubKeeperConns /\ h \in HubConns /\ h \in Conns /\ Owner(h) = k
      /\ c2s[h] \in Seq(V) /\ c2s[c] \in Seq(V) /\ forwardConns[k] \in Seq(ForwardEntry)
      /\ c \in Conns /\ c # h /\ d \in Conns /\ d # h
  <2>1. Owner(c) \in Forwards /\ Owner(d) \in Forwards /\ KeeperOf[Owner(d)] = k
    BY Carriers DEF KeeperOnKeeperForwardUpdateForwardConns
  <2>2. KeeperOf[Owner(c)] = k
    BY <2>1 DEF OneKeeperForAll
  <2>3. h \in HubKeeperConns /\ h \in HubConns /\ c # h /\ d # h /\ d \in Conns
    BY <2>2, Carriers, ConnKinds
  <2> QED
    BY <2>2, <2>3, Carriers
<1>a. Booked(c, id) /\ Steady(h)
  BY <1>0 DEF LoadInv, SteadyInv
<1>b. c2s \in Queues(V)
  BY DEF TypeInv, Mail
<1>1. /\ ReadsS(d, R) /\ UNCHANGED cli
      /\ c2s' = SendC(q, keeperHubConn[k], UpdateForwardConns(m.keeperserverid, j, oper))
  BY DEF KeeperOnKeeperForwardUpdateForwardConns, KeeperSendToHub
<1>2. m.type = R /\ c2s[d] # <<>> /\ m \in V /\ q \in Queues(V) /\ c2s[d] \in Seq(V)
  BY <1>0, <1>1, <1>b, ReadAtServer DEF ReadsS, Queues
<1>3. m \in Sent(c2s[d], R)
  BY <1>2, HeadSent
<1>4. m.keeperserverid = k /\ oper \in {"INC", "DEC"} /\ Given(d, j)
  <2>1. ReportsItself(d) /\ KeeperOf[Owner(d)] = k
    BY DEF IdInv, Linked, KeeperOnKeeperForwardUpdateForwardConns
  <2> QED
    BY <1>3, <2>1 DEF ReportsItself, AboutItself
<1>5. j \in ServerIds
  BY <1>4, GivenConfigured
<1>6. q[h] = c2s[h] /\ q[c] = IF d = c THEN Tail(c2s[c]) ELSE c2s[c]
  BY <1>0, <1>b DEF Recv, Queues
<1>7. m = Report(k, j, oper)
  BY <1>2, <1>4, ReportIs
<1> HIDE DEF m, j, oper, h, q
<1>8. c2s' = SendC(q, keeperHubConn[k], z)
  BY <1>1, <1>4
<1> HIDE DEF z
<1>9. /\ (cli[h] = "up" /\ c2s'[h] = Append(c2s[h], z)) \/ (cli[h] # "up" /\ c2s'[h] = c2s[h])
      /\ c2s'[c] = q[c]
  BY <1>2, <1>6, <1>8, <1>a, Relays, ZenonT(60) DEF h
<1>10. cli'[h] = cli[h]
  BY <1>1
<1>11. CASE d # c
  <2>1. j # id
    BY <1>4, <1>5, <1>11 DEF IdInv, GivenOnce
  <2>2. z \notin {Inc(k, id), Dec(k, id), Added(k, id)}
    BY <2>1, OtherReports DEF z
  <2>3. Aside(c2s[h], c2s'[h], {Inc(k, id), Dec(k, id), Added(k, id)})
    BY <1>9, <2>2 DEF Aside
  <2>4. Aside(c2s[c], c2s'[c], {UpReport(k, id), DownReport(k, id)})
    BY <1>6, <1>9, <1>11 DEF Aside
  <2> QED
    BY <1>0, <1>10, <1>a, <2>3, <2>4, KeeperAside DEF h
<1>12. CASE d = c
  <2>1. j = id
    BY <1>4, <1>5, <1>12 DEF IdInv, GivenOnce
  <2>2. PICK a, f, list, h2, open, state :
           /\ a = c2s[h] /\ f = c2s[c] /\ list = forwardConns[k] /\ open = Cardinality(OpenAt(Owner(c)))
           /\ h2 = c2s'[h] /\ state = cli[h]
    BY Zenon
  <2>3. /\ Book(list, a, f, k, id, open, state) /\ a \in Seq(V) /\ f \in Seq(V) /\ list \in Seq(ForwardEntry)
        /\ f # <<>> /\ Head(f) = Report(k, id, oper)
    BY <1>0, <1>2, <1>7, <1>12, <1>a, <2>1, <2>2 DEF Booked, h, m
  <2>4. h2 = Append(a, UpdateForwardConns(k, id, oper)) \/ (h2 = a /\ state # "up")
    BY <1>9, <2>1, <2>2 DEF z
  <2>5. Book(list, h2, Tail(f), k, id, open, state)
    BY <1>4, <2>3, <2>4, BookPass
  <2>6. OpenAt(Owner(c))' = OpenAt(Owner(c))
    BY KeeperOpens
  <2>7. Book(forwardConns'[k], c2s'[h], c2s'[c], k, id, Cardinality(OpenAt(Owner(c))'), cli'[h])
    BY <1>6, <1>9, <1>10, <1>12, <2>2, <2>5, <2>6
  <2> QED
    BY <1>0, <2>7, BookedNext DEF h
<1> QED
  BY <1>11, <1>12

(* KeeperServer::onQuery gives an id that the hub has heard nothing of, to *)
(* a process that serves nobody yet.                                       *)
LEMMA QueryLoads ==
  ASSUME TypeInv, RegInv, RouteInv, IdInv, ListInv, SteadyInv, LoadInv, OneKeeperForAll,
         NEW k \in Keepers, NEW d \in KeeperForwardConns,
         KeeperOnQuery(k, d), KeeperStep(k), UNCHANGED <<forwardConns, peer>>,
         NEW c \in KeeperForwardConns, NEW id \in ServerIds, Given(c, id)'
  PROVE  Booked(c, id)'
<1> DEFINE V == Vetted(verified)
           h == HubOf(k)
           q == Recv(c2s, d)
           F == "KeeperForwardUpdateForwardConns"
           H == "HubKeeperUpdateForwardConns"
<1>0. /\ KeeperOf[Owner(c)] = k /\ h \in HubKeeperConns /\ h \in HubConns /\ h \in Conns /\ Owner(h) = k
      /\ c2s[h] \in Seq(V) /\ c2s[c] \in Seq(V) /\ forwardConns[k] \in Seq(ForwardEntry)
      /\ c \in Conns /\ c # h /\ d \in Conns /\ d # h /\ KeeperOf[Owner(d)] = k /\ Owner(c) \in Forwards
  <2>1. Owner(c) \in Forwards /\ Owner(d) \in Forwards /\ KeeperOf[Owner(d)] = k
    BY Carriers DEF KeeperOnQuery
  <2>2. KeeperOf[Owner(c)] = k
    BY <2>1 DEF OneKeeperForAll
  <2>3. h \in HubKeeperConns /\ h \in HubConns /\ c # h /\ d # h /\ d \in Conns
    BY <2>2, Carriers, ConnKinds
  <2> QED
    BY <2>1, <2>2, <2>3, Carriers
<1>a. Steady(h) /\ c2s \in Queues(V)
  BY <1>0 DEF SteadyInv, TypeInv, Mail
<1>1. PICK j \in ServerIds :
         /\ ~isStarted(k, j)
         /\ c2s' = SendC(q, keeperHubConn[k], Added(k, j))
         /\ serverStart' = [serverStart EXCEPT ![k] = setStarted(@, j, TRUE, d)]
  BY QueryAnswered DEF Added
<1>2. /\ Given(c, id)' <=> (Given(c, id) \/ (c = d /\ id = j))
      /\ \A x \in KeeperForwardConns : KeeperOf[Owner(x)] = k => ~Given(x, j)
  BY <1>0, <1>1, GivenAppended DEF IdInv
<1>3. ReadsS(d, "KeeperQuery") /\ UNCHANGED cli
  BY DEF KeeperOnQuery
<1>4. c2s[d] # <<>> /\ q \in Queues(V) /\ c2s[d] \in Seq(V)
  BY <1>0, <1>3, <1>a, ReadAtServer DEF ReadsS, Queues
<1>5. /\ server[Owner(d)] = NoServer
      /\ \A x \in KeeperForwardConns : \A i \in ServerIds : Owner(x) = Owner(d) => ~Given(x, i)
  <2>1. Queries(c2s[d]) # {}
    <3>1. AsksOnce(d)
      BY DEF RouteInv, Route
    <3>2. Head(c2s[d]).type = "KeeperQuery"
      BY <1>3 DEF ReadsS
    <3> QED
      BY <1>4, <3>1, <3>2, QueriesTail DEF AsksOnce
  <2> QED
    BY <2>1, AskerServesNothing
<1>6. q[h] = c2s[h] /\ q[c] = IF d = c THEN Tail(c2s[c]) ELSE c2s[c]
  BY <1>0, <1>a DEF Recv, Queues
<1> HIDE DEF h, q
<1>7. /\ (cli[h] = "up" /\ c2s'[h] = Append(c2s[h], Added(k, j))) \/ (cli[h] # "up" /\ c2s'[h] = c2s[h])
      /\ c2s'[c] = q[c]
  BY <1>1, <1>4, <1>6, <1>a, Relays, ZenonT(60) DEF h
<1>8. CASE Given(c, id)
  <2>1. d # c /\ j # id
    BY <1>0, <1>2, <1>5, <1>8
  <2>2. Added(k, j) \notin {Inc(k, id), Dec(k, id), Added(k, id)}
    BY <2>1, OtherReports DEF Added
  <2>3. Aside(c2s[h], c2s'[h], {Inc(k, id), Dec(k, id), Added(k, id)})
    BY <1>7, <2>2 DEF Aside
  <2>4. Aside(c2s[c], c2s'[c], {UpReport(k, id), DownReport(k, id)})
    BY <1>6, <1>7, <2>1 DEF Aside
  <2>5. Booked(c, id) /\ cli'[h] = cli[h]
    BY <1>3, <1>8 DEF LoadInv
  <2> QED
    BY <1>0, <2>3, <2>4, <2>5, KeeperAside DEF h
<1>9. CASE c = d /\ id = j
  <2>1. ~Known(k, id)
    BY <1>2, <1>9 DEF Known
  <2>2. ~Lists(forwardConns[k], id)
    BY <2>1 DEF ListInv, Listing, Lists
  <2>3. ASSUME NEW oper, Has(c2s[h], UpdateForwardConns(k, id, oper)) PROVE FALSE
    <3> DEFINE m == UpdateForwardConns(k, id, oper)
    <3>1. m.type = H /\ m.forwardserverid = id
      BY ReportFields
    <3> HIDE DEF m
    <3>2. Has(c2s[h], m)
      BY <2>3 DEF m
    <3>3. m \in HubReports(h)
      BY <3>1, <3>2, HasSent DEF HubReports
    <3>4. Known(Owner(h), m.forwardserverid)
      BY <1>0, <3>3 DEF ListInv, Reported
    <3> QED
      BY <1>0, <2>1, <3>1, <3>4
  <2>4. ASSUME NEW oper, Has(c2s[c], Report(k, id, oper)) PROVE FALSE
    <3> DEFINE m == Report(k, id, oper)
    <3>1. m.type = F /\ m.forwardserverid = id
      BY DEF Report
    <3> HIDE DEF m
    <3>2. Has(c2s[c], m)
      BY <2>4 DEF m
    <3>3. m \in Sent(c2s[c], F)
      BY <3>1, <3>2, HasSent
    <3>4. Given(c, m.forwardserverid)
      BY <3>3 DEF IdInv, Linked, ReportsItself, AboutItself
    <3> QED
      BY <1>0, <2>1, <3>1, <3>4 DEF Known
  <2>5. /\ ~Has(c2s[h], Added(k, id)) /\ ~Has(c2s[h], Inc(k, id)) /\ ~Has(c2s[h], Dec(k, id))
        /\ ~Has(c2s[c], UpReport(k, id)) /\ ~Has(c2s[c], DownReport(k, id))
    BY <2>3, <2>4 DEF Added, Inc, Dec, UpReport, DownReport
  <2>6. ~Has(Tail(c2s[c]), UpReport(k, id)) /\ ~Has(Tail(c2s[c]), DownReport(k, id)) /\ Tail(c2s[c]) \in Seq(V)
    <3>1. \A m : Has(Tail(c2s[c]), m) => Has(c2s[c], m)
      BY <1>0, <1>4, <1>9, QueueElements
    <3> QED
      BY <1>0, <1>4, <1>9, <2>5, <3>1
  <2>7. Cardinality(OpenAt(Owner(c))') = 0
    <3>1. OpenAt(Owner(c))' = OpenAt(Owner(c))
      BY KeeperOpens
    <3>2. OpenAt(Owner(c)) = {}
      BY <1>0, <1>5, <1>9 DEF OpenAt, Open, TypeInv, WellFormed, ServedByServer
    <3> QED
      BY <3>1, <3>2, FS_EmptySet
  <2>8. PICK a, f, list, h2, state :
           a = c2s[h] /\ f = Tail(c2s[c]) /\ list = forwardConns[k] /\ h2 = c2s'[h] /\ state = cli[h]
    BY Zenon
  <2>9. /\ a \in Seq(V) /\ f \in Seq(V) /\ ~Lists(list, id)
        /\ ~Has(a, Added(k, id)) /\ ~Has(a, Inc(k, id)) /\ ~Has(a, Dec(k, id))
        /\ ~Has(f, UpReport(k, id)) /\ ~Has(f, DownReport(k, id))
    BY <1>0, <2>2, <2>5, <2>6, <2>8
  <2>10. h2 = a \/ (h2 = Append(a, Added(k, id)) /\ state = "up")
    BY <1>7, <1>9, <2>8
  <2>11. Book(list, h2, f, k, id, 0, state)
    BY <2>9, <2>10, BookNew
  <2>12. Book(forwardConns'[k], c2s'[h], c2s'[c], k, id, Cardinality(OpenAt(Owner(c))'), cli'[h])
    BY <1>3, <1>6, <1>7, <1>9, <2>7, <2>8, <2>11
  <2> QED
    BY <1>0, <2>12, BookedNext DEF h
<1> QED
  BY <1>2, <1>8, <1>9

(* A keeper that connects to the hub has not told it of any id. *)
LEMMA ConnectLoads ==
  ASSUME TypeInv, RegInv, SteadyInv, LoadInv, NEW k \in Keepers, NEW d \in HubKeeperConns,
         KeeperConnectHub(k, d), KeeperStep(k), UNCHANGED <<forwardConns, peer>>,
         NEW c \in KeeperForwardConns, NEW id \in ServerIds, Given(c, id)
  PROVE  Booked(c, id)'
<1> DEFINE l == KeeperOf[Owner(c)]
           h == HubOf(l)
           n == [type |-> "HubConnectionData", servertype |-> "KEEPER", serverid |-> k]
<1>0. /\ h \in HubKeeperConns /\ h \in Conns /\ c \in Conns /\ c # h /\ Owner(h) = l /\ d \in Conns /\ c # d
  BY Carriers, ConnKinds
<1>1. d = HubOf(k) /\ cli[d] = "none" /\ Owner(d) = k
  BY ConnectsOnce DEF SteadyInv, KeeperConnectHub
<1>2. c2s' = [c2s EXCEPT ![d] = <<n>>] /\ cli' = [cli EXCEPT ![d] = "up"]
  BY DEF KeeperConnectHub, Connected
<1>3. c2s \in Queues(Vetted(verified)) /\ cli \in [Conns -> EndState]
  BY DEF TypeInv, Mail, Ends
<1>4. Booked(c, id)
  BY DEF LoadInv
<1>5. n.type = "HubConnectionData"
  OBVIOUS
<1> HIDE DEF n, l, h
<1>6. c2s'[c] = c2s[c] /\ c2s'[h] = (IF h = d THEN <<n>> ELSE c2s[h]) /\ cli'[h] = (IF h = d THEN "up" ELSE cli[h])
  BY <1>0, <1>2, <1>3 DEF Queues
<1>7. CASE h # d
  <2>1. Aside(c2s[h], c2s'[h], {Inc(l, id), Dec(l, id), Added(l, id)})
    BY <1>6, <1>7 DEF Aside
  <2>2. Aside(c2s[c], c2s'[c], {UpReport(l, id), DownReport(l, id)})
    BY <1>6 DEF Aside
  <2> QED
    BY <1>4, <1>6, <1>7, <2>1, <2>2, KeeperAside DEF h, l
<1>8. CASE h = d
  <2>1. ~Lists(forwardConns[l], id)
    BY <1>1, <1>4, <1>8 DEF Booked, Book, h, l
  <2>2. ASSUME NEW i \in DOMAIN <<n>> PROVE <<n>>[i] # Added(l, id)
    <3>1. <<n>>[i] = n
      OBVIOUS
    <3>2. Added(l, id).type # n.type
      BY <1>5, ReportFields DEF Added
    <3> QED
      BY <3>1, <3>2
  <2>3. Has(<<n>>, Added(l, id)) => FALSE
    BY <2>2 DEF Has
  <2>4. Leads(<<n>>, l, id)
    BY <2>2 DEF Leads
  <2>5. ASSUME NEW f, NEW open, NEW state PROVE Book(forwardConns[l], <<n>>, f, l, id, open, state)
    BY <2>1, <2>3, <2>4 DEF Book, Lists
  <2>6. Book(forwardConns'[l], c2s'[h], c2s'[c], l, id, Cardinality(OpenAt(Owner(c))'), cli'[h])
    BY <1>6, <1>8, <2>5
  <2> QED
    BY <2>6, BookedNext DEF h, l
<1> QED
  BY <1>7, <1>8

(* The hub's accounts stay right as a keeper gives ids and passes reports  *)
(* on.                                                                     *)
LEMMA KeeperLoads ==
  ASSUME TypeInv, RegInv, RouteInv, IdInv, ListInv, SteadyInv, LoadInv, LinksHold, OneKeeperForAll,
         NEW k \in Keepers, KeeperStep(k), UNCHANGED <<forwardConns, peer>>,
         NEW c \in KeeperForwardConns, NEW id \in ServerIds, Given(c, id)'
  PROVE  Booked(c, id)'
<1> DEFINE V == Vetted(verified)
           l == KeeperOf[Owner(c)]
           h == HubOf(l)
           SH == {Inc(l, id), Dec(l, id), Added(l, id)}
           SF == {UpReport(l, id), DownReport(l, id)}
<1>0. /\ l \in Keepers /\ h \in HubKeeperConns /\ h \in Conns /\ c \in Conns /\ c # h /\ Owner(h) = l
      /\ c2s[h] \in Seq(V) /\ c2s[c] \in Seq(V)
  BY Carriers, ConnKinds
<1>a. Steady(h) /\ c2s \in Queues(V)
  BY <1>0 DEF SteadyInv, TypeInv, Mail
<1>b. /\ \A m \in SH : m.type = "HubKeeperUpdateForwardConns"
      /\ \A m \in SF : m.type = "KeeperForwardUpdateForwardConns"
  BY ReportFields DEF Inc, Dec, Added, UpReport, DownReport, Report
<1>c. UNCHANGED serverStart => Given(c, id)
  BY DEF Given
<1>d. Given(c, id) => Booked(c, id)
  BY DEF LoadInv
<1>e. ASSUME Given(c, id), UNCHANGED cli, Aside(c2s[h], c2s'[h], SH), Aside(c2s[c], c2s'[c], SF)
      PROVE  Booked(c, id)'
  <2>1. cli'[h] = cli[h]
    BY <1>e
  <2> QED
    BY <1>d, <1>e, <2>1, KeeperAside
<1>f. Aside(c2s[h], c2s[h], SH) /\ Aside(c2s[c], c2s[c], SF)
  BY DEF Aside
<1>g. ASSUME NEW d \in KeeperForwardConns, NEW t, ReadsS(d, t), t # "KeeperForwardUpdateForwardConns"
      PROVE  /\ Recv(c2s, d) \in Queues(V) /\ Recv(c2s, d)[h] = c2s[h]
             /\ Aside(c2s[c], Recv(c2s, d)[c], SF)
  <2>1. d \in Conns /\ d # h
    BY <1>0, ConnKinds
  <2>2. Recv(c2s, d) \in Queues(V) /\ Recv(c2s, d)[h] = c2s[h] /\ Recv(c2s, d)[c] = IF d = c THEN Tail(c2s[c]) ELSE c2s[c]
    BY <1>0, <1>a, <1>g, <2>1, ReadAtServer DEF Recv, Queues
  <2>3. CASE d = c
    <3>1. c2s[c] # <<>> /\ Head(c2s[c]).type = t
      BY <1>g, <2>3 DEF ReadsS
    <3>2. Head(c2s[c]) \notin SF
      BY <1>b, <1>g, <3>1
    <3> HIDE DEF SF
    <3> QED
      BY <2>2, <2>3, <3>1, <3>2 DEF Aside
  <2>4. CASE d # c
    BY <1>f, <2>2, <2>4
  <2> QED
    BY <2>3, <2>4
<1> HIDE DEF h, l, SH, SF
<1>1. ASSUME NEW d \in HubKeeperConns, KeeperConnectHub(k, d) PROVE Booked(c, id)'
  BY <1>1, <1>c, ConnectLoads DEF KeeperConnectHub
<1>2. ASSUME NEW d \in HubKeeperConns, KeeperOnHubConnectionDown(k, d) PROVE Booked(c, id)'
  BY <1>2, SteadyStays DEF KeeperOnHubConnectionDown, SteadyInv
<1>3. ASSUME NEW d \in HubKeeperConns, KeeperOnHubKeeperLogonSession(k, d) PROVE Booked(c, id)'
  <2>1. UNCHANGED <<cli, c2s, serverStart>>
    BY <1>3 DEF KeeperOnHubKeeperLogonSession, keeperVars
  <2>2. c2s'[h] = c2s[h] /\ c2s'[c] = c2s[c]
    BY <2>1
  <2> QED
    BY <1>c, <1>e, <1>f, <2>1, <2>2
<1>4. ASSUME NEW d \in KeeperForwardConns, KeeperOnConnectionDown(k, d) PROVE Booked(c, id)'
  <2>1. c2s' = Drained(c2s, d) /\ UNCHANGED <<serverStart, cli>>
    BY <1>4, RefusedGoes DEF KeeperOnConnectionDown
  <2>2. Given(c, id)
    BY <1>c, <2>1
  <2>3. d # c
    <3> SUFFICES ASSUME d = c PROVE FALSE
      OBVIOUS
    <3>1. ClosesS(c) /\ Linked(c)
      BY <1>4 DEF KeeperOnConnectionDown, IdInv
    <3>2. c2s[c] # <<>> /\ Head(c2s[c]) = FIN
      BY <3>1 DEF ClosesS, Linked, StaysUp
    <3> QED
      BY <2>2, <3>1, <3>2, NotGiven
  <2>4. d # h /\ d \in Conns
    BY <1>0, ConnKinds
  <2>5. c2s'[h] = c2s[h] /\ c2s'[c] = c2s[c]
    BY <1>0, <1>a, <2>1, <2>3, <2>4 DEF Drained, Queues
  <2> QED
    BY <1>e, <1>f, <2>1, <2>2, <2>5
<1>5. ASSUME NEW d \in KeeperForwardConns, KeeperOnQuery(k, d) PROVE Booked(c, id)'
  BY <1>5, QueryLoads
<1>6. ASSUME NEW d \in KeeperForwardConns, KeeperOnQueryDuplicate(k, d) PROVE Booked(c, id)'
  <2>1. c2s' = Recv(c2s, d) /\ UNCHANGED <<serverStart, cli>> /\ ReadsS(d, "KeeperQuery")
    BY <1>6 DEF KeeperOnQueryDuplicate, keeperVars
  <2>2. c2s'[h] = c2s[h] /\ Aside(c2s[c], c2s'[c], SF)
    BY <1>g, <2>1
  <2> QED
    BY <1>c, <1>e, <1>f, <2>1, <2>2
<1>7. ASSUME NEW d \in KeeperForwardConns, KeeperOnKeeperForwardLogonSessionRet(k, d) PROVE Booked(c, id)'
  <2> DEFINE q == Recv(c2s, d)
  <2>1. PICK m : m.type = "HubKeeperLogonSessionRet" /\ c2s' = SendC(q, keeperHubConn[k], m)
    BY <1>7 DEF KeeperOnKeeperForwardLogonSessionRet, KeeperSendToHub
  <2>2. UNCHANGED <<serverStart, cli>> /\ ReadsS(d, "KeeperForwardLogonSessionRet") /\ KeeperOf[Owner(d)] = k
    BY <1>7 DEF KeeperOnKeeperForwardLogonSessionRet, keeperVars
  <2>3. q \in Queues(V) /\ q[h] = c2s[h] /\ Aside(c2s[c], q[c], SF)
    BY <1>g, <2>2
  <2>4. l = k
    BY <2>2, Carriers DEF l, OneKeeperForAll
  <2> HIDE DEF q
  <2>5. /\ (cli[h] = "up" /\ c2s'[h] = Append(c2s[h], m)) \/ (cli[h] # "up" /\ c2s'[h] = c2s[h])
        /\ c2s'[c] = q[c]
    BY <1>a, <2>1, <2>3, <2>4, Relays, ZenonT(60) DEF h
  <2>6. m \notin SH
    BY <1>b, <2>1
  <2>7. Aside(c2s[h], c2s'[h], SH)
    BY <2>5, <2>6 DEF Aside
  <2> QED
    BY <1>c, <1>e, <2>2, <2>3, <2>5, <2>7
<1>8. ASSUME NEW d \in KeeperForwardConns, KeeperOnKeeperForwardUpdateForwardConns(k, d) PROVE Booked(c, id)'
  BY <1>8, <1>c, RelayLoads DEF KeeperOnKeeperForwardUpdateForwardConns, keeperVars
<1>9. ASSUME KeeperOnQueryDone(k) PROVE Booked(c, id)'
  <2>1. UNCHANGED <<cli, c2s, serverStart>>
    BY <1>9 DEF KeeperOnQueryDone, netVars
  <2>2. c2s'[h] = c2s[h] /\ c2s'[c] = c2s[c]
    BY <2>1
  <2> QED
    BY <1>c, <1>e, <1>f, <2>1, <2>2
<1>10. ASSUME KeeperRestart(k) PROVE Booked(c, id)'
  BY <1>10 DEF KeeperRestart, MayRestart, LinksHold
<1> QED
  BY <1>1, <1>2, <1>3, <1>4, <1>5, <1>6, <1>7, <1>8, <1>9, <1>10 DEF KeeperStep

-----------------------------------------------------------------------------
(* There are finitely many connections of clients. *)
LEMMA FiniteOpen ==
  ASSUME IsFiniteSet(Clients), NEW p
  PROVE  IsFiniteSet(OpenAt(p)) /\ Cardinality(OpenAt(p)) \in Nat
<1> DEFINE T == Clients \X (1..MaxConn)
           f == [x \in ForwardConns |-> <<x[2], x[3]>>]
<1>1. IsFiniteSet(1..MaxConn)
  BY FS_Interval, NetAssumption
<1>2. IsFiniteSet(T)
  BY <1>1, FS_Product
<1>3. f \in [ForwardConns -> T]
  BY DEF ForwardConns
<1>4. \A x, y \in ForwardConns : f[x] = f[y] => x = y
  BY DEF ForwardConns
<1>5. f \in Injection(ForwardConns, T)
  BY <1>3, <1>4 DEF Injection, IsInjective
<1>6. IsFiniteSet(ForwardConns)
  BY <1>2, <1>5, FS_Injection
<1>7. OpenAt(p) \in SUBSET ForwardConns
  BY DEF OpenAt
<1> QED
  BY <1>6, <1>7, FS_Subset, FS_CardinalityType

(* What ForwardServer::onConnection does to the number of connections that *)
(* are open.                                                               *)
LEMMA OpensOne ==
  ASSUME TypeInv, IsFiniteSet(Clients), NEW p \in Forwards, NEW x \in ForwardConns
  PROVE  /\ ForwardOnConnectionUp(p, x) => Cardinality(OpenAt(p)') = Cardinality(OpenAt(p)) + 1
         /\ ForwardOnConnectionDown(p, x) => Cardinality(OpenAt(p)') = Cardinality(OpenAt(p)) - 1
         /\ ForwardOnConnectionUp(p, x) \/ ForwardOnConnectionDown(p, x) =>
               /\ Cardinality(OpenAt(p)') \in Nat
               /\ \A r : r # p => OpenAt(r)' = OpenAt(r)
<1>0. IsFiniteSet(OpenAt(p)) /\ Cardinality(OpenAt(p)) \in Nat
  BY FiniteOpen
<1>1. /\ \A y \in ForwardConns : y \in Conns
      /\ srv \in [Conns -> EndState]
  BY ConnKinds DEF TypeInv, Ends
<1>2. ASSUME ForwardOnConnectionUp(p, x)
      PROVE  /\ Cardinality(OpenAt(p)') = Cardinality(OpenAt(p)) + 1
             /\ Cardinality(OpenAt(p)') \in Nat
             /\ \A r : r # p => OpenAt(r)' = OpenAt(r)
  <2>1. peer[x] = p /\ srv[x] = "none" /\ srv' = [srv EXCEPT ![x] = "up"] /\ peer' = peer
    BY <1>2 DEF ForwardOnConnectionUp, forwardVars
  <2>2. \A y \in ForwardConns : srv'[y] = IF y = x THEN "up" ELSE srv[y]
    BY <1>1, <2>1
  <2>3. OpenAt(p)' = OpenAt(p) \cup {x} /\ x \notin OpenAt(p)
    BY <2>1, <2>2 DEF OpenAt, Open
  <2>4. \A r : r # p => OpenAt(r)' = OpenAt(r)
    BY <2>1, <2>2 DEF OpenAt
  <2>5. IsFiniteSet(OpenAt(p) \cup {x})
    BY <1>0, FS_AddElement
  <2>6. Cardinality(OpenAt(p)') \in Nat
    BY <2>3, <2>5, FS_CardinalityType
  <2> QED
    BY <1>0, <2>3, <2>4, <2>6, FS_AddElement, ZenonT(60)
<1>3. ASSUME ForwardOnConnectionDown(p, x)
      PROVE  /\ Cardinality(OpenAt(p)') = Cardinality(OpenAt(p)) - 1
             /\ Cardinality(OpenAt(p)') \in Nat
             /\ \A r : r # p => OpenAt(r)' = OpenAt(r)
  <2>1. peer[x] = p /\ srv[x] \in Open /\ srv' = [srv EXCEPT ![x] = "down"] /\ peer' = peer
    BY <1>3 DEF ForwardOnConnectionDown, forwardVars, ClosesS, CloseS
  <2>2. \A y \in ForwardConns : srv'[y] = IF y = x THEN "down" ELSE srv[y]
    BY <1>1, <2>1
  <2>3. OpenAt(p)' = OpenAt(p) \ {x} /\ x \in OpenAt(p)
    BY <2>1, <2>2 DEF OpenAt, Open
  <2>4. \A r : r # p => OpenAt(r)' = OpenAt(r)
    BY <2>1, <2>2 DEF OpenAt
  <2>5. IsFiniteSet(OpenAt(p) \ {x})
    BY <1>0, FS_RemoveElement
  <2>6. Cardinality(OpenAt(p)') \in Nat
    BY <2>3, <2>5, FS_CardinalityType
  <2> QED
    BY <1>0, <2>3, <2>4, <2>6, FS_RemoveElement
<1> QED
  BY <1>2, <1>3

(* A forward process that was given an id on c reports on c, of that id.   *)
LEMMA ReportsHere ==
  ASSUME TypeInv, IdInv, NEW p \in Forwards, server[p] # NoServer,
         NEW c \in KeeperForwardConns, NEW id \in ServerIds, Given(c, id), Owner(c) = p
  PROVE  /\ keeperConn[p] = c /\ CanSendC(c)
         /\ \A oper : UpdateConns(p, oper) = Report(KeeperOf[p], id, oper)
<1>1. StaysUp(c) /\ Placed(p) /\ c # NoConn
  BY ConnKinds, NoConnNotConn DEF IdInv, Linked
<1>2. PICK d \in KeeperConnsOf(p) : Given(d, server[p])
  BY <1>1 DEF Placed
<1>3. d \in KeeperForwardConns /\ Owner(d) = p /\ server[p] \in ServerIds
  BY DEF KeeperConnsOf, TypeInv, ForwardTypeOK, Opt
<1>4. server[p] = id
  BY <1>2, <1>3 DEF IdInv, GivenOnce
<1>5. Firm(c) /\ ~lost[c] /\ (cli[c] = "up" => keeperConn[p] = c)
  BY <1>1 DEF StaysUp
<1>6. keeperConn[p] = c /\ CanSendC(c)
  BY <1>1, <1>5 DEF Firm, CanSendC
<1> QED
  BY <1>4, <1>6 DEF UpdateConns, Report

(* No server has more clients than the hub can count. *)
FewClients == \A p \in Forwards : Cardinality(OpenAt(p)) < 65536

(* The account of an id takes a report of the process that serves it. *)
LEMMA ReportLoads ==
  ASSUME TypeInv, RegInv, IdInv, LoadInv, IsFiniteSet(Clients), FewClients', NEW p \in Forwards, NEW x \in ForwardConns,
         ForwardOnConnectionUp(p, x) \/ ForwardOnConnectionDown(p, x), ForwardStep(p), UNCHANGED <<forwardConns, peer>>,
         NEW c \in KeeperForwardConns, NEW id \in ServerIds, Given(c, id), Owner(c) = p
  PROVE  Booked(c, id)'
<1> DEFINE V == Vetted(verified)
           k == KeeperOf[p]
           h == HubOf(k)
           open2 == Cardinality(OpenAt(p)')
<1>0. /\ k \in Keepers /\ h \in HubKeeperConns /\ h \in Conns /\ c \in Conns /\ x \in Conns /\ x # c
      /\ c2s[h] \in Seq(V) /\ c2s[c] \in Seq(V) /\ forwardConns[k] \in Seq(ForwardEntry)
      /\ h \notin KeeperConnsOf(p) /\ h \notin ForwardConns
  BY Carriers, ConnKinds DEF KeeperConnsOf
<1>1. Untouched(h)
  BY <1>0, ForwardFrame DEF RegInv
<1>2. Booked(c, id) /\ c2s \in Queues(V)
  BY DEF LoadInv, TypeInv, Mail
<1>3. server[p] # NoServer
  <2>1. peer[x] = p /\ srv[x] # "down"
    BY DEF ForwardOnConnectionUp, ForwardOnConnectionDown, ClosesS, Open
  <2> QED
    BY <2>1 DEF TypeInv, WellFormed, ServedByServer
<1>4. keeperConn[p] = c /\ CanSendC(c) /\ \A oper : UpdateConns(p, oper) = Report(k, id, oper)
  BY <1>3, ReportsHere
<1>5. Cardinality(OpenAt(p)) \in Nat /\ open2 \in Nat /\ open2 \in UInt16
  <2>1. Cardinality(OpenAt(p)) \in Nat
    BY FiniteOpen
  <2>2. open2 = Cardinality(OpenAt(p)) + 1 \/ open2 = Cardinality(OpenAt(p)) - 1
    BY OpensOne
  <2>3. open2 \in Nat
    BY OpensOne
  <2>4. open2 < 65536
    BY DEF FewClients
  <2> QED
    BY <2>1, <2>3, <2>4 DEF UInt16
<1>6. ASSUME NEW oper \in {"INC", "DEC"}, open2 = Cardinality(OpenAt(p)) + (IF oper = "INC" THEN 1 ELSE -1),
             c2s'[c] = Append(c2s[c], UpdateConns(p, oper))
      PROVE  Booked(c, id)'
  <2> DEFINE z == Report(k, id, oper)
  <2>1. c2s'[c] = Append(c2s[c], z)
    BY <1>4, <1>6
  <2>2. Sway(z, UpReport(k, id), DownReport(k, id)) = IF oper = "INC" THEN 1 ELSE -1
    BY ReportsDiffer DEF Sway, UpReport, DownReport
  <2>3. PICK a, f, list, open, state, new :
           /\ a = c2s[h] /\ f = c2s[c] /\ list = forwardConns[k] /\ open = Cardinality(OpenAt(p))
           /\ state = cli[h] /\ new = open2
    BY Zenon
  <2>4. Book(list, a, f, k, id, open, state) /\ f \in Seq(V) /\ list \in Seq(ForwardEntry) /\ new \in UInt16
    BY <1>0, <1>2, <1>5, <2>3 DEF Booked
  <2> HIDE DEF z
  <2>5. new = open + Sway(z, UpReport(k, id), DownReport(k, id))
    BY <1>6, <2>2, <2>3
  <2>6. Book(list, a, Append(f, z), k, id, new, state)
    BY <2>4, <2>5, BookReport
  <2>7. Book(forwardConns'[k], c2s'[h], c2s'[c], k, id, open2, cli'[h])
    BY <1>1, <2>1, <2>3, <2>6 DEF Untouched
  <2> QED
    BY <2>7, BookedNext
<1>7. CASE ForwardOnConnectionUp(p, x)
  <2>1. c2s' = SendC(c2s, keeperConn[p], UpdateConns(p, "INC"))
    BY <1>7 DEF ForwardOnConnectionUp, ForwardSendToKeeper
  <2>2. c2s'[c] = Append(c2s[c], UpdateConns(p, "INC"))
    BY <1>0, <1>2, <1>4, <2>1 DEF SendC, Queues
  <2>3. open2 = Cardinality(OpenAt(p)) + 1
    BY <1>7, OpensOne
  <2> HIDE DEF open2
  <2> QED
    BY <1>6, <2>2, <2>3
<1>8. CASE ForwardOnConnectionDown(p, x)
  <2>1. c2s' = SendC(Drained(c2s, x), keeperConn[p], UpdateConns(p, "DEC"))
    BY <1>8 DEF ForwardOnConnectionDown, ForwardSendToKeeper
  <2>2. Drained(c2s, x) \in Queues(V) /\ Drained(c2s, x)[c] = c2s[c]
    BY <1>0, <1>2, DrainedType DEF Drained, Queues
  <2>3. c2s'[c] = Append(c2s[c], UpdateConns(p, "DEC"))
    BY <1>0, <1>4, <2>1, <2>2 DEF SendC, Queues
  <2>4. open2 = Cardinality(OpenAt(p)) - 1
    BY <1>8, OpensOne
  <2> HIDE DEF open2
  <2>5. open2 = Cardinality(OpenAt(p)) + (IF "DEC" = "INC" THEN 1 ELSE -1)
    BY <1>5, <2>4
  <2> QED
    BY <1>6, <2>3, <2>5
<1> QED
  BY <1>7, <1>8

(* A process that is answered has no connection of a client, so that       *)
(* ~ForwardServer has none to report.                                      *)
LEMMA AnswerSendsNothing ==
  ASSUME TypeInv, IdInv, NEW p \in Forwards, NEW d \in KeeperConnsOf(p), ForwardOnAnswer(p, d),
         NEW c \in KeeperForwardConns
  PROVE  c2s'[c] = c2s[c]
<1> DEFINE V == Vetted(verified)
           q == Emptied(c2s, ClientConnsOf(p))
<1>0. c \in Conns /\ c \notin ForwardConns /\ c # NoConn /\ c2s \in Queues(V) /\ c2s[c] \in Seq(V)
  BY ConnKinds, NoConnNotConn DEF TypeInv, Mail, Queues
<1>1. PICK n \in 0..Cardinality({x \in ClientConnsOf(p) : srv[x] = "up"}) :
         c2s' = IF CanSendC(keeperConn[p])
                THEN [q EXCEPT ![keeperConn[p]] = @ \o [i \in 1..n |-> UpdateConns(p, "DEC")]]
                ELSE q
  BY DEF ForwardOnAnswer
<1>2. n = 0
  <2>1. \A x \in ClientConnsOf(p) : srv[x] = "down"
    BY AnswerRead DEF ForwardOnAnswer
  <2>2. {x \in ClientConnsOf(p) : srv[x] = "up"} = {}
    BY <2>1
  <2> QED
    BY <2>2, FS_EmptySet
<1>3. q \in Queues(V) /\ q[c] = c2s[c]
  BY <1>0, EmptiedType DEF Emptied, ClientConnsOf
<1> HIDE DEF q
<1>4. c2s'[c] \in {c2s[c], c2s[c] \o [i \in 1..n |-> UpdateConns(p, "DEC")]}
  BY <1>0, <1>1, <1>3 DEF Queues
<1>5. [i \in 1..n |-> UpdateConns(p, "DEC")] = <<>>
  BY <1>2
<1>6. c2s[c] \o <<>> = c2s[c]
  BY <1>0
<1> QED
  BY <1>4, <1>5, <1>6

(* A forward process reports on its own connection to the keeper only what *)
(* happens to its clients, and every time.                                 *)
LEMMA ForwardLoads ==
  ASSUME TypeInv, RegInv, RouteInv, IdInv, LoadInv, LinksHold, IsFiniteSet(Clients), FewClients', NEW p \in Forwards,
         ForwardStep(p), UNCHANGED <<forwardConns, serverStart>>,
         NEW c \in KeeperForwardConns, NEW id \in ServerIds, Given(c, id)
  PROVE  Booked(c, id)'
<1> DEFINE V == Vetted(verified)
           k == KeeperOf[Owner(c)]
           h == HubOf(k)
           S == {UpReport(k, id), DownReport(k, id)}
           Reports == \E x \in ForwardConns : ForwardOnConnectionUp(p, x) \/ ForwardOnConnectionDown(p, x)
<1>0. /\ h \in Conns /\ h \notin KeeperForwardConns /\ h \notin ForwardConns /\ h \notin KeeperConnsOf(p)
      /\ c \in Conns /\ c \notin ForwardConns /\ c # NoConn /\ c2s[c] \in Seq(V)
      /\ \A x \in ForwardConns : x \in Conns /\ x # c
      /\ \A d \in KeeperConnsOf(p) : d \in KeeperForwardConns /\ d \in Conns
  BY Carriers, ConnKinds, NoConnNotConn DEF KeeperConnsOf
<1>a. Booked(c, id) /\ Linked(c) /\ c2s \in Queues(V)
  BY DEF LoadInv, IdInv, TypeInv, Mail
<1>b. Untouched(h) /\ peer' = peer
  BY <1>0, ForwardFrame, ForwardOpens DEF RegInv
<1>c. \A m \in S : m.type = "KeeperForwardUpdateForwardConns"
  BY DEF UpReport, DownReport, Report
<1>d. Firm(c)
  BY <1>a DEF Linked, StaysUp
<1> HIDE DEF h, k, S
<1>e. ASSUME Aside(c2s[c], c2s'[c], S), OpenAt(Owner(c))' = OpenAt(Owner(c)) PROVE Booked(c, id)'
  <2>1. Aside(c2s[h], c2s'[h], {Inc(k, id), Dec(k, id), Added(k, id)}) /\ cli'[h] = cli[h]
    BY <1>b DEF Untouched, Aside
  <2>2. Kept(forwardConns[k], forwardConns'[k], id)
    BY KeptSame
  <2> QED
    BY <1>a, <1>e, <2>1, <2>2, BookedAside DEF h, k, S
<1>f. CASE Reports
  <2>1. PICK x \in ForwardConns : ForwardOnConnectionUp(p, x) \/ ForwardOnConnectionDown(p, x)
    BY <1>f
  <2>2. CASE Owner(c) = p
    BY <1>b, <2>1, <2>2, ReportLoads
  <2>3. CASE Owner(c) # p
    <3>1. OpenAt(Owner(c))' = OpenAt(Owner(c))
      BY <2>1, <2>3, OpensOne
    <3>2. c \notin KeeperConnsOf(p)
      BY <2>3 DEF KeeperConnsOf
    <3>3. Untouched(c)
      BY <1>0, <3>2, ForwardFrame DEF RegInv
    <3>4. Aside(c2s[c], c2s'[c], S)
      BY <3>3 DEF Untouched, Aside
    <3> QED
      BY <1>e, <3>1, <3>4
  <2> QED
    BY <2>2, <2>3
<1>g. CASE ~Reports
  <2>1. \A x \in ForwardConns : SameEnd(x)
    BY <1>g, ForwardOpens
  <2>2. OpenAt(Owner(c))' = OpenAt(Owner(c))
    BY <1>b, <2>1 DEF OpenAt, SameEnd
  <2>3. Aside(c2s[c], c2s'[c], S)
    <3>a. ASSUME c2s'[c] = c2s[c] PROVE Aside(c2s[c], c2s'[c], S)
      BY <3>a DEF Aside
    <3>1. ASSUME NEW d \in KeeperConnsOf(p), ForwardConnectKeeper(p, d) PROVE Aside(c2s[c], c2s'[c], S)
      <4>1. PICK m : c2s' = [c2s EXCEPT ![d] = m] /\ cli[d] = "none"
        BY <3>1 DEF ForwardConnectKeeper, Connected, MayConnect
      <4>2. d # c
        BY <1>d, <4>1 DEF Firm
      <4> QED
        BY <1>0, <1>a, <3>a, <4>1, <4>2 DEF Queues
    <3>2. ASSUME NEW d \in KeeperConnsOf(p), ForwardOnKeeperConnectionDown(p, d) PROVE Aside(c2s[c], c2s'[c], S)
      <4>1. c2s' = SendC(c2s, d, FIN)
        BY <3>2 DEF ForwardOnKeeperConnectionDown, CloseC
      <4>2. c2s'[c] = c2s[c] \/ c2s'[c] = Append(c2s[c], FIN)
        BY <1>0, <1>a, <4>1 DEF SendC, Queues
      <4>3. FIN \notin S
        BY <1>c DEF FIN
      <4> QED
        BY <4>2, <4>3 DEF Aside
    <3>3. ASSUME NEW d \in KeeperConnsOf(p), ForwardOnAnswer(p, d) PROVE Aside(c2s[c], c2s'[c], S)
      BY <3>3, <3>a, AnswerSendsNothing
    <3>4. ASSUME NEW d \in KeeperConnsOf(p), ForwardOnAnswerAbort(p, d) PROVE FALSE
      <4>1. ReadsC(d, "KeeperAnswer") /\ (PortTaken(Head(s2c[d]).serverid) \/ \E x \in ClientConnsOf(p) : srv[x] = "shut")
        BY <3>4 DEF ForwardOnAnswerAbort
      <4> QED
        BY <4>1, AnswerRead
    <3>5. ASSUME NEW d \in KeeperConnsOf(p), ForwardOnKeeperForwardLogonSession(p, d) PROVE Aside(c2s[c], c2s'[c], S)
      <4>1. PICK m : m.type = "KeeperForwardLogonSessionRet" /\ c2s' = SendC(c2s, keeperConn[p], m)
        BY <3>5 DEF ForwardOnKeeperForwardLogonSession, ForwardSendToKeeper
      <4>2. c2s'[c] = c2s[c] \/ c2s'[c] = Append(c2s[c], m)
        BY <1>0, <1>a, <4>1 DEF SendC, Queues
      <4>3. m \notin S
        BY <1>c, <4>1
      <4> QED
        BY <4>2, <4>3 DEF Aside
    <3>6. ASSUME NEW x \in ForwardConns, ForwardOnLogonForward(p, x) PROVE Aside(c2s[c], c2s'[c], S)
      <4>1. c2s'[c] = c2s[c]
        BY <1>0, <1>a, <3>6 DEF ForwardOnLogonForward, Recv, Queues
      <4> QED
        BY <3>a, <4>1
    <3>7. ASSUME ForwardCheckLogonForwardSession(p) PROVE Aside(c2s[c], c2s'[c], S)
      BY <3>7, <3>a DEF ForwardCheckLogonForwardSession
    <3>8. ASSUME ForwardDanglingCheck(p) PROVE FALSE
      <4>1. checks[p] \in Seq(Check) /\ checks[p] # <<>> /\ ~Head(checks[p]).live
        BY <3>8 DEF ForwardDanglingCheck, TypeInv, ForwardTypeOK
      <4>2. 1 \in DOMAIN checks[p] /\ checks[p][1] = Head(checks[p])
        BY <4>1
      <4>3. checks[p][1].live
        BY <4>2 DEF IdInv, Placed
      <4> QED
        BY <4>1, <4>2, <4>3
    <3>9. ASSUME ForwardRestart(p) PROVE FALSE
      BY <3>9 DEF ForwardRestart, MayRestart, LinksHold
    <3> QED
      BY <1>g, <3>1, <3>2, <3>3, <3>4, <3>5, <3>6, <3>7, <3>8, <3>9 DEF ForwardStep
  <2> QED
    BY <1>e, <2>2, <2>3
<1> QED
  BY <1>f, <1>g

-----------------------------------------------------------------------------
(* Keepers report to the hub, and forward processes to the keepers. *)
Sorted == /\ \A c \in HubKeeperConns : Sent(c2s[c], "KeeperForwardUpdateForwardConns") = {}
          /\ \A c \in KeeperForwardConns : Sent(c2s[c], "HubKeeperUpdateForwardConns") = {}

(* The hub sends nothing up a connection. *)
LEMMA HubSorts ==
  ASSUME TypeInv, HubStep, NEW d \in HubKeeperConns, NEW t
  PROVE  Sent(c2s'[d], t) \subseteq Sent(c2s[d], t)
<1> DEFINE V == Vetted(verified)
<1>0. d \in Conns /\ c2s \in Queues(V) /\ \A c \in HubConns : c \in Conns
  BY ConnKinds DEF TypeInv, Mail
<1>1. \/ \E c \in HubConns : c2s' = Drained(c2s, c)
      \/ \E c \in HubConns : c2s[c] # <<>> /\ c2s' = Recv(c2s, c)
      \/ \E S : c2s' = Emptied(c2s, S)
  BY DEF HubStep, HubOnConnectionDown, HubOnHubConnectionData, HubOnHubKeeperLogonSessionRet,
         HubOnHubKeeperUpdateForwardConns, HubOnHubLogonQueryForwardID, HubRestart, Die, ReadsS
<1> QED
  BY <1>0, <1>1, SentMail

(* A keeper sends what a forward process sends to nobody. *)
LEMMA KeeperSorts ==
  ASSUME TypeInv, NEW k \in Keepers, KeeperStep(k), NEW d, NEW t,
         \/ d \in HubKeeperConns /\ t = "KeeperForwardUpdateForwardConns"
         \/ d \in KeeperForwardConns /\ t = "HubKeeperUpdateForwardConns"
  PROVE  Sent(c2s'[d], t) \subseteq Sent(c2s[d], t)
<1> DEFINE V == Vetted(verified)
           F == "KeeperForwardUpdateForwardConns"
           Goal == Sent(c2s'[d], t) \subseteq Sent(c2s[d], t)
<1>0. /\ d \in Conns /\ c2s \in Queues(V) /\ keeperHubConn[k] \in HubKeeperConns \cup {NoConn}
      /\ \A c \in KeeperForwardConns : c \in Conns /\ c \notin HubKeeperConns /\ c # NoConn
      /\ \A c \in HubKeeperConns : c \in Conns
  BY ConnKinds, NoConnNotConn DEF TypeInv, Mail, KeeperTypeOK, Opt
<1>s. ASSUME NEW q \in Queues(V), Sent(q[d], t) \subseteq Sent(c2s[d], t), NEW e \in HubKeeperConns \cup {NoConn},
             NEW m, m.type # F, c2s' = SendC(q, e, m)
      PROVE  Goal
  <2>1. CASE d \in HubKeeperConns /\ t = F
    <3>1. Sent(SendC(q, e, m)[d], t) = Sent(q[d], t)
      BY <1>0, <1>s, <2>1, SentOther
    <3> QED
      BY <1>s, <3>1
  <2>2. CASE d \in KeeperForwardConns
    <3>1. c2s'[d] = q[d]
      BY <1>0, <1>s, <2>2 DEF SendC, Queues
    <3> QED
      BY <1>s, <3>1
  <2> QED
    BY <2>1, <2>2
<1>r. ASSUME NEW c \in KeeperForwardConns, NEW u, ReadsS(c, u)
      PROVE  Recv(c2s, c) \in Queues(V) /\ Sent(Recv(c2s, c)[d], t) \subseteq Sent(c2s[d], t)
  <2>1. Recv(c2s, c) \in Queues(V) /\ c2s[c] # <<>>
    BY <1>0, <1>r, ReadAtServer DEF ReadsS
  <2> QED
    BY <1>0, <2>1, SentMail
<1>1. ASSUME NEW c \in HubKeeperConns, KeeperConnectHub(k, c) PROVE Goal
  <2> DEFINE m == [type |-> "HubConnectionData", servertype |-> "KEEPER", serverid |-> k]
  <2>1. c2s' = [c2s EXCEPT ![c] = <<m>>]
    BY <1>1 DEF KeeperConnectHub, Connected
  <2>2. m.type # t
    OBVIOUS
  <2> HIDE DEF m
  <2>3. c2s'[d] = c2s[d] \/ c2s'[d] = <<m>>
    BY <1>0, <2>1 DEF Queues
  <2> QED
    BY <2>2, <2>3, SentOne
<1>2. ASSUME NEW c \in HubKeeperConns, KeeperOnHubConnectionDown(k, c) PROVE Goal
  <2>1. c2s' = SendC(c2s, c, FIN) /\ FIN.type # F
    BY <1>2 DEF KeeperOnHubConnectionDown, CloseC, FIN
  <2> QED
    BY <1>0, <1>s, <2>1
<1>3. ASSUME NEW c \in HubKeeperConns, KeeperOnHubKeeperLogonSession(k, c) PROVE Goal
  BY <1>3 DEF KeeperOnHubKeeperLogonSession
<1>4. ASSUME NEW c \in KeeperForwardConns, KeeperOnConnectionDown(k, c) PROVE Goal
  <2>1. \/ c2s' = Drained(c2s, c)
        \/ \E id : c2s' = SendC(Drained(c2s, c), keeperHubConn[k], UpdateForwardConns(k, id, "REMOVE"))
    BY <1>4 DEF KeeperOnConnectionDown, KeeperSendToHub
  <2>2. Drained(c2s, c) \in Queues(V)
    BY <1>0, DrainedType
  <2>3. Sent(Drained(c2s, c)[d], t) \subseteq Sent(c2s[d], t)
    BY <1>0, SentMail
  <2>4. \A id : UpdateForwardConns(k, id, "REMOVE").type # F
    BY ReportFields
  <2> QED
    BY <1>0, <1>s, <2>1, <2>2, <2>3, <2>4
<1>5. ASSUME NEW c \in KeeperForwardConns, KeeperOnQuery(k, c) PROVE Goal
  <2>1. PICK id : c2s' = SendC(Recv(c2s, c), keeperHubConn[k], UpdateForwardConns(k, id, "ADD"))
    BY <1>5, QueryAnswered
  <2>2. ReadsS(c, "KeeperQuery") /\ UpdateForwardConns(k, id, "ADD").type # F
    BY <1>5, ReportFields DEF KeeperOnQuery
  <2> QED
    BY <1>0, <1>r, <1>s, <2>1, <2>2
<1>6. ASSUME NEW c \in KeeperForwardConns, KeeperOnQueryDuplicate(k, c) PROVE Goal
  BY <1>6, <1>r DEF KeeperOnQueryDuplicate
<1>7. ASSUME NEW c \in KeeperForwardConns, KeeperOnKeeperForwardLogonSessionRet(k, c) PROVE Goal
  <2>1. PICK m : m.type # F /\ c2s' = SendC(Recv(c2s, c), keeperHubConn[k], m)
    BY <1>7 DEF KeeperOnKeeperForwardLogonSessionRet, KeeperSendToHub
  <2>2. ReadsS(c, "KeeperForwardLogonSessionRet")
    BY <1>7 DEF KeeperOnKeeperForwardLogonSessionRet
  <2> QED
    BY <1>0, <1>r, <1>s, <2>1, <2>2
<1>8. ASSUME NEW c \in KeeperForwardConns, KeeperOnKeeperForwardUpdateForwardConns(k, c) PROVE Goal
  <2>1. PICK l, id, oper : c2s' = SendC(Recv(c2s, c), keeperHubConn[k], UpdateForwardConns(l, id, oper))
    BY <1>8 DEF KeeperOnKeeperForwardUpdateForwardConns, KeeperSendToHub
  <2>2. ReadsS(c, F) /\ UpdateForwardConns(l, id, oper).type # F
    BY <1>8, ReportFields DEF KeeperOnKeeperForwardUpdateForwardConns
  <2> QED
    BY <1>0, <1>r, <1>s, <2>1, <2>2
<1>9. ASSUME KeeperOnQueryDone(k) PROVE Goal
  BY <1>9 DEF KeeperOnQueryDone, netVars
<1>10. ASSUME KeeperRestart(k) PROVE Goal
  BY <1>0, <1>10, SentMail DEF KeeperRestart, Die
<1> QED
  BY <1>1, <1>2, <1>3, <1>4, <1>5, <1>6, <1>7, <1>8, <1>9, <1>10 DEF KeeperStep

(* A forward process reports nothing to the hub. *)
LEMMA ForwardSorts ==
  ASSUME TypeInv, IdInv, LinksHold, NEW p \in Forwards, ForwardStep(p), NEW d \in KeeperForwardConns
  PROVE  Sent(c2s'[d], "HubKeeperUpdateForwardConns") \subseteq Sent(c2s[d], "HubKeeperUpdateForwardConns")
<1> DEFINE V == Vetted(verified)
           H == "HubKeeperUpdateForwardConns"
           Goal == Sent(c2s'[d], H) \subseteq Sent(c2s[d], H)
<1>0. /\ d \in Conns /\ c2s \in Queues(V) /\ d \notin ForwardConns /\ c2s[d] \in Seq(V)
      /\ \A c \in KeeperConnsOf(p) : c \in KeeperForwardConns /\ c \in Conns
      /\ \A x \in ForwardConns : x \in Conns /\ x # d
  BY ConnKinds DEF TypeInv, Mail, Queues, KeeperConnsOf
<1>s. ASSUME NEW q \in Queues(V), q[d] = c2s[d], NEW e, NEW m, m.type # H, c2s' = SendC(q, e, m) PROVE Goal
  <2>0. q \in Queues(V) /\ d \in Conns /\ m.type # H
    BY <1>0, <1>s
  <2> HIDE DEF V, H
  <2>1. Sent(SendC(q, e, m)[d], H) = Sent(q[d], H)
    BY <2>0, SentOther
  <2> QED
    BY <1>s, <2>1 DEF H
<1>1. ASSUME NEW c \in KeeperConnsOf(p), ForwardConnectKeeper(p, c) PROVE Goal
  <2> DEFINE m == [type |-> "KeeperQuery", servertype |-> "FORWARD"]
  <2>1. c2s' = [c2s EXCEPT ![c] = <<m>>]
    BY <1>1 DEF ForwardConnectKeeper, Connected
  <2>2. m.type # H
    OBVIOUS
  <2> HIDE DEF m
  <2>3. c2s'[d] = c2s[d] \/ c2s'[d] = <<m>>
    BY <1>0, <2>1 DEF Queues
  <2> QED
    BY <2>2, <2>3, SentOne
<1>2. ASSUME NEW c \in KeeperConnsOf(p), ForwardOnKeeperConnectionDown(p, c) PROVE Goal
  <2>1. c2s' = SendC(c2s, c, FIN) /\ FIN.type # H
    BY <1>2 DEF ForwardOnKeeperConnectionDown, CloseC, FIN
  <2> QED
    BY <1>0, <1>s, <2>1
<1>3. ASSUME NEW c \in KeeperConnsOf(p), ForwardOnAnswer(p, c) PROVE Goal
  BY <1>3, AnswerSendsNothing
<1>4. ASSUME NEW c \in KeeperConnsOf(p), ForwardOnAnswerAbort(p, c) PROVE Goal
  <2>1. ReadsC(c, "KeeperAnswer") /\ (PortTaken(Head(s2c[c]).serverid) \/ \E x \in ClientConnsOf(p) : srv[x] = "shut")
    BY <1>4 DEF ForwardOnAnswerAbort
  <2> QED
    BY <2>1, AnswerRead
<1>5. ASSUME NEW c \in KeeperConnsOf(p), ForwardOnKeeperForwardLogonSession(p, c) PROVE Goal
  <2>1. PICK m : m.type # H /\ c2s' = SendC(c2s, keeperConn[p], m)
    BY <1>5 DEF ForwardOnKeeperForwardLogonSession, ForwardSendToKeeper
  <2> QED
    BY <1>0, <1>s, <2>1
<1>6. ASSUME NEW x \in ForwardConns, ForwardOnConnectionUp(p, x) PROVE Goal
  <2>1. c2s' = SendC(c2s, keeperConn[p], UpdateConns(p, "INC")) /\ UpdateConns(p, "INC").type # H
    BY <1>6 DEF ForwardOnConnectionUp, ForwardSendToKeeper, UpdateConns
  <2> QED
    BY <1>0, <1>s, <2>1
<1>7. ASSUME NEW x \in ForwardConns, ForwardOnConnectionDown(p, x) PROVE Goal
  <2>1. c2s' = SendC(Drained(c2s, x), keeperConn[p], UpdateConns(p, "DEC")) /\ UpdateConns(p, "DEC").type # H
    BY <1>7 DEF ForwardOnConnectionDown, ForwardSendToKeeper, UpdateConns
  <2>2. Drained(c2s, x) \in Queues(V) /\ Drained(c2s, x)[d] = c2s[d]
    BY <1>0, DrainedType DEF Drained, Queues
  <2> HIDE DEF Drained
  <2> QED
    BY <1>s, <2>1, <2>2
<1>8. ASSUME NEW x \in ForwardConns, ForwardOnLogonForward(p, x) PROVE Goal
  BY <1>0, <1>8 DEF ForwardOnLogonForward, Recv, Queues
<1>9. ASSUME ForwardCheckLogonForwardSession(p) PROVE Goal
  BY <1>9 DEF ForwardCheckLogonForwardSession
<1>10. ASSUME ForwardDanglingCheck(p) PROVE Goal
  <2>1. \/ UNCHANGED c2s
        \/ c2s' = Emptied(c2s, ClientConnsOf(p))
    BY <1>10 DEF ForwardDanglingCheck, Abort, Die, netVars
  <2> QED
    BY <1>0, <2>1, SentMail
<1>11. ASSUME ForwardRestart(p) PROVE Goal
  BY <1>0, <1>11, SentMail DEF ForwardRestart, Die
<1> QED
  BY <1>1, <1>2, <1>3, <1>4, <1>5, <1>6, <1>7, <1>8, <1>9, <1>10, <1>11 DEF ForwardStep

(* At the start nothing is in flight. *)
LEMMA InitSorted == Init => Sorted
<1>1. \A c \in HubKeeperConns \cup KeeperForwardConns : c \in Conns
  BY ConnKinds
<1>2. \A c \in Conns : Init => c2s[c] = <<>>
  BY DEF Init, NetInit
<1> QED
  BY <1>1, <1>2, EmptyQueue DEF Sorted

(* A step keeps the reports apart. *)
LEMMA SortedStep ==
  ASSUME TypeInv, RegInv, IdInv, LinksHold, Sorted, Next
  PROVE  Sorted'
<1> DEFINE F == "KeeperForwardUpdateForwardConns"
           H == "HubKeeperUpdateForwardConns"
<1>0. /\ \A c \in HubKeeperConns : c \in Conns /\ c \notin ForwardConns /\ c \notin KeeperForwardConns
                                   /\ c \notin HubLogonConns /\ c \notin LogonConns
      /\ \A c \in KeeperForwardConns : c \in Conns /\ c \notin ForwardConns /\ c \notin HubConns
                                   /\ c \notin HubLogonConns /\ c \notin LogonConns
      /\ \A c \in Clients : LogonConnOf(c) \in LogonConns
  BY ConnKinds DEF LogonConnOf, LogonConns, HubConns
<1>a. ASSUME \A d \in HubKeeperConns : Sent(c2s'[d], F) \subseteq Sent(c2s[d], F),
             \A d \in KeeperForwardConns : Sent(c2s'[d], H) \subseteq Sent(c2s[d], H)
      PROVE  Sorted'
  BY <1>a DEF Sorted
<1>1. ASSUME Hub PROVE Sorted'
  <2>1. HubStep
    BY <1>1 DEF Hub
  <2>2. \A d \in HubKeeperConns : Sent(c2s'[d], F) \subseteq Sent(c2s[d], F)
    BY <2>1, HubSorts
  <2>3. \A d \in KeeperForwardConns : c2s'[d] = c2s[d]
    BY <1>0, <2>1, HubFrame DEF Untouched
  <2> QED
    BY <1>a, <2>2, <2>3
<1>2. ASSUME NEW k \in Keepers, Keeper(k) PROVE Sorted'
  <2>1. KeeperStep(k)
    BY <1>2 DEF Keeper
  <2> QED
    BY <1>a, <2>1, KeeperSorts
<1>3. ASSUME NEW p \in Forwards, Forward(p) PROVE Sorted'
  <2>1. ForwardStep(p)
    BY <1>3 DEF Forward
  <2>2. \A d \in KeeperForwardConns : Sent(c2s'[d], H) \subseteq Sent(c2s[d], H)
    BY <2>1, ForwardSorts
  <2>3. \A c \in HubKeeperConns : c \notin KeeperConnsOf(p)
    BY <1>0 DEF KeeperConnsOf
  <2>4. \A d \in HubKeeperConns : c2s'[d] = c2s[d]
    BY <1>0, <2>1, <2>3, ForwardFrame DEF Untouched, RegInv
  <2> QED
    BY <1>a, <2>2, <2>4
<1>b. ASSUME \A d \in HubKeeperConns \cup KeeperForwardConns : c2s'[d] = c2s[d] PROVE Sorted'
  BY <1>a, <1>b
<1>4. ASSUME Logon PROVE Sorted'
  BY <1>0, <1>4, <1>b, LogonFrame DEF Logon, Untouched
<1>5. ASSUME NEW c \in Clients, Client(c) PROVE Sorted'
  BY <1>0, <1>5, <1>b, ClientFrame DEF Client, Untouched
<1>6. ASSUME Network PROVE Sorted'
  BY <1>6, <1>b DEF Network, Cut
<1> QED
  BY <1>1, <1>2, <1>3, <1>4, <1>5, <1>6 DEF Next

-----------------------------------------------------------------------------
(* At the start no id has been given. *)
LEMMA InitLoadInv == Init => LoadInv
<1>1. \A c \in KeeperForwardConns : KeeperOf[Owner(c)] \in Keepers
  BY ConnKinds, ConfigAssumption DEF Owner
<1>2. ASSUME Init, NEW c \in KeeperForwardConns, NEW id PROVE ~Given(c, id)
  <2>1. serverStart[KeeperOf[Owner(c)]] = <<>>
    BY <1>1, <1>2 DEF Init, KeeperInit
  <2> QED
    BY <2>1 DEF Given
<1> QED
  BY <1>2 DEF LoadInv

(* A step that touches neither connection of c nor a client. *)
LEMMA LoadsElsewhere ==
  ASSUME TypeInv, LoadInv, UNCHANGED <<serverStart, forwardConns>>,
         \A d \in HubKeeperConns \cup KeeperForwardConns : c2s'[d] = c2s[d] /\ cli'[d] = cli[d],
         \A p \in Forwards : OpenAt(p)' = OpenAt(p)
  PROVE  LoadInv'
<1> SUFFICES ASSUME NEW c \in KeeperForwardConns, NEW id \in ServerIds, Given(c, id)' PROVE Booked(c, id)'
  BY DEF LoadInv
<1> DEFINE k == KeeperOf[Owner(c)]
           h == HubOf(k)
<1>1. Booked(c, id)
  BY DEF LoadInv, Given
<1>2. h \in HubKeeperConns /\ Owner(c) \in Forwards
  BY Carriers
<1>3. OpenAt(Owner(c))' = OpenAt(Owner(c))
  BY <1>2
<1>4. c2s'[h] = c2s[h] /\ c2s'[c] = c2s[c] /\ cli'[h] = cli[h]
  BY <1>2
<1> HIDE DEF h
<1>5. /\ Aside(c2s[h], c2s'[h], {Inc(k, id), Dec(k, id), Added(k, id)})
      /\ Aside(c2s[c], c2s'[c], {UpReport(k, id), DownReport(k, id)})
      /\ Kept(forwardConns[k], forwardConns'[k], id)
  BY <1>4, KeptSame DEF Aside
<1> QED
  BY <1>1, <1>3, <1>4, <1>5, BookedAside DEF h

(* The hub's accounts stay right in every step. *)
LEMMA LoadInvStep ==
  ASSUME TypeInv, RegInv, RouteInv, IdInv, ListInv, SteadyInv, LoadInv, LinksHold, HubHolds, OneKeeperForAll,
         IsFiniteSet(Clients), FewClients', Next
  PROVE  LoadInv'
<1>0. /\ \A c \in HubKeeperConns : c \in Conns /\ c \notin ForwardConns
                                   /\ c \notin HubLogonConns /\ c \notin LogonConns
      /\ \A c \in KeeperForwardConns : c \in Conns /\ c \notin ForwardConns
                                   /\ c \notin HubLogonConns /\ c \notin LogonConns
      /\ \A x \in ForwardConns : x \in Conns /\ x \notin HubLogonConns /\ x \notin LogonConns
      /\ \A c \in Clients : LogonConnOf(c) \in LogonConns
  BY ConnKinds DEF LogonConnOf, LogonConns
<1>1. ASSUME Hub PROVE LoadInv'
  <2>1. HubStep /\ UNCHANGED <<serverStart, peer>>
    BY <1>1 DEF Hub, keeperVars, forwardVars
  <2>2. \A c, id : Given(c, id)' => Given(c, id)
    BY <2>1 DEF Given
  <2> QED
    BY <2>1, <2>2, HubLoads DEF LoadInv
<1>2. ASSUME NEW k \in Keepers, Keeper(k) PROVE LoadInv'
  <2>1. KeeperStep(k) /\ UNCHANGED <<forwardConns, peer>>
    BY <1>2 DEF Keeper, hubVars, forwardVars
  <2> QED
    BY <2>1, KeeperLoads DEF LoadInv
<1>3. ASSUME NEW p \in Forwards, Forward(p) PROVE LoadInv'
  <2>1. ForwardStep(p) /\ UNCHANGED <<forwardConns, serverStart>>
    BY <1>3 DEF Forward, hubVars, keeperVars
  <2>2. \A c, id : Given(c, id)' => Given(c, id)
    BY <2>1 DEF Given
  <2> QED
    BY <2>1, <2>2, ForwardLoads DEF LoadInv
<1>4. ASSUME Logon PROVE LoadInv'
  <2>1. LogonStep /\ UNCHANGED <<forwardConns, serverStart, peer>>
    BY <1>4 DEF Logon, hubVars, keeperVars, forwardVars
  <2>2. \A x \in ForwardConns : srv'[x] = srv[x]
    BY <1>0, <2>1, LogonFrame DEF Untouched
  <2>3. \A p \in Forwards : OpenAt(p)' = OpenAt(p)
    BY <2>1, <2>2 DEF OpenAt
  <2>4. \A d \in HubKeeperConns \cup KeeperForwardConns : c2s'[d] = c2s[d] /\ cli'[d] = cli[d]
    BY <1>0, <2>1, LogonFrame DEF Untouched
  <2> QED
    BY <2>1, <2>3, <2>4, LoadsElsewhere
<1>5. ASSUME NEW c \in Clients, Client(c) PROVE LoadInv'
  <2>1. ClientStep(c) /\ UNCHANGED <<forwardConns, serverStart>>
    BY <1>5 DEF Client, hubVars, keeperVars
  <2>2. \A p \in Forwards : OpenAt(p)' = OpenAt(p)
    BY <2>1, ClientOpens DEF SteadyInv
  <2>3. \A d \in HubKeeperConns \cup KeeperForwardConns : c2s'[d] = c2s[d] /\ cli'[d] = cli[d]
    BY <1>0, <2>1, ClientFrame DEF Untouched
  <2> QED
    BY <2>1, <2>2, <2>3, LoadsElsewhere
<1>6. ASSUME Network PROVE LoadInv'
  <2>1. UNCHANGED <<cli, srv, c2s, forwardConns, serverStart, peer>>
    BY <1>6 DEF Network, Cut, hubVars, keeperVars, forwardVars
  <2>2. \A p \in Forwards : OpenAt(p)' = OpenAt(p)
    BY <2>1 DEF OpenAt
  <2> QED
    BY <2>1, <2>2, LoadsElsewhere
<1> QED
  BY <1>1, <1>2, <1>3, <1>4, <1>5, <1>6 DEF Next

-----------------------------------------------------------------------------
(* The message n of d is a report of id. *)
Tells(d, n, id, oper) == /\ c2s[d][n].type \in {"HubKeeperUpdateForwardConns", "KeeperForwardUpdateForwardConns"}
                         /\ c2s[d][n].oper = oper
                         /\ c2s[d][n].forwardserverid = id

(* The reports to the hub of an id come from the keeper that has given it. *)
LEMMA HubTells ==
  ASSUME TypeInv, IdInv, ListInv, SteadyInv, Sorted, NEW c \in KeeperForwardConns, NEW id \in ServerIds,
         Given(c, id), NEW oper, NEW d \in HubKeeperConns, NEW n \in DOMAIN c2s[d], Tells(d, n, id, oper)
  PROVE  d = HubOf(KeeperOf[Owner(c)]) /\ c2s[d][n] = UpdateForwardConns(KeeperOf[Owner(c)], id, oper)
<1> DEFINE H == "HubKeeperUpdateForwardConns"
           k == KeeperOf[Owner(c)]
           m == c2s[d][n]
<1>1. m.type = H
  <2>1. m \in Sent(c2s[d], m.type)
    BY DEF Sent
  <2> QED
    BY <2>1 DEF Sorted, Tells
<1>2. m \in HubReports(d)
  BY <1>1 DEF HubReports, Sent
<1>3. d \in HubConns
  BY ConnKinds
<1>4. m = UpdateForwardConns(Owner(d), m.forwardserverid, m.oper) /\ Known(Owner(d), m.forwardserverid)
  BY <1>2, <1>3 DEF ListInv, Reported
<1>5. m.forwardserverid = id /\ m.oper = oper
  BY DEF Tells
<1>6. PICK e \in KeeperForwardConns : KeeperOf[Owner(e)] = Owner(d) /\ Given(e, id)
  BY <1>4, <1>5 DEF Known
<1>7. e = c
  BY <1>6 DEF IdInv, GivenOnce
<1>8. Owner(d) = k
  BY <1>6, <1>7
<1>9. c2s[d] # <<>>
  OBVIOUS
<1>10. d = HubOf(Owner(d))
  BY <1>9 DEF SteadyInv, Steady
<1> QED
  BY <1>4, <1>5, <1>8, <1>10

(* The reports to a keeper of an id come from the process that has it. *)
LEMMA ForwardTells ==
  ASSUME TypeInv, IdInv, Sorted, NEW c \in KeeperForwardConns, NEW id \in ServerIds,
         Given(c, id), NEW oper, NEW d \in KeeperForwardConns, NEW n \in DOMAIN c2s[d], Tells(d, n, id, oper)
  PROVE  d = c /\ c2s[d][n] = Report(KeeperOf[Owner(c)], id, oper)
<1> DEFINE F == "KeeperForwardUpdateForwardConns"
           m == c2s[d][n]
<1>1. m.type = F
  <2>1. m \in Sent(c2s[d], m.type)
    BY DEF Sent
  <2> QED
    BY <2>1 DEF Sorted, Tells
<1>2. m \in Sent(c2s[d], F)
  BY <1>1 DEF Sent
<1>3. AboutItself(d, m)
  BY <1>2 DEF IdInv, Linked, ReportsItself
<1>4. m.forwardserverid = id /\ m.oper = oper
  BY DEF Tells
<1>5. Given(d, id) /\ m.keeperserverid = KeeperOf[Owner(d)]
  BY <1>3, <1>4 DEF AboutItself
<1>6. d = c
  BY <1>5 DEF IdInv, GivenOnce
<1>7. c2s[d] \in Seq(Vetted(verified))
  BY Carriers
<1>8. m \in Vetted(verified)
  BY <1>7
<1>9. m = Report(m.keeperserverid, m.forwardserverid, m.oper)
  <2>1. PICK v, z : v = Vetted(verified) /\ z = m
    BY Zenon
  <2> QED
    BY <1>1, <1>8, ReportIs
<1> QED
  BY <1>4, <1>5, <1>6, <1>9

(* Pairs with one first component. *)
LEMMA PairsOfOne ==
  ASSUME NEW x, NEW S, IsFiniteSet(S)
  PROVE  IsFiniteSet({x} \X S) /\ Cardinality({x} \X S) = Cardinality(S)
<1>1. IsFiniteSet({x}) /\ Cardinality({x}) = 1 /\ Cardinality(S) \in Nat
  BY FS_Singleton, FS_CardinalityType
<1>2. IsFiniteSet({x} \X S) /\ Cardinality({x} \X S) = Cardinality({x}) * Cardinality(S)
  BY <1>1, FS_Product
<1> QED
  BY <1>1, <1>2

(* The reports of an id in flight are those to the hub and those to the    *)
(* keeper on its connections.                                              *)
LEMMA InFlightCounts ==
  ASSUME TypeInv, IdInv, ListInv, SteadyInv, Sorted, NEW c \in KeeperForwardConns, NEW id \in ServerIds,
         Given(c, id), NEW oper, NEW k, k = KeeperOf[Owner(c)], NEW h, h = HubOf(k)
  PROVE  InFlight(id, oper) = Count(c2s[h], UpdateForwardConns(k, id, oper), Len(c2s[h]))
                              + Count(c2s[c], Report(k, id, oper), Len(c2s[c]))
<1> DEFINE M == UpdateForwardConns(k, id, oper)
           R == Report(k, id, oper)
           D == HubKeeperConns \cup KeeperForwardConns
           X == {h} \X Places(c2s[h], M, Len(c2s[h]))
           Y == {c} \X Places(c2s[c], R, Len(c2s[c]))
           Z == {ci \in UNION {{d} \X DOMAIN c2s[d] : d \in D} : Tells(ci[1], ci[2], id, oper)}
<1>0. /\ h \in HubKeeperConns /\ h # c
      /\ c2s[h] \in Seq(Vetted(verified)) /\ c2s[c] \in Seq(Vetted(verified))
  BY Carriers, ConnKinds
<1>1. /\ Len(c2s[h]) \in Nat /\ DOMAIN c2s[h] = 1..Len(c2s[h])
      /\ Len(c2s[c]) \in Nat /\ DOMAIN c2s[c] = 1..Len(c2s[c])
  BY <1>0
<1>2. InFlight(id, oper) = Cardinality(Z)
  BY Zenon DEF InFlight, Tells
<1>3. M.type = "HubKeeperUpdateForwardConns" /\ M.oper = oper /\ M.forwardserverid = id
  BY ReportFields
<1>4. R.type = "KeeperForwardUpdateForwardConns" /\ R.oper = oper /\ R.forwardserverid = id
  BY DEF Report
<1> HIDE DEF M, R
<1>5. ASSUME NEW ci \in Z PROVE ci \in X \cup Y
  <2>1. PICK d \in D : ci \in {d} \X DOMAIN c2s[d]
    OBVIOUS
  <2>2. PICK n \in DOMAIN c2s[d] : ci = <<d, n>>
    BY <2>1
  <2>3. Tells(d, n, id, oper)
    BY <2>2
  <2>4. CASE d \in HubKeeperConns
    <3>1. d = h /\ c2s[d][n] = M
      BY <2>3, <2>4, HubTells DEF M
    <3> QED
      BY <1>1, <2>2, <3>1 DEF Places
  <2>5. CASE d \in KeeperForwardConns
    <3>1. d = c /\ c2s[d][n] = R
      BY <2>3, <2>5, ForwardTells DEF R
    <3> QED
      BY <1>1, <2>2, <3>1 DEF Places
  <2> QED
    BY <2>4, <2>5
<1>6. ASSUME NEW ci \in X PROVE ci \in Z
  <2>1. PICK n \in Places(c2s[h], M, Len(c2s[h])) : ci = <<h, n>>
    OBVIOUS
  <2>2. n \in DOMAIN c2s[h] /\ c2s[h][n] = M
    BY <1>1, <2>1 DEF Places
  <2>3. Tells(h, n, id, oper)
    BY <1>3, <2>2 DEF Tells
  <2> QED
    BY <1>0, <2>1, <2>2, <2>3
<1>7. ASSUME NEW ci \in Y PROVE ci \in Z
  <2>1. PICK n \in Places(c2s[c], R, Len(c2s[c])) : ci = <<c, n>>
    OBVIOUS
  <2>2. n \in DOMAIN c2s[c] /\ c2s[c][n] = R
    BY <1>1, <2>1 DEF Places
  <2>3. Tells(c, n, id, oper)
    BY <1>4, <2>2 DEF Tells
  <2> QED
    BY <1>0, <2>1, <2>2, <2>3
<1>8. Z = X \cup Y
  <2> HIDE DEF X, Y, Z
  <2> QED
    BY <1>5, <1>6, <1>7
<1>9. X \cap Y = {}
  BY <1>0
<1>10. /\ IsFiniteSet(Places(c2s[h], M, Len(c2s[h]))) /\ IsFiniteSet(Places(c2s[c], R, Len(c2s[c])))
       /\ Count(c2s[h], M, Len(c2s[h])) \in Nat /\ Count(c2s[c], R, Len(c2s[c])) \in Nat
  <2>1. PICK q, r : q = c2s[h] /\ r = c2s[c]
    BY Zenon
  <2> QED
    BY <1>1, <2>1, CountFinite
<1>11. /\ IsFiniteSet(X) /\ Cardinality(X) = Count(c2s[h], M, Len(c2s[h]))
       /\ IsFiniteSet(Y) /\ Cardinality(Y) = Count(c2s[c], R, Len(c2s[c]))
  <2>1. PICK S, T : S = Places(c2s[h], M, Len(c2s[h])) /\ T = Places(c2s[c], R, Len(c2s[c]))
    BY Zenon
  <2>2. IsFiniteSet(S) /\ IsFiniteSet(T)
    BY <1>10, <2>1
  <2>3. IsFiniteSet({h} \X S) /\ Cardinality({h} \X S) = Cardinality(S)
    BY <2>2, PairsOfOne
  <2>4. IsFiniteSet({c} \X T) /\ Cardinality({c} \X T) = Cardinality(T)
    BY <2>2, PairsOfOne
  <2> QED
    BY <2>1, <2>3, <2>4 DEF Count
<1> HIDE DEF X, Y, Z
<1>12. Cardinality(X \cup Y) = Cardinality(X) + Cardinality(Y)
  <2>1. PICK S, T : S = X /\ T = Y
    BY Zenon
  <2>2. Cardinality(S \cup T) = Cardinality(S) + Cardinality(T) - Cardinality(S \cap T)
    BY <1>11, <2>1, FS_Union
  <2>3. Cardinality(S \cap T) = 0 /\ Cardinality(S) \in Nat /\ Cardinality(T) \in Nat
    BY <1>9, <1>10, <1>11, <2>1, FS_EmptySet
  <2> QED
    BY <2>1, <2>2, <2>3
<1> QED
  BY <1>2, <1>8, <1>11, <1>12 DEF M, R

-----------------------------------------------------------------------------
(* The connections that LoadExact counts for id are those of the process   *)
(* that was given it.                                                      *)
LEMMA ServesOnlyIt ==
  ASSUME TypeInv, IdInv, NEW c \in KeeperForwardConns, NEW id \in ServerIds, Given(c, id)
  PROVE  {x \in ForwardConns : srv[x] \in Open /\ \E p \in Forwards : peer[x] = p /\ server[p] = id} = OpenAt(Owner(c))
<1>0. Owner(c) \in Forwards /\ id # NoServer
  BY Carriers, ConfigAssumption DEF NoServer
<1>a. ASSUME NEW p \in Forwards, server[p] # NoServer
      PROVE  \E d \in KeeperForwardConns : Owner(d) = p /\ Given(d, server[p]) /\ server[p] \in ServerIds
  <2>1. PICK d \in KeeperConnsOf(p) : Given(d, server[p])
    BY <1>a DEF IdInv, Placed
  <2> QED
    BY <1>a, <2>1 DEF KeeperConnsOf, TypeInv, ForwardTypeOK, Opt
<1>1. ASSUME NEW p \in Forwards, server[p] = id PROVE p = Owner(c)
  <2>1. PICK d \in KeeperForwardConns : Owner(d) = p /\ Given(d, id)
    BY <1>0, <1>1, <1>a
  <2>2. d = c
    BY <2>1 DEF IdInv, GivenOnce
  <2> QED
    BY <2>1, <2>2
<1>2. ASSUME NEW x \in OpenAt(Owner(c)) PROVE server[Owner(c)] = id
  <2>1. server[Owner(c)] # NoServer
    BY <1>0, <1>2 DEF OpenAt, Open, TypeInv, WellFormed, ServedByServer
  <2>2. PICK d \in KeeperForwardConns : Owner(d) = Owner(c) /\ Given(d, server[Owner(c)]) /\ server[Owner(c)] \in ServerIds
    BY <1>0, <1>a, <2>1
  <2> QED
    BY <2>2 DEF IdInv, GivenOnce
<1> QED
  BY <1>0, <1>1, <1>2 DEF OpenAt

(* What settles adds up. *)
LEMMA SettlesAdds ==
  ASSUME NEW V, NEW h \in Seq(V), NEW f \in Seq(V), NEW k, NEW id, NEW open, NEW n \in UInt16,
         Settles(n, h, f, k, id, open)
  PROVE  n + (Count(h, Inc(k, id), Len(h)) + Count(f, UpReport(k, id), Len(f)))
           = open + (Count(h, Dec(k, id), Len(h)) + Count(f, DownReport(k, id), Len(f)))
<1>1. PICK mid \in UInt16 : /\ Walk(n, h, Inc(k, id), Dec(k, id), mid)
                            /\ Walk(mid, f, UpReport(k, id), DownReport(k, id), open)
  BY DEF Settles
<1>2. mid + Count(h, Dec(k, id), Len(h)) = n + Count(h, Inc(k, id), Len(h))
  BY <1>1, WalkEnds
<1>3. open \in UInt16 /\ open + Count(f, DownReport(k, id), Len(f)) = mid + Count(f, UpReport(k, id), Len(f))
  BY <1>1, WalkEnds
<1>4. /\ Count(h, Inc(k, id), Len(h)) \in Nat /\ Count(h, Dec(k, id), Len(h)) \in Nat
      /\ Count(f, UpReport(k, id), Len(f)) \in Nat /\ Count(f, DownReport(k, id), Len(f)) \in Nat
  <2>1. Len(h) \in Nat /\ Len(f) \in Nat
    OBVIOUS
  <2> QED
    BY <2>1, CountFinite
<1>5. n \in Int /\ mid \in Int /\ open \in Int
  BY <1>3 DEF UInt16
<1>6. PICK a, b, x, y : /\ a = Count(h, Inc(k, id), Len(h)) /\ b = Count(h, Dec(k, id), Len(h))
                        /\ x = Count(f, UpReport(k, id), Len(f)) /\ y = Count(f, DownReport(k, id), Len(f))
  BY Zenon
<1>7. a \in Nat /\ b \in Nat /\ x \in Nat /\ y \in Nat /\ mid + b = n + a /\ open + y = mid + x
  BY <1>2, <1>3, <1>4, <1>6
<1>8. n + (a + x) = open + (b + y)
  BY <1>5, <1>7
<1> QED
  BY <1>6, <1>8

(* The hub's accounts say what LoadExact says. *)
LEMMA LoadSettled ==
  ASSUME TypeInv, IdInv, ListInv, SteadyInv, Sorted, LoadInv
  PROVE  LoadExact
<1> SUFFICES ASSUME NEW k \in Keepers, NEW i \in DOMAIN forwardConns[k]
             PROVE  LET e    == forwardConns[k][i]
                        open == {x \in ForwardConns : srv[x] \in Open /\ \E p \in Forwards : peer[x] = p /\ server[p] = e.id}
                    IN  e.numConnections + InFlight(e.id, "INC") = Cardinality(open) + InFlight(e.id, "DEC")
  BY DEF LoadExact
<1> DEFINE e == forwardConns[k][i]
           h == HubOf(k)
<1>1. e \in ForwardEntry
  <2>1. forwardConns[k] \in Seq(ForwardEntry)
    BY DEF TypeInv, HubTypeOK, ForwardEntry
  <2> QED
    BY <2>1
<1>2. PICK id : id = e.id
  BY Zenon
<1>3. id \in ServerIds /\ e.numConnections \in UInt16
  BY <1>1, <1>2 DEF ForwardEntry
<1>4. PICK c \in KeeperForwardConns : KeeperOf[Owner(c)] = k /\ Given(c, id)
  BY <1>2 DEF ListInv, Listing, Known
<1>5. c2s[h] \in Seq(Vetted(verified)) /\ c2s[c] \in Seq(Vetted(verified))
  BY <1>4, Carriers
<1>6. Settles(e.numConnections, c2s[h], c2s[c], k, id, Cardinality(OpenAt(Owner(c))))
  BY <1>2, <1>3, <1>4 DEF LoadInv, Booked, Book
<1>7. /\ InFlight(id, "INC") = Count(c2s[h], Inc(k, id), Len(c2s[h])) + Count(c2s[c], UpReport(k, id), Len(c2s[c]))
      /\ InFlight(id, "DEC") = Count(c2s[h], Dec(k, id), Len(c2s[h])) + Count(c2s[c], DownReport(k, id), Len(c2s[c]))
  BY <1>3, <1>4, InFlightCounts DEF Inc, Dec, UpReport, DownReport
<1>8. {x \in ForwardConns : srv[x] \in Open /\ \E p \in Forwards : peer[x] = p /\ server[p] = id} = OpenAt(Owner(c))
  BY <1>3, <1>4, ServesOnlyIt
<1>9. PICK V, a, f, n, open :
         a = c2s[h] /\ f = c2s[c] /\ n = e.numConnections /\ open = Cardinality(OpenAt(Owner(c))) /\ V = Vetted(verified)
  BY Zenon
<1>10. n + (Count(a, Inc(k, id), Len(a)) + Count(f, UpReport(k, id), Len(f)))
         = open + (Count(a, Dec(k, id), Len(a)) + Count(f, DownReport(k, id), Len(f)))
  <2>1. a \in Seq(V) /\ f \in Seq(V) /\ n \in UInt16 /\ Settles(n, a, f, k, id, open)
    BY <1>3, <1>5, <1>6, <1>9
  <2> QED
    BY <2>1, SettlesAdds
<1>11. e.numConnections + InFlight(id, "INC") = Cardinality(OpenAt(Owner(c))) + InFlight(id, "DEC")
  BY <1>7, <1>9, <1>10
<1> QED
  BY <1>2, <1>8, <1>11

-----------------------------------------------------------------------------
(* While the hub runs on and the keepers stay connected to it, what a      *)
(* keeper reports goes up the one connection that KeeperServer makes.      *)
THEOREM HubStaysConnected ==
  ASSUME LinksHold, HubHolds, OneKeeperForAll
  PROVE  Spec => []SteadyInv
<1>1. TypeInv /\ RegInv /\ IdInv /\ SteadyInv /\ [Next]_vars => SteadyInv'
  <2> SUFFICES ASSUME TypeInv, RegInv, IdInv, SteadyInv, [Next]_vars PROVE SteadyInv'
    OBVIOUS
  <2>1. CASE Next
    BY <2>1, SteadyStep
  <2>2. CASE UNCHANGED vars
    <3>1. UNCHANGED <<cli, srv, c2s, s2c, lost, keeperHubConn, peer>>
      BY <2>2 DEF vars, netVars, keeperVars, forwardVars
    <3>2. \A c \in HubKeeperConns : Steady(c)'
      BY <3>1, SteadyOn DEF SteadyInv
    <3>3. \A x \in ForwardConns : Unmet(x)'
      BY <3>1 DEF SteadyInv, Unmet
    <3> QED
      BY <3>2, <3>3 DEF SteadyInv
  <2> QED
    BY <2>1, <2>2
<1> QED
  BY <1>1, InitSteady, TypeInvariance, Registration, IdsForGood, PTL DEF Spec

(* Reports to the hub and reports to a keeper go different ways. *)
THEOREM ReportsAreSorted ==
  ASSUME LinksHold, OneKeeperForAll
  PROVE  Spec => []Sorted
<1>1. TypeInv /\ RegInv /\ IdInv /\ Sorted /\ [Next]_vars => Sorted'
  <2> SUFFICES ASSUME TypeInv, RegInv, IdInv, Sorted, [Next]_vars PROVE Sorted'
    OBVIOUS
  <2>1. CASE Next
    BY <2>1, SortedStep
  <2>2. CASE UNCHANGED vars
    BY <2>2 DEF vars, netVars, Sorted
  <2> QED
    BY <2>1, <2>2
<1> QED
  BY <1>1, InitSorted, TypeInvariance, Registration, IdsForGood, PTL DEF Spec

(* The count in HubServer::forwardConns_ is off by no more than the reports *)
(* that are still under way, at every moment.                               *)
THEOREM LoadsSettle ==
  ASSUME LinksHold, HubHolds, OneKeeperForAll, IsFiniteSet(Clients)
  PROVE  Spec /\ []FewClients => []LoadInv
<1>1. TypeInv /\ RegInv /\ RouteInv /\ IdInv /\ ListInv /\ SteadyInv /\ LoadInv /\ FewClients' /\ [Next]_vars => LoadInv'
  <2> SUFFICES ASSUME TypeInv, RegInv, RouteInv, IdInv, ListInv, SteadyInv, LoadInv, FewClients', [Next]_vars
               PROVE  LoadInv'
    OBVIOUS
  <2>1. CASE Next
    BY <2>1, LoadInvStep
  <2>2. CASE UNCHANGED vars
    <3>1. UNCHANGED <<cli, srv, c2s, serverStart, forwardConns, peer>>
      BY <2>2 DEF vars, netVars, hubVars, keeperVars, forwardVars
    <3>2. \A p \in Forwards : OpenAt(p)' = OpenAt(p)
      BY <3>1 DEF OpenAt
    <3> QED
      BY <3>1, <3>2, LoadsElsewhere
  <2> QED
    BY <2>1, <2>2
<1> QED
  BY <1>1, InitLoadInv, TypeInvariance, Registration, Routes, IdsForGood, ListedOnce, HubStaysConnected, PTL DEF Spec

(* The load by which HubServer::onHubLogonQueryForwardID chooses a server   *)
(* is the number of clients connected to it, but for the INC and DEC still  *)
(* on their way from ForwardServer::onConnection through                    *)
(* KeeperServer::onKeeperForwardUpdateForwardConns to                       *)
(* HubServer::onHubKeeperUpdateForwardConns: while hub, keeper and forward  *)
(* processes run on with the connections between them, and no server has    *)
(* more clients than its uint16_t counts, no report is lost, doubled,       *)
(* credited to another server or makes the counter wrap, whatever the       *)
(* logon server and the clients do.                                         *)
THEOREM LoadIsExact ==
  ASSUME LinksHold, HubHolds, OneKeeperForAll, IsFiniteSet(Clients)
  PROVE  Spec /\ []FewClients => []LoadExact
<1>1. TypeInv /\ IdInv /\ ListInv /\ SteadyInv /\ Sorted /\ LoadInv => LoadExact
  BY LoadSettled
<1> QED
  BY <1>1, TypeInvariance, IdsForGood, ListedOnce, HubStaysConnected, ReportsAreSorted, LoadsSettle, PTL
=============================================================================

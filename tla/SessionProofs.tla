---------------------------- MODULE SessionProofs ----------------------------
(***************************************************************************)
(* The cluster implements SessionTable, and the safety of sessions follows *)
(* from that: each step is seen as one of the five steps of the table, and *)
(* the invariant about serial numbers is shown for those. The last part    *)
(* follows a logon's uid and password through the processes and back to    *)
(* the client they came from, as long as the logon server is not restarted *)
(* (its connection names begin again at 1).                                *)
(***************************************************************************)
EXTENDS RoutingProofs

(* A step that touches neither the sessions nor what has been verified. *)
Aside == UNCHANGED <<sessions, issued, admitted, verified>>

TableStep == Table!Next \/ Aside

(* A forward process issues a session only for a pair that has been        *)
(* verified, because the message that asks for it is a certificate.        *)
LEMMA ForwardRefines ==
  ASSUME TypeInv, NEW p \in Forwards, ForwardStep(p), UNCHANGED verified
  PROVE  TableStep
<1> USE DEF TypeInv
<1>0. ASSUME NEW running, Blank(p, running) PROVE Table!Forget(p)
  BY <1>0 DEF Blank, Table!Forget, Table!NoneLeft, Table!NoSession, NoSession
<1>1. ASSUME NEW c \in KeeperConnsOf(p), ForwardOnAnswer(p, c) PROVE Table!Forget(p)
  BY <1>1 DEF ForwardOnAnswer, Table!Forget, Table!NoneLeft, Table!NoSession, NoSession
<1>2. ASSUME NEW c \in KeeperConnsOf(p), ForwardOnKeeperForwardLogonSession(p, c)
      PROVE  \E u \in Uids, n \in Names, s \in Sessions : Table!Issue(p, u, n, s)
  <2> DEFINE m == Head(s2c[c])
  <2>1. m \in Vetted(verified) /\ m.type = "KeeperForwardLogonSession"
    BY <1>2, ConnKinds, ReadAtClient DEF ForwardOnKeeperForwardLogonSession, KeeperConnsOf
  <2>2. m.uid \in Uids /\ m.connname \in Names /\ [uid |-> m.uid, connname |-> m.connname] \in verified
    BY <2>1, MessageFields DEF Certificates
  <2>3. PICK s \in Sessions : sessions' = [sessions EXCEPT ![p][m.uid] = [session |-> s, serial |-> issued + 1]]
    BY <1>2 DEF ForwardOnKeeperForwardLogonSession
  <2>4. issued' = issued + 1 /\ UNCHANGED admitted
    BY <1>2 DEF ForwardOnKeeperForwardLogonSession
  <2> HIDE DEF m
  <2>5. Table!Issue(p, m.uid, m.connname, s)
    BY <2>2, <2>3, <2>4 DEF Table!Issue
  <2> QED
    BY <2>2, <2>5
<1>3. ASSUME ForwardCheckLogonForwardSession(p)
      PROVE  \E u \in Uids : Table!Reject(p, u) \/ \E x \in ForwardConns : Table!Admit(p, u, x)
  <2> DEFINE t == Head(checks[p])
             e == sessions[p][t.uid]
             a == [forward |-> p, conn |-> t.conn, uid |-> t.uid, serial |-> e.serial]
  <2>1. /\ checks[p] # <<>>
        /\ \/ e # NoSession /\ admitted' = admitted \cup {a}
           \/ UNCHANGED admitted
        /\ sessions' = [sessions EXCEPT ![p] = [@ EXCEPT ![t.uid] = NoSession]]
        /\ UNCHANGED issued
    BY <1>3 DEF ForwardCheckLogonForwardSession, Erased
  <2>2. checks \in [Forwards -> Seq(Check)]
    BY DEF ForwardTypeOK
  <2>3. t \in Check
    BY <2>1, <2>2
  <2>4. t.conn \in ForwardConns /\ t.uid \in Uids
    BY <2>3 DEF Check
  <2> HIDE DEF t
  <2>5. Table!Used(p, t.uid)
    BY <2>1 DEF Table!Used, Table!NoSession, NoSession
  <2>6. Table!Reject(p, t.uid) \/ Table!Admit(p, t.uid, t.conn)
    BY <2>1, <2>5 DEF Table!Reject, Table!Admit, Table!NoSession, NoSession
  <2> QED
    BY <2>4, <2>6
<1>4. ASSUME NEW c \in KeeperConnsOf(p), ForwardConnectKeeper(p, c) \/ ForwardOnKeeperConnectionDown(p, c)
      PROVE  Aside
  BY <1>4 DEF ForwardConnectKeeper, ForwardOnKeeperConnectionDown, Aside
<1>5. ASSUME NEW x \in ForwardConns,
             ForwardOnConnectionUp(p, x) \/ ForwardOnConnectionDown(p, x) \/ ForwardOnLogonForward(p, x)
      PROVE  Aside
  BY <1>5 DEF ForwardOnConnectionUp, ForwardOnConnectionDown, ForwardOnLogonForward, Aside, forwardVars
<1>6. ASSUME NEW c \in KeeperConnsOf(p), ForwardOnAnswerAbort(p, c) PROVE Table!Forget(p)
  BY <1>0, <1>6 DEF ForwardOnAnswerAbort, Abort
<1>7. ASSUME ForwardDanglingCheck(p) PROVE Table!Forget(p) \/ Aside
  BY <1>0, <1>7 DEF ForwardDanglingCheck, Abort, Aside
<1>8. ASSUME ForwardRestart(p) PROVE Table!Forget(p)
  BY <1>0, <1>8 DEF ForwardRestart
<1> QED
  BY <1>1, <1>2, <1>3, <1>4, <1>5, <1>6, <1>7, <1>8 DEF ForwardStep, TableStep, Table!Next

(* The logon server adds to what has been verified, one pair at a time. *)
LEMMA LogonRefines ==
  ASSUME TypeInv, LogonStep, UNCHANGED <<sessions, issued, admitted>>
  PROVE  TableStep
<1>1. ASSUME NEW t \in tasks, LogonQueryAccountMatch(t) PROVE \E u \in Uids, n \in Names : Table!Verify(u, n)
  <2>1. TaskUid(t) \in Uids /\ t.connname \in Names
    BY TaskUidType DEF TypeInv
  <2>2. Table!Verify(TaskUid(t), t.connname)
    BY <1>1 DEF LogonQueryAccountMatch, Table!Verify
  <2> QED
    BY <2>1, <2>2
<1>2. ASSUME NEW t \in tasks, LogonQueryAccountMismatch(t) \/ LogonQueryAccountNoConnection(t) PROVE Aside
  BY <1>2 DEF LogonQueryAccountMismatch, LogonQueryAccountNoConnection, Aside
<1>3. ASSUME NEW c \in HubLogonConns,
             LogonConnectHub(c) \/ LogonOnHubConnectionDown(c) \/ LogonOnHubLogonAnswerForwardID(c)
      PROVE  Aside
  BY <1>3 DEF LogonConnectHub, LogonOnHubConnectionDown, LogonOnHubLogonAnswerForwardID, Aside, logonVars
<1>4. ASSUME NEW x \in LogonConns, LogonOnConnectionUp(x) \/ LogonOnConnectionDown(x) \/ LogonOnLogon(x)
      PROVE  Aside
  BY <1>4 DEF LogonOnConnectionUp, LogonOnConnectionDown, LogonOnLogon, Aside
<1>5. ASSUME LogonRestart PROVE Aside
  BY <1>5 DEF LogonRestart, Aside
<1> QED
  BY <1>1, <1>2, <1>3, <1>4, <1>5 DEF LogonStep, TableStep, Table!Next

(* A client never touches a session: it only connects and sends. *)
LEMMA ClientRefines ==
  ASSUME NEW c \in Clients, ClientStep(c), UNCHANGED verified
  PROVE  Aside
<1> USE DEF Aside, forwardVars
<1>1. ASSUME ClientConnect(c) \/ ClientOnConnectionDown(c) \/ ForwardClientOnConnectionDown(c) PROVE Aside
  BY <1>1 DEF ClientConnect, ClientOnConnectionDown, ForwardClientOnConnectionDown
<1>2. ASSUME ClientOnLogonRetFailed(c) \/ ClientOnMisframedLogonRet(c) \/ ClientOnLogonRetSuccess(c) PROVE Aside
  BY <1>2 DEF ClientOnLogonRetFailed, ClientOnMisframedLogonRet, ClientOnLogonRetSuccess
<1>3. ASSUME NEW p \in Forwards, ForwardClientConnect(c, p) PROVE Aside
  BY <1>3 DEF ForwardClientConnect
<1> QED
  BY <1>1, <1>2, <1>3 DEF ClientStep

(* Every step of the cluster is a step of the session table or leaves it. *)
LEMMA StepRefines ==
  ASSUME TypeInv, [Next]_vars
  PROVE  TableStep
<1>1. CASE Hub \/ (\E k \in Keepers : Keeper(k)) \/ Network \/ UNCHANGED vars
  <2>1. Aside
    BY <1>1 DEF Hub, Keeper, Network, vars, forwardVars, logonVars, Aside
  <2> QED
    BY <2>1 DEF TableStep
<1>2. ASSUME NEW p \in Forwards, Forward(p) PROVE TableStep
  BY <1>2, ForwardRefines DEF Forward, logonVars
<1>3. CASE Logon
  BY <1>3, LogonRefines DEF Logon, forwardVars
<1>4. ASSUME NEW c \in Clients, Client(c) PROVE TableStep
  BY <1>4, ClientRefines DEF Client, logonVars, TableStep
<1> QED
  BY <1>1, <1>2, <1>3, <1>4 DEF Next

(* The cluster implements the session table, for any number of servers,    *)
(* clients, connections, faults and values of rand().                      *)
THEOREM Refinement == Spec => ImplementsSessionTable
<1>1. Init => Table!Init
  BY DEF Init, ForwardInit, LogonInit, Table!Init, Table!NoneLeft, Table!NoSession, NoSession
<1>2. TypeInv /\ [Next]_vars => [Table!Next]_(Table!tableVars)
  BY StepRefines DEF TableStep, Aside, Table!tableVars
<1> QED
  BY <1>1, <1>2, TypeInvariance, PTL DEF Spec, Table!Spec, ImplementsSessionTable

-----------------------------------------------------------------------------
Held(p, u) == sessions[p][u] # NoSession

(* A session that can still be used is for a uid with a verified password. *)
HeldVerified == \A p \in Forwards, u \in Uids :
                   Held(p, u) => \E n \in Names : [uid |-> u, connname |-> n] \in verified

(* A session that can still be used has admitted nobody ... *)
HeldUnused == \A p \in Forwards, u \in Uids :
                 Held(p, u) => \A a \in admitted : a.serial # sessions[p][u].serial

(* ... and no other has its serial number. *)
HeldOnce == \A p, q \in Forwards : \A u, w \in Uids :
               Held(p, u) /\ Held(q, w) /\ sessions[p][u].serial = sessions[q][w].serial => p = q /\ u = w

(* Serial numbers in use are those that have been issued. *)
SerialsIssued == /\ \A p \in Forwards, u \in Uids : Held(p, u) => sessions[p][u].serial <= issued
                 /\ \A a \in admitted : a.serial <= issued

SessionInv == /\ HeldVerified
              /\ HeldUnused
              /\ HeldOnce
              /\ SerialsIssued
              /\ Authenticated
              /\ SingleUse

(* Every step of the session table keeps the invariant about sessions. *)
LEMMA SessionInvStep ==
  ASSUME TypeInv, TypeInv', SessionInv, TableStep
  PROVE  SessionInv'
<1> USE DEF Held, HeldVerified, HeldUnused, HeldOnce, SerialsIssued, Authenticated, SingleUse
<1> DEFINE SS == Opt(Session, NoSession)
<1>0. /\ sessions \in [Forwards -> [Uids -> SS]]
      /\ issued \in Nat
      /\ \A a \in admitted : a.serial \in Nat /\ a.uid \in Uids
  BY DEF TypeInv, ForwardTypeOK
<1>a. \A p \in Forwards, u \in Uids : sessions[p][u] # NoSession => sessions[p][u].serial \in Nat
  <2> SUFFICES ASSUME NEW p \in Forwards, NEW u \in Uids, sessions[p][u] # NoSession
               PROVE  sessions[p][u].serial \in Nat
    OBVIOUS
  <2>1. sessions[p][u] \in Session
    BY <1>0 DEF Opt
  <2> QED
    BY <2>1 DEF Session
<1> HIDE DEF SS
<1>b. Table!NoSession = NoSession
  BY DEF Table!NoSession, NoSession
<1>1. CASE Aside
  BY <1>1 DEF Aside, SessionInv
<1>2. ASSUME NEW u \in Uids, NEW n \in Names, Table!Verify(u, n) PROVE SessionInv'
  BY <1>2 DEF Table!Verify, SessionInv
<1>3. ASSUME NEW p \in Forwards, Table!Forget(p) PROVE SessionInv'
  <2>1. \A q \in Forwards, w \in Uids : sessions'[q][w] # NoSession => sessions'[q][w] = sessions[q][w]
    BY <1>0, <1>3, <1>b DEF Table!Forget, Table!NoneLeft
  <2>2. UNCHANGED <<issued, admitted, verified>>
    BY <1>3 DEF Table!Forget
  <2> QED
    BY <2>1, <2>2 DEF SessionInv
<1>4. ASSUME NEW p \in Forwards, NEW u \in Uids, Table!Used(p, u)
      PROVE  /\ \A q \in Forwards, w \in Uids : sessions'[q][w] # NoSession => sessions'[q][w] = sessions[q][w]
             /\ sessions'[p][u] = NoSession
  BY <1>0, <1>4, <1>b DEF Table!Used
<1>5. ASSUME NEW p \in Forwards, NEW u \in Uids, Table!Reject(p, u) PROVE SessionInv'
  <2>1. UNCHANGED <<issued, admitted, verified>>
    BY <1>5 DEF Table!Reject
  <2> QED
    BY <1>4, <1>5, <2>1, SMTT(30) DEF SessionInv, Table!Reject
<1>6. ASSUME NEW p \in Forwards, NEW u \in Uids, NEW x \in ForwardConns, Table!Admit(p, u, x) PROVE SessionInv'
  <2> DEFINE a == [forward |-> p, conn |-> x, uid |-> u, serial |-> sessions[p][u].serial]
  <2>1. /\ sessions[p][u] # NoSession
        /\ admitted' = admitted \cup {a}
        /\ UNCHANGED <<issued, verified>>
    BY <1>6, <1>b DEF Table!Admit
  <2>2. /\ \A q \in Forwards, w \in Uids : sessions'[q][w] # NoSession => sessions'[q][w] = sessions[q][w]
        /\ sessions'[p][u] = NoSession
    BY <1>4, <1>6 DEF Table!Admit
  <2>3. a.uid = u /\ a.serial = sessions[p][u].serial
    OBVIOUS
  <2> HIDE DEF a
  <2>4. HeldVerified' /\ SerialsIssued' /\ HeldOnce'
    BY <2>1, <2>2, <2>3 DEF SessionInv
  <2>5. HeldUnused'
    <3> SUFFICES ASSUME NEW q \in Forwards, NEW w \in Uids, sessions'[q][w] # NoSession, NEW b \in admitted'
                 PROVE  b.serial # sessions[q][w].serial
      BY <2>2
    <3>1. sessions[q][w] # NoSession /\ ~(q = p /\ w = u)
      BY <2>2
    <3>2. CASE b \in admitted
      BY <3>1, <3>2 DEF SessionInv
    <3>3. CASE b = a
      BY <2>1, <2>3, <3>1, <3>3 DEF SessionInv
    <3> QED
      BY <2>1, <3>2, <3>3
  <2>6. Authenticated' /\ SingleUse'
    BY <2>1, <2>3 DEF SessionInv
  <2> QED
    BY <2>4, <2>5, <2>6 DEF SessionInv
<1>7. ASSUME NEW p \in Forwards, NEW u \in Uids, NEW n \in Names, NEW s \in Sessions, Table!Issue(p, u, n, s)
      PROVE  SessionInv'
  <2> DEFINE e == [session |-> s, serial |-> issued + 1]
  <2>1. /\ [uid |-> u, connname |-> n] \in verified
        /\ sessions' = [sessions EXCEPT ![p][u] = e]
        /\ issued' = issued + 1
        /\ UNCHANGED <<admitted, verified>>
    BY <1>7 DEF Table!Issue
  <2>2. e.serial = issued + 1
    OBVIOUS
  <2> HIDE DEF e
  <2>3. \A q \in Forwards, w \in Uids : sessions'[q][w] = IF q = p /\ w = u THEN e ELSE sessions[q][w]
    BY <1>0, <2>1
  <2>4. HeldVerified'
    BY <2>1, <2>3 DEF SessionInv
  <2>5. SerialsIssued'
    BY <1>0, <1>a, <2>1, <2>2, <2>3 DEF SessionInv
  <2>6. HeldUnused'
    BY <1>0, <2>1, <2>2, <2>3 DEF SessionInv
  <2>7. HeldOnce'
    BY <1>0, <1>a, <2>2, <2>3 DEF SessionInv
  <2>8. Authenticated' /\ SingleUse'
    BY <2>1 DEF SessionInv
  <2> QED
    BY <2>4, <2>5, <2>6, <2>7, <2>8 DEF SessionInv
<1> QED
  BY <1>1, <1>2, <1>3, <1>5, <1>6, <1>7 DEF TableStep, Table!Next

(* The inductive invariant of the session theorems holds in every state    *)
(* the cluster can reach.                                                  *)
THEOREM SessionInvariance == Spec => []SessionInv
<1>1. Init => SessionInv
  BY DEF Init, ForwardInit, SessionInv, Held, HeldVerified, HeldUnused, HeldOnce, SerialsIssued, Authenticated,
         SingleUse
<1>2. TypeInv /\ TypeInv' /\ SessionInv /\ [Next]_vars => SessionInv'
  BY StepRefines, SessionInvStep
<1> QED
  BY <1>1, <1>2, TypeInvariance, PTL DEF Spec

(* Nobody is admitted by a forward server without a verified password.     *)
THEOREM AuthenticatedHolds == Spec => []Authenticated
<1>1. SessionInv => Authenticated
  BY DEF SessionInv
<1> QED
  BY <1>1, SessionInvariance, PTL

(* No session admits two connections, although rand() may repeat itself.   *)
THEOREM SingleUseHolds == Spec => []SingleUse
<1>1. SessionInv => SingleUse
  BY DEF SessionInv
<1> QED
  BY <1>1, SessionInvariance, PTL
-----------------------------------------------------------------------------
(* Client x's connection is one whose client may go on as uid u: it is its *)
(* own uid, and its own password is right.                                 *)
Own(x, u) == /\ u = ClientUid[Owner(x)] % UidModulus
             /\ PasswdMatches([uid |-> ClientUid[Owner(x)], passwd |-> ClientPasswd[Owner(x)]])

(* What a client says, it says of itself. *)
SpeaksForItself == \A x \in LogonConns : \A m \in Sent(c2s[x], "Logon") :
                      m.uid = ClientUid[Owner(x)] /\ m.passwd = ClientPasswd[Owner(x)]

(* A task is about the client behind its connection name, if it is still   *)
(* there; the name is not given out again.                                 *)
TasksNamed == \A t \in tasks :
    /\ t.connname < nextConnId
    /\ LET x == clientConns[t.connname]
       IN  x # NoConn => t.uid = ClientUid[Owner(x)] /\ t.passwd = ClientPasswd[Owner(x)]

(* So is what a database thread has found right. *)
VerifiedNamed == \A v \in verified :
    /\ v.connname < nextConnId
    /\ clientConns[v.connname] # NoConn => Own(clientConns[v.connname], v.uid)

(* A client is told of the session of its own logon. *)
ToldItsOwn == \A x \in LogonConns : \A m \in Sent(s2c[x], "LogonRet") : m.status = "SUCCESS" => Own(x, m.uid)

OwnInv == SpeaksForItself /\ TasksNamed /\ VerifiedNamed /\ ToldItsOwn /\ OwnLogon

(* Before the first logon there is nothing to mix up. *)
LEMMA InitOwnInv == Init => OwnInv
<1> SUFFICES ASSUME Init PROVE OwnInv
  OBVIOUS
<1>1. \A x \in LogonConns : c2s[x] = <<>> /\ s2c[x] = <<>>
  BY ConnKinds DEF Init, NetInit
<1>2. SpeaksForItself /\ ToldItsOwn
  BY <1>1, EmptyQueue DEF SpeaksForItself, ToldItsOwn
<1>3. TasksNamed /\ VerifiedNamed /\ OwnLogon
  BY DEF Init, LogonInit, ClientInit, TasksNamed, VerifiedNamed, OwnLogon
<1> QED
  BY <1>2, <1>3 DEF OwnInv

(* Sending adds at most the message. *)
LEMMA SentAtMost ==
  ASSUME NEW M, NEW q \in Seq(M), NEW m, NEW t
  PROVE  Sent(Append(q, m), t) \subseteq Sent(q, t) \cup {m}
<1>1. CASE m.type = t
  BY <1>1, SentAppend
<1>2. CASE m.type # t
  BY <1>2, SentAppend
<1> QED
  BY <1>1, <1>2

(* A step after which the clients' connections carry nothing new keeps     *)
(* their part.                                                             *)
LEMMA NothingNewSaid ==
  ASSUME OwnInv, \A x \in LogonConns : /\ Sent(c2s'[x], "Logon") \subseteq Sent(c2s[x], "Logon")
                                       /\ Sent(s2c'[x], "LogonRet") \subseteq Sent(s2c[x], "LogonRet")
  PROVE  SpeaksForItself' /\ ToldItsOwn'
BY DEF OwnInv, SpeaksForItself, ToldItsOwn, Own, PasswdMatches, TaskUid

(* A step that leaves the clients' connections, the logon server and the   *)
(* clients alone keeps it all.                                             *)
LEMMA OwnElsewhere ==
  ASSUME OwnInv, \A x \in LogonConns : c2s'[x] = c2s[x] /\ s2c'[x] = s2c[x],
         UNCHANGED <<clientConns, nextConnId, tasks, verified, forwardClient>>
  PROVE  OwnInv'
<1>1. SpeaksForItself' /\ ToldItsOwn'
  BY NothingNewSaid
<1>2. TasksNamed' /\ VerifiedNamed' /\ OwnLogon'
  BY DEF OwnInv, TasksNamed, VerifiedNamed, OwnLogon, Own, PasswdMatches, TaskUid
<1> QED
  BY <1>1, <1>2 DEF OwnInv

(* The logon server, as long as it is not restarted, answers the client    *)
(* that asked.                                                             *)
LEMMA LogonOwns ==
  ASSUME TypeInv, OwnInv, LogonStep, "logon" \notin FaultKinds, UNCHANGED forwardClient
  PROVE  OwnInv'
<1> USE DEF TypeInv
<1> DEFINE V == Vetted(verified)
<1>0. /\ \A c \in HubLogonConns : c \in Conns /\ c \notin LogonConns /\ c # NoConn
      /\ \A x \in LogonConns : x \in Conns /\ x \notin HubLogonConns /\ x # NoConn
  BY ConnKinds, NoConnNotConn
<1>a. /\ c2s \in Queues(V) /\ s2c \in Queues(V)
      /\ logonHubConn \in HubLogonConns \cup {NoConn}
      /\ clientConns \in [Names -> LogonConns \cup {NoConn}]
      /\ nextConnId \in Nat
      /\ \A t \in tasks : t.connname \in Names
      /\ \A v \in verified : v.connname \in Names
      /\ \A n \in Names : n \in Nat
  BY LogonAssumption DEF Mail, LogonTypeOK, Opt, Names
<1>b. OwnLogon'
  BY DEF OwnInv, OwnLogon, PasswdMatches, TaskUid
<1>c. ASSUME UNCHANGED <<clientConns, nextConnId, verified>>, tasks' \subseteq tasks PROVE TasksNamed' /\ VerifiedNamed'
  BY <1>c DEF OwnInv, TasksNamed, VerifiedNamed, Own, PasswdMatches, TaskUid
<1>d. ASSUME \A x \in LogonConns : c2s'[x] = c2s[x] /\ s2c'[x] = s2c[x] PROVE SpeaksForItself' /\ ToldItsOwn'
  BY <1>d, NothingNewSaid
<1>1. ASSUME NEW c \in HubLogonConns, LogonConnectHub(c) PROVE OwnInv'
  <2>1. /\ \A x \in LogonConns : c2s'[x] = c2s[x] /\ s2c'[x] = s2c[x]
        /\ UNCHANGED <<clientConns, nextConnId, verified, tasks>>
    BY <1>0, <1>a, <1>1 DEF LogonConnectHub, Connected, Queues
  <2> QED
    BY <2>1, OwnElsewhere
<1>2. ASSUME NEW c \in HubLogonConns, LogonOnHubConnectionDown(c) PROVE OwnInv'
  <2>1. /\ \A x \in LogonConns : c2s'[x] = c2s[x] /\ s2c'[x] = s2c[x]
        /\ UNCHANGED <<clientConns, nextConnId, verified, tasks>>
    BY <1>0, <1>a, <1>2 DEF LogonOnHubConnectionDown, CloseC, SendC, Drained, Queues
  <2> QED
    BY <2>1, OwnElsewhere
<1>3. ASSUME NEW c \in HubLogonConns, LogonOnHubLogonAnswerForwardID(c) PROVE OwnInv'
  <2> DEFINE ans == Head(s2c[c])
             r   == [type |-> "LogonRet", status |-> "SUCCESS", uid |-> ans.uid,
                     forward |-> ans.forward, session |-> ans.session]
             y   == clientConns[ans.connname]
  <2>1. /\ s2c' = SendS(Recv(s2c, c), y, r)
        /\ UNCHANGED <<c2s, clientConns, nextConnId, verified, tasks>>
    BY <1>3 DEF LogonOnHubLogonAnswerForwardID, LogonSendToClient, logonVars
  <2>2. ans \in V /\ ans.type = "HubLogonAnswerForwardID"
    BY <1>0, <1>3, ReadAtClient DEF LogonOnHubLogonAnswerForwardID
  <2>3. ans.connname \in Names /\ [uid |-> ans.uid, connname |-> ans.connname] \in verified
    BY <2>2, MessageFields DEF Certificates
  <2>4. y # NoConn => Own(y, ans.uid)
    BY <2>3 DEF OwnInv, VerifiedNamed
  <2>5. r.type = "LogonRet" /\ r.uid = ans.uid
    OBVIOUS
  <2> HIDE DEF ans, r, y
  <2>6. \A x \in LogonConns : s2c'[x] = s2c[x] \/ (x = y /\ s2c'[x] = Append(s2c[x], r))
    BY <1>0, <1>a, <2>1 DEF SendS, Recv, Queues
  <2>7. ToldItsOwn'
    <3>1. ASSUME NEW x \in LogonConns
          PROVE  \A n \in Sent(s2c'[x], "LogonRet") : n \in Sent(s2c[x], "LogonRet") \/ (x = y /\ n = r)
      <4>1. s2c[x] \in Seq(V)
        BY <1>0, <1>a DEF Queues
      <4> HIDE DEF V
      <4>2. Sent(Append(s2c[x], r), "LogonRet") \subseteq Sent(s2c[x], "LogonRet") \cup {r}
        BY <4>1, SentAtMost
      <4> QED
        BY <2>6, <4>2
    <3>2. \A x \in LogonConns : \A n \in Sent(s2c'[x], "LogonRet") : n.status = "SUCCESS" => Own(x, n.uid)
      BY <1>0, <2>4, <2>5, <3>1 DEF OwnInv, ToldItsOwn
    <3> QED
      BY <3>2 DEF ToldItsOwn, Own, PasswdMatches, TaskUid
  <2>8. SpeaksForItself'
    BY <2>1 DEF OwnInv, SpeaksForItself
  <2> QED
    BY <1>b, <1>c, <2>1, <2>7, <2>8 DEF OwnInv
<1>4. ASSUME NEW x \in LogonConns, LogonOnConnectionUp(x) PROVE OwnInv'
  <2>1. /\ clientConns' = [clientConns EXCEPT ![nextConnId] = x]
        /\ nextConnId' = nextConnId + 1
        /\ UNCHANGED <<c2s, s2c, tasks, verified>>
    BY <1>4 DEF LogonOnConnectionUp
  <2>2. \A n \in Names : n < nextConnId => clientConns'[n] = clientConns[n] /\ n < nextConnId'
    BY <1>a, <2>1
  <2>3. TasksNamed'
    BY <1>a, <2>1, <2>2 DEF OwnInv, TasksNamed
  <2>4. VerifiedNamed'
    BY <1>a, <2>1, <2>2 DEF OwnInv, VerifiedNamed, Own, PasswdMatches, TaskUid
  <2> QED
    BY <1>b, <1>d, <2>1, <2>3, <2>4 DEF OwnInv
<1>5. ASSUME NEW x \in LogonConns, LogonOnConnectionDown(x) PROVE OwnInv'
  <2>1. /\ clientConns' = [clientConns EXCEPT ![NameOf(x)] = NoConn]
        /\ c2s' = Drained(c2s, x)
        /\ s2c' = SendS(s2c, x, FIN)
        /\ UNCHANGED <<nextConnId, tasks, verified>>
    BY <1>5 DEF LogonOnConnectionDown, CloseS
  <2>2. \A n \in Names : clientConns'[n] \in {clientConns[n], NoConn}
    BY <1>a, <2>1
  <2>3. TasksNamed'
    BY <1>a, <2>1, <2>2 DEF OwnInv, TasksNamed
  <2>4. VerifiedNamed'
    BY <1>a, <2>1, <2>2 DEF OwnInv, VerifiedNamed, Own, PasswdMatches, TaskUid
  <2>5. FIN.type # "LogonRet"
    BY DEF FIN
  <2>6. SpeaksForItself' /\ ToldItsOwn'
    <3>1. \A y \in LogonConns : Sent(c2s'[y], "Logon") \subseteq Sent(c2s[y], "Logon")
      BY <1>0, <1>a, <2>1, SentMail
    <3>2. \A y \in LogonConns : Sent(s2c'[y], "LogonRet") = Sent(s2c[y], "LogonRet")
      BY <1>0, <1>a, <2>1, <2>5, SentOther
    <3> QED
      BY <3>1, <3>2, NothingNewSaid
  <2> QED
    BY <1>b, <2>3, <2>4, <2>6 DEF OwnInv
<1>6. ASSUME NEW x \in LogonConns, LogonOnLogon(x) PROVE OwnInv'
  <2> DEFINE m == Head(c2s[x])
             t == [uid |-> m.uid, passwd |-> m.passwd, keeperserverid |-> m.keeperserverid, connname |-> NameOf(x)]
  <2>1. /\ ReadsS(x, "Logon") /\ c2s' = Recv(c2s, x)
        /\ tasks' = tasks \cup {t}
        /\ UNCHANGED <<s2c, clientConns, nextConnId, verified>>
    BY <1>6 DEF LogonOnLogon
  <2>2. NameOf(x) \in Names /\ clientConns[NameOf(x)] = x
    BY <2>1, NameOfOpen DEF ReadsS
  <2>3. NameOf(x) < nextConnId
    BY <1>0, <1>a, <2>2 DEF WellFormed, NamedConns
  <2>4. c2s[x] # <<>> /\ c2s[x] \in Seq(V)
    BY <1>0, <1>a, <2>1 DEF ReadsS, Queues
  <2>5. m \in Sent(c2s[x], "Logon")
    <3>1. m = c2s[x][1] /\ 1 \in DOMAIN c2s[x]
      BY <2>4
    <3> QED
      BY <2>1, <3>1 DEF Sent, ReadsS
  <2>6. m.uid = ClientUid[Owner(x)] /\ m.passwd = ClientPasswd[Owner(x)]
    BY <2>5 DEF OwnInv, SpeaksForItself
  <2>7. TasksNamed'
    <3>1. t.connname = NameOf(x) /\ t.uid = m.uid /\ t.passwd = m.passwd
      OBVIOUS
    <3> HIDE DEF t, m
    <3> QED
      BY <2>1, <2>2, <2>3, <2>6, <3>1 DEF OwnInv, TasksNamed
  <2>8. VerifiedNamed'
    BY <2>1 DEF OwnInv, VerifiedNamed, Own, PasswdMatches, TaskUid
  <2>9. SpeaksForItself' /\ ToldItsOwn'
    <3>1. \A y \in LogonConns : Sent(c2s'[y], "Logon") \subseteq Sent(c2s[y], "Logon")
      BY <1>0, <1>a, <2>1, <2>4, SentMail
    <3> QED
      BY <2>1, <3>1, NothingNewSaid
  <2> QED
    BY <1>b, <2>7, <2>8, <2>9 DEF OwnInv
<1>7. ASSUME NEW t \in tasks, LogonQueryAccountMatch(t) PROVE OwnInv'
  <2> DEFINE v == [uid |-> TaskUid(t), connname |-> t.connname]
  <2>1. /\ PasswdMatches(t)
        /\ \E m : c2s' = SendC(c2s, logonHubConn, m)
        /\ verified' = verified \cup {v}
        /\ tasks' \subseteq tasks
        /\ UNCHANGED <<s2c, clientConns, nextConnId>>
    BY <1>7 DEF LogonQueryAccountMatch, LogonSendToHub
  <2>2. \A x \in LogonConns : c2s'[x] = c2s[x] /\ s2c'[x] = s2c[x]
    BY <1>0, <1>a, <2>1 DEF SendC, Queues
  <2>3. TasksNamed'
    BY <2>1 DEF OwnInv, TasksNamed
  <2>4. t.connname < nextConnId /\ (clientConns[t.connname] # NoConn => Own(clientConns[t.connname], TaskUid(t)))
    BY <2>1 DEF OwnInv, TasksNamed, Own, PasswdMatches, TaskUid
  <2>5. VerifiedNamed'
    <3>1. v.connname = t.connname /\ v.uid = TaskUid(t)
      OBVIOUS
    <3> HIDE DEF v
    <3>2. \A w \in verified \cup {v} : /\ w.connname < nextConnId
                                       /\ clientConns[w.connname] # NoConn => Own(clientConns[w.connname], w.uid)
      BY <2>4, <3>1 DEF OwnInv, VerifiedNamed
    <3> QED
      BY <2>1, <3>2 DEF VerifiedNamed, Own, PasswdMatches, TaskUid
  <2> QED
    BY <1>b, <1>d, <2>2, <2>3, <2>5 DEF OwnInv
<1>8. ASSUME NEW t \in tasks, LogonQueryAccountMismatch(t) PROVE OwnInv'
  <2> DEFINE r == [type |-> "LogonRet", status |-> "FAILED", uid |-> TaskUid(t)]
             y == clientConns[t.connname]
  <2>1. /\ s2c' = s2c \/ s2c' = SendS(SendS(s2c, y, r), y, FIN)
        /\ tasks' \subseteq tasks
        /\ UNCHANGED <<c2s, clientConns, nextConnId, verified>>
    BY <1>8 DEF LogonQueryAccountMismatch, LogonSendAndShutdown, LogonSendToClient, ShutdownS
  <2>2. r \in V /\ FIN \in V
    BY <1>a, TaskUidType, PlainMessages
  <2>3. r.status # "SUCCESS" /\ r.type = "LogonRet" /\ FIN.type # "LogonRet"
    BY DEF FIN
  <2>a. y \in Conns \cup {NoConn}
    BY <1>0, <1>a
  <2> HIDE DEF r, y
  <2>4. SendS(s2c, y, r) \in Queues(V)
    BY <1>a, <2>2, <2>a, SendType
  <2>5. ToldItsOwn'
    <3> DEFINE q == SendS(s2c, y, r)
    <3>1. ASSUME NEW x \in LogonConns
          PROVE  \A n \in Sent(s2c'[x], "LogonRet") : n \in Sent(s2c[x], "LogonRet") \/ n = r
      <4>1. x \in Conns /\ s2c[x] \in Seq(V)
        BY <1>0, <1>a DEF Queues
      <4>2. q[x] \in {s2c[x], Append(s2c[x], r)}
        BY <1>a, <4>1 DEF SendS, Queues
      <4>3. q \in Queues(V)
        BY <2>4
      <4>4. s2c' = s2c \/ s2c' = SendS(q, y, FIN)
        BY <2>1
      <4> HIDE DEF V, q
      <4>5. Sent(Append(s2c[x], r), "LogonRet") \subseteq Sent(s2c[x], "LogonRet") \cup {r}
        BY <4>1, SentAtMost
      <4>6. Sent(SendS(q, y, FIN)[x], "LogonRet") = Sent(q[x], "LogonRet")
        BY <2>3, <4>1, <4>3, SentOther
      <4>7. \A n \in Sent(q[x], "LogonRet") : n \in Sent(s2c[x], "LogonRet") \/ n = r
        BY <4>2, <4>5
      <4> QED
        BY <4>4, <4>6, <4>7
    <3>2. \A x \in LogonConns : \A n \in Sent(s2c'[x], "LogonRet") : n.status = "SUCCESS" => Own(x, n.uid)
      BY <2>3, <3>1 DEF OwnInv, ToldItsOwn
    <3> QED
      BY <3>2 DEF ToldItsOwn, Own, PasswdMatches, TaskUid
  <2>6. SpeaksForItself'
    BY <2>1 DEF OwnInv, SpeaksForItself
  <2> QED
    BY <1>b, <1>c, <2>1, <2>5, <2>6 DEF OwnInv
<1>9. ASSUME NEW t \in tasks, LogonQueryAccountNoConnection(t) PROVE OwnInv'
  BY <1>b, <1>c, <1>d, <1>9 DEF LogonQueryAccountNoConnection, netVars, OwnInv
<1>10. ASSUME LogonRestart PROVE OwnInv'
  BY <1>10 DEF LogonRestart, MayRestart
<1> QED
  BY <1>1, <1>2, <1>3, <1>4, <1>5, <1>6, <1>7, <1>8, <1>9, <1>10 DEF LogonStep

(* A client sends its own uid and password, and goes on with what it is    *)
(* told.                                                                   *)
LEMMA ClientOwns ==
  ASSUME TypeInv, OwnInv, NEW c \in Clients, ClientStep(c), UNCHANGED <<clientConns, nextConnId, tasks, verified>>
  PROVE  OwnInv'
<1> USE DEF TypeInv
<1> DEFINE V == Vetted(verified)
           x == LogonConnOf(c)
           f == forwardClient[c]
           F == [conn : ForwardConns, to : ServerIds, uid : Uids, session : Sessions]
<1>0. /\ x \in LogonConns /\ Owner(x) = c
      /\ \A y \in LogonConns : y \in Conns /\ y # NoConn /\ y \notin ForwardConns
  BY ConnKinds, NoConnNotConn DEF LogonConnOf, LogonConns, Owner
<1>a. /\ c2s \in Queues(V) /\ s2c \in Queues(V)
      /\ forwardClient \in [Clients -> F \cup {NoClient}]
  BY DEF Mail, ClientTypeOK, Opt
<1>b. /\ f # NoClient => f.conn \in ForwardConns
      /\ f.conn # NoConn => f.conn \in ForwardConns
  <2>1. f = NoClient \/ f \in F
    BY <1>a
  <2> HIDE DEF f
  <2> QED
    BY <2>1 DEF NoClient
<1>c. TasksNamed' /\ VerifiedNamed'
  BY DEF OwnInv, TasksNamed, VerifiedNamed, Own, PasswdMatches, TaskUid
<1>d. ASSUME UNCHANGED forwardClient PROVE OwnLogon'
  BY <1>d DEF OwnInv, OwnLogon, PasswdMatches, TaskUid
<1>e. FIN.type # "Logon"
  BY DEF FIN
<1>f. ASSUME \E y : c2s' = SendC(c2s, y, FIN),
             \A y \in LogonConns : Sent(s2c'[y], "LogonRet") \subseteq Sent(s2c[y], "LogonRet")
      PROVE  SpeaksForItself' /\ ToldItsOwn'
  <2>1. \A y \in LogonConns : Sent(c2s'[y], "Logon") = Sent(c2s[y], "Logon")
    BY <1>0, <1>a, <1>e, <1>f, SentOther
  <2> QED
    BY <1>f, <2>1, NothingNewSaid
<1> HIDE DEF x
<1>g. ASSUME s2c[x] # <<>> PROVE \A y \in LogonConns : Sent(Recv(s2c, x)[y], "LogonRet") \subseteq Sent(s2c[y], "LogonRet")
  BY <1>0, <1>a, <1>g, SentMail
<1>1. ASSUME ClientConnect(c) PROVE OwnInv'
  <2> DEFINE m == [type |-> "Logon", uid |-> ClientUid[c], passwd |-> ClientPasswd[c],
                   keeperserverid |-> ClientKeeper[c]]
  <2>1. c2s' = [c2s EXCEPT ![x] = <<m>>] /\ UNCHANGED <<s2c, forwardClient>>
    BY <1>1 DEF ClientConnect, Connected, clientVars, x
  <2>2. m.type = "Logon" /\ m.uid = ClientUid[Owner(x)] /\ m.passwd = ClientPasswd[Owner(x)]
    BY <1>0
  <2> HIDE DEF m
  <2>3. \A y \in LogonConns : c2s'[y] = IF y = x THEN <<m>> ELSE c2s[y]
    BY <1>0, <1>a, <2>1 DEF Queues
  <2>4. Sent(<<m>>, "Logon") = {m}
    BY <2>2, SentOne
  <2>5. SpeaksForItself'
    BY <2>2, <2>3, <2>4 DEF OwnInv, SpeaksForItself
  <2>6. ToldItsOwn'
    BY <2>1 DEF OwnInv, ToldItsOwn, Own, PasswdMatches, TaskUid
  <2> QED
    BY <1>c, <1>d, <2>1, <2>5, <2>6 DEF OwnInv
<1>2. ASSUME ClientOnConnectionDown(c) PROVE OwnInv'
  <2>1. c2s' = SendC(c2s, x, FIN) /\ s2c' = Drained(s2c, x) /\ UNCHANGED forwardClient
    BY <1>2 DEF ClientOnConnectionDown, CloseC, clientVars, x
  <2>2. \A y \in LogonConns : Sent(s2c'[y], "LogonRet") \subseteq Sent(s2c[y], "LogonRet")
    BY <1>0, <1>a, <2>1, SentMail
  <2> QED
    BY <1>c, <1>d, <1>f, <2>1, <2>2 DEF OwnInv
<1>3. ASSUME ClientOnLogonRetFailed(c) \/ ClientOnMisframedLogonRet(c) PROVE OwnInv'
  <2>1. /\ c2s' = SendC(c2s, x, FIN) /\ s2c' = Recv(s2c, x) /\ UNCHANGED forwardClient
        /\ s2c[x] # <<>>
    BY <1>3 DEF ClientOnLogonRetFailed, ClientOnMisframedLogonRet, ShutdownC, clientVars, ReadsC, x
  <2> QED
    BY <1>c, <1>d, <1>f, <1>g, <2>1 DEF OwnInv
<1>4. ASSUME ClientOnLogonRetSuccess(c) PROVE OwnInv'
  <2> DEFINE ret == Head(s2c[x])
             new == [conn |-> NextForwardConn(c), to |-> ret.forward, uid |-> ret.uid, session |-> ret.session]
             old == f.conn
  <2>1. /\ ReadsC(x, "LogonRet") /\ ret.status = "SUCCESS"
        /\ forwardClient' = [forwardClient EXCEPT ![c] = new]
        /\ \/ old # NoConn /\ s2c' = Drained(Recv(s2c, x), old) /\ c2s' = SendC(c2s, old, FIN)
           \/ s2c' = Recv(s2c, x) /\ UNCHANGED c2s
    BY <1>4 DEF ClientOnLogonRetSuccess, x
  <2>2. s2c[x] \in Seq(V) /\ s2c[x] # <<>> /\ ret.type = "LogonRet" /\ ret = s2c[x][1] /\ 1 \in DOMAIN s2c[x]
    <3>1. s2c[x] \in Seq(V) /\ s2c[x] # <<>> /\ ret.type = "LogonRet"
      BY <1>0, <1>a, <2>1 DEF Queues, ReadsC
    <3> QED
      BY <3>1
  <2>3. Own(x, ret.uid)
    <3>1. ret \in Sent(s2c[x], "LogonRet")
      BY <2>2 DEF Sent
    <3> QED
      BY <1>0, <2>1, <3>1 DEF OwnInv, ToldItsOwn
  <2>4. new # NoClient => new.uid = ret.uid
    OBVIOUS
  <2> HIDE DEF ret, new
  <2>5. OwnLogon'
    <3>1. \A b \in Clients : forwardClient'[b] = IF b = c THEN new ELSE forwardClient[b]
      BY <1>a, <2>1
    <3>2. \A b \in Clients : forwardClient'[b] # NoClient =>
             /\ forwardClient'[b].uid = ClientUid[b] % UidModulus
             /\ PasswdMatches([uid |-> ClientUid[b], passwd |-> ClientPasswd[b]])
      BY <1>0, <2>3, <2>4, <3>1 DEF OwnInv, OwnLogon, Own
    <3> QED
      BY <3>2 DEF OwnLogon, PasswdMatches, TaskUid
  <2> HIDE DEF old
  <2>6. \A y \in LogonConns : /\ s2c'[y] = Recv(s2c, x)[y]
                              /\ c2s'[y] = c2s[y]
    <3>1. old # NoConn => old \in ForwardConns
      BY <1>b DEF old
    <3> QED
      BY <1>0, <1>a, <2>1, <3>1 DEF Drained, Recv, SendC, Queues
  <2>7. SpeaksForItself' /\ ToldItsOwn'
    BY <1>g, <2>2, <2>6, NothingNewSaid
  <2> QED
    BY <1>c, <2>5, <2>7 DEF OwnInv
<1>5. ASSUME NEW p \in Forwards, ForwardClientConnect(c, p) PROVE OwnInv'
  <2>1. /\ f # NoClient /\ UNCHANGED <<s2c, forwardClient>>
        /\ \E q : c2s' = [c2s EXCEPT ![f.conn] = q]
    BY <1>5 DEF ForwardClientConnect, clientVars
  <2> HIDE DEF f
  <2>2. \A y \in LogonConns : c2s'[y] = c2s[y] /\ s2c'[y] = s2c[y]
    BY <1>0, <1>a, <1>b, <2>1 DEF Queues
  <2> QED
    BY <2>1, <2>2, OwnElsewhere
<1>6. ASSUME ForwardClientOnConnectionDown(c) PROVE OwnInv'
  <2>1. /\ f # NoClient /\ UNCHANGED forwardClient
        /\ c2s' = SendC(c2s, f.conn, FIN) /\ s2c' = Drained(s2c, f.conn)
    BY <1>6 DEF ForwardClientOnConnectionDown, CloseC, clientVars
  <2> HIDE DEF f
  <2>2. \A y \in LogonConns : c2s'[y] = c2s[y] /\ s2c'[y] = s2c[y]
    BY <1>0, <1>a, <1>b, <2>1 DEF SendC, Drained, Queues
  <2> QED
    BY <2>1, <2>2, OwnElsewhere
<1> QED
  BY <1>1, <1>2, <1>3, <1>4, <1>5, <1>6 DEF ClientStep

(* No step mixes up clients, short of a restart of the logon server. *)
LEMMA OwnInvStep ==
  ASSUME TypeInv, RegInv, OwnInv, Next, "logon" \notin FaultKinds
  PROVE  OwnInv'
<1>0. \A c \in LogonConns : /\ c \in Conns /\ c \notin HubConns /\ c \notin HubKeeperConns
                            /\ c \notin KeeperForwardConns /\ c \notin ForwardConns
  BY ConnKinds
<1>a. ASSUME UNCHANGED <<logonVars, clientVars>>, \A c \in LogonConns : Untouched(c) PROVE OwnInv'
  BY <1>a, OwnElsewhere DEF Untouched, logonVars, clientVars
<1>1. ASSUME Hub PROVE OwnInv'
  BY <1>0, <1>1, <1>a, HubFrame DEF Hub
<1>2. ASSUME NEW k \in Keepers, Keeper(k) PROVE OwnInv'
  <2>1. KeeperStep(k) /\ KeeperRegistered /\ UNCHANGED <<logonVars, clientVars>>
    BY <1>2 DEF Keeper, RegInv
  <2>2. \A c \in LogonConns : c \notin KeeperEnds(k)
    BY <1>0 DEF KeeperEnds
  <2> QED
    BY <1>0, <1>a, <2>1, <2>2, KeeperFrame
<1>3. ASSUME NEW p \in Forwards, Forward(p) PROVE OwnInv'
  <2>1. ForwardStep(p) /\ ForwardRegistered /\ UNCHANGED <<logonVars, clientVars>>
    BY <1>3 DEF Forward, RegInv
  <2>2. \A c \in LogonConns : c \notin KeeperConnsOf(p)
    BY <1>0 DEF KeeperConnsOf
  <2> QED
    BY <1>0, <1>a, <2>1, <2>2, ForwardFrame
<1>4. ASSUME Logon PROVE OwnInv'
  BY <1>4, LogonOwns DEF Logon, clientVars
<1>5. ASSUME NEW c \in Clients, Client(c) PROVE OwnInv'
  BY <1>5, ClientOwns DEF Client, logonVars
<1>6. ASSUME Network PROVE OwnInv'
  BY <1>6, OwnElsewhere DEF Network, Cut, logonVars, clientVars
<1> QED
  BY <1>1, <1>2, <1>3, <1>4, <1>5, <1>6 DEF Next

(* As long as the logon server process is not restarted, a client goes on  *)
(* to a forward server only for its own uid and with its own password      *)
(* right, however late the answer and whatever else fails.                 *)
THEOREM EveryLogonItsOwn ==
  ASSUME "logon" \notin FaultKinds
  PROVE  Spec => []OwnLogon
<1>1. TypeInv /\ RegInv /\ OwnInv /\ [Next]_vars => OwnInv'
  <2> SUFFICES ASSUME TypeInv, RegInv, OwnInv, [Next]_vars PROVE OwnInv'
    OBVIOUS
  <2>1. CASE Next
    BY <2>1, OwnInvStep
  <2>2. CASE UNCHANGED vars
    BY <2>2, OwnElsewhere DEF vars, netVars, logonVars, clientVars
  <2> QED
    BY <2>1, <2>2
<1>2. OwnInv => OwnLogon
  BY DEF OwnInv
<1> QED
  BY <1>1, <1>2, InitOwnInv, TypeInvariance, Registration, PTL DEF Spec
=============================================================================

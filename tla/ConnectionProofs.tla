-------------------------- MODULE ConnectionProofs --------------------------
(***************************************************************************)
(* What is proved about the connection, its client and the poller, for any *)
(* number of threads, messages and descriptors.                            *)
(*                                                                         *)
(* TcpConnection: LifeInv follows the connection from newConnection to the *)
(* destructor; WireInv follows the bytes from send to the socket.  A       *)
(* message is either out, in the functors or given up, and once one is     *)
(* given up (Stuck) no later one goes out as long as kDisconnected is not  *)
(* overwritten.                                                            *)
(*                                                                         *)
(* TcpClient: ClientInv relates the state of the client, its socket and    *)
(* its functors.                                                           *)
(*                                                                         *)
(* Pollers: PollerInv relates each Channel to channels_, to the kernel's   *)
(* set and to its pollfd.                                                  *)
(***************************************************************************)
EXTENDS TcpConnection, TcpClient, Poller, SequenceTheorems, FiniteSetTheorems, TLAPS

-----------------------------------------------------------------------------
(* TcpConnection: its life, from newConnection to the destructor. *)

(* The bytes that a thread sends. *)
Octets == [from : Senders \cup {LoopThread}, msg : Nat, at : 1..MsgLen]
IoFunctors == [op : Owning] \cup [op : {"send", "shutdown"}, data : Seq(Octets), late : BOOLEAN]

ConnTypeOK ==
    /\ connState \in {"connecting", "connected", "disconnecting", "disconnected"}
    /\ isReading \in BOOLEAN
    /\ isWriting \in BOOLEAN
    /\ outputBuffer \in Seq(Octets)
    /\ ioFunctors \in Seq(IoFunctors)
    /\ baseFunctors \in Seq({"remove"})
    /\ inServer \in BOOLEAN
    /\ inUserMap \in BOOLEAN
    /\ sender \in [Senders -> {"idle", "holding", "sending", "shutting", "queueing"}]
    /\ delayed \in BOOLEAN
    /\ peer \in {"open", "closed", "reset"}
    /\ finSent \in BOOLEAN
    /\ wire \in Seq(Octets)
    /\ sentMessages \in [Senders \cup {LoopThread} -> Nat]
    /\ failed \in BOOLEAN
    /\ overwritten \in BOOLEAN

(* Of the functors q: none is connectEstablished, none is connectDestroyed; *)
(* one with a raw pointer that is not late has connectDestroyed behind it. *)
NoneStarts(q) == \A i \in DOMAIN q : q[i].op # "established"
NoneDestroys(q) == \A i \in DOMAIN q : q[i].op # "destroyed"
AllGuarded(q) == \A i \in DOMAIN q : q[i].op \in {"send", "shutdown"} /\ ~q[i].late =>
                    \E j \in DOMAIN q : i < j /\ q[j].op = "destroyed"

(* Before connectEstablished there is nothing but its functor. *)
NotUpYet == /\ connState = "connecting" =>
                 /\ ioFunctors = <<[op |-> "established"]>>
                 /\ ~isReading /\ ~isWriting /\ ~inUserMap /\ ~finSent /\ ~delayed
                 /\ inServer /\ baseFunctors = <<>> /\ outputBuffer = <<>> /\ wire = <<>>
                 /\ \A t \in Senders : sender[t] = "idle"
                 /\ ~overwritten
            /\ connState # "connecting" => NoneStarts(ioFunctors)

(* While it is up the connection is connected or on its way down, and not  *)
(* removed.                                                                *)
UpIsKept == /\ isReading => Open /\ inServer /\ baseFunctors = <<>> /\ ~overwritten
            /\ connState = "connected" \/ inUserMap => isReading

(* Then it is disconnected for good and removed once, as long as nobody    *)
(* overwrites the state.                                                   *)
DownOnce == /\ inServer => NoneDestroys(ioFunctors)
            /\ ~overwritten => /\ ~failed
                               /\ Closed => connState = "disconnected" /\ ~isWriting
                               /\ Len(baseFunctors) <= 1 /\ (baseFunctors # <<>> => inServer)

(* connectDestroyed is queued behind what was queued before the close. *)
Guarded == inServer \/ baseFunctors # <<>> \/ AllGuarded(ioFunctors)

(* The inductive invariant of its life. *)
LifeInv == ConnTypeOK /\ NotUpYet /\ UpIsKept /\ DownOnce /\ Guarded

(* Running the first functor. *)
LEMMA PopFunctor ==
    ASSUME NEW q \in Seq(IoFunctors), q # <<>>
    PROVE  /\ Tail(q) \in Seq(IoFunctors)
           /\ Head(q) \in IoFunctors
           /\ NoneStarts(q) => NoneStarts(Tail(q)) /\ Head(q).op # "established"
           /\ NoneDestroys(q) => NoneDestroys(Tail(q)) /\ Head(q).op # "destroyed"
           /\ AllGuarded(q) => AllGuarded(Tail(q))
<1>1. /\ Tail(q) \in Seq(IoFunctors) /\ Len(q) \in Nat /\ Len(q) > 0
      /\ DOMAIN q = 1..Len(q) /\ DOMAIN Tail(q) = 1..(Len(q) - 1)
      /\ Head(q) = q[1] /\ q[1] \in IoFunctors
    OBVIOUS
<1>2. \A i \in DOMAIN Tail(q) : Tail(q)[i] = q[i + 1] /\ i + 1 \in DOMAIN q
    OBVIOUS
<1>3. AllGuarded(q) => AllGuarded(Tail(q))
    <2> SUFFICES ASSUME AllGuarded(q), NEW i \in DOMAIN Tail(q),
                        Tail(q)[i].op \in {"send", "shutdown"}, ~Tail(q)[i].late
                 PROVE  \E j \in DOMAIN Tail(q) : i < j /\ Tail(q)[j].op = "destroyed"
        BY DEF AllGuarded
    <2>1. PICK j \in DOMAIN q : i + 1 < j /\ q[j].op = "destroyed"
        BY <1>2 DEF AllGuarded
    <2>2. j - 1 \in DOMAIN Tail(q) /\ (j - 1) + 1 = j /\ i < j - 1
        BY <1>1, <2>1
    <2> QED BY <1>2, <2>1, <2>2
<1> QED BY <1>1, <1>2, <1>3 DEF NoneStarts, NoneDestroys

(* Queueing functor f. *)
LEMMA PushFunctor ==
    ASSUME NEW q \in Seq(IoFunctors), NEW f \in IoFunctors
    PROVE  /\ Append(q, f) \in Seq(IoFunctors)
           /\ NoneStarts(q) /\ f.op # "established" => NoneStarts(Append(q, f))
           /\ NoneDestroys(q) /\ f.op # "destroyed" => NoneDestroys(Append(q, f))
           /\ AllGuarded(q) /\ (f.op \in {"send", "shutdown"} => f.late) => AllGuarded(Append(q, f))
           /\ f.op = "destroyed" => AllGuarded(Append(q, f))
<1> DEFINE r == Append(q, f)
<1> DEFINE n == Len(q) + 1
<1>1. /\ r \in Seq(IoFunctors) /\ Len(q) \in Nat
      /\ DOMAIN q = 1..Len(q) /\ DOMAIN r = 1..n
      /\ (\A i \in 1..Len(q) : r[i] = q[i]) /\ r[n] = f
    OBVIOUS
<1>2. \A i \in DOMAIN r : i = n \/ (i \in DOMAIN q /\ i < n /\ r[i] = q[i])
    BY <1>1
<1>3. DOMAIN q \subseteq DOMAIN r /\ n \in DOMAIN r /\ n \in Int
    BY <1>1
<1> HIDE DEF r, n
<1>4. NoneStarts(q) /\ f.op # "established" => NoneStarts(r)
    BY <1>1, <1>2 DEF NoneStarts
<1>5. NoneDestroys(q) /\ f.op # "destroyed" => NoneDestroys(r)
    BY <1>1, <1>2 DEF NoneDestroys
<1>6. AllGuarded(q) /\ (f.op \in {"send", "shutdown"} => f.late) => AllGuarded(r)
    <2> SUFFICES ASSUME AllGuarded(q), f.op \in {"send", "shutdown"} => f.late,
                        NEW i \in DOMAIN r, r[i].op \in {"send", "shutdown"}, ~r[i].late
                 PROVE  \E j \in DOMAIN r : i < j /\ r[j].op = "destroyed"
        BY DEF AllGuarded
    <2>1. i \in DOMAIN q /\ r[i] = q[i]
        BY <1>1, <1>2
    <2>2. PICK j \in DOMAIN q : i < j /\ q[j].op = "destroyed"
        BY <2>1 DEF AllGuarded
    <2>3. j \in DOMAIN r /\ r[j] = q[j]
        BY <1>1, <1>3
    <2> QED BY <2>2, <2>3
<1>7. f.op = "destroyed" => AllGuarded(r)
    <2> SUFFICES ASSUME f.op = "destroyed", NEW i \in DOMAIN r, r[i].op \in {"send", "shutdown"}
                 PROVE  \E j \in DOMAIN r : i < j /\ r[j].op = "destroyed"
        BY DEF AllGuarded
    <2>1. i # n
        BY <1>1
    <2>2. i < n
        BY <1>2, <2>1
    <2> QED BY <1>1, <1>3, <2>2
<1> QED BY <1>1, <1>4, <1>5, <1>6, <1>7 DEF r

(* The functors that are queued are of their type. *)
LEMMA FunctorTypes ==
    /\ \A o \in Owning : [op |-> o] \in IoFunctors
    /\ ConnTypeOK => \A t \in Senders \cup {LoopThread} : NextMessage(t) \in Seq(Octets) /\ Len(NextMessage(t)) = MsgLen
    /\ \A o \in {"send", "shutdown"}, d \in Seq(Octets) : RawFunctor(o, d) \in IoFunctors
<1>1. \A o \in Owning : [op |-> o] \in IoFunctors
    BY DEF IoFunctors
<1>2. ASSUME ConnTypeOK, NEW t \in Senders \cup {LoopThread}
      PROVE  NextMessage(t) \in Seq(Octets) /\ Len(NextMessage(t)) = MsgLen
    <2>1. \A i \in 1..MsgLen : [from |-> t, msg |-> sentMessages[t] + 1, at |-> i] \in Octets
        BY <1>2 DEF ConnTypeOK, Octets
    <2>2. NextMessage(t) \in [1..MsgLen -> Octets]
        BY <2>1 DEF NextMessage
    <2> QED BY <2>2, ConnAssumption DEF NextMessage
<1>3. \A o \in {"send", "shutdown"}, d \in Seq(Octets) : RawFunctor(o, d) \in IoFunctors
    BY DEF RawFunctor, IoFunctors, Closed
<1> QED BY <1>1, <1>2, <1>3

(* newConnection. *)
LEMMA LifeInvInit == ConnInit => LifeInv
<1> SUFFICES ASSUME ConnInit PROVE LifeInv
    OBVIOUS
<1>1. ioFunctors \in Seq(IoFunctors) /\ NoneDestroys(ioFunctors)
    <2>1. [op |-> "established"] \in IoFunctors
        BY FunctorTypes DEF Owning
    <2> QED BY <2>1 DEF ConnInit, NoneDestroys
<1>2. ConnTypeOK
    <2>1. <<>> \in Seq(Octets) /\ <<>> \in Seq({"remove"})
        OBVIOUS
    <2>2. sentMessages \in [Senders \cup {LoopThread} -> Nat]
        BY DEF ConnInit
    <2>3. sender \in [Senders -> {"idle", "holding", "sending", "shutting", "queueing"}]
        BY DEF ConnInit
    <2> QED BY <1>1, <2>1, <2>2, <2>3 DEF ConnInit, ConnTypeOK
<1> QED BY <1>1, <1>2 DEF ConnInit, LifeInv, NotUpYet, UpIsKept, DownOnce, Guarded, Closed, Open

(* What sendInLoop leaves of the types. *)
LEMMA SendInLoopType ==
    ASSUME ConnTypeOK, NEW data \in Seq(Octets), SendInLoop(data)
    PROVE  /\ wire' \in Seq(Octets) /\ outputBuffer' \in Seq(Octets) /\ isWriting' \in BOOLEAN
           /\ connState = "disconnected" => isWriting' = isWriting
<1>1. \A n \in 0..Len(data) : SubSeq(data, 1, n) \in Seq(Octets) /\ SubSeq(data, n + 1, Len(data)) \in Seq(Octets)
    OBVIOUS
<1>2. wire \in Seq(Octets) /\ outputBuffer \in Seq(Octets) /\ isWriting \in BOOLEAN
    BY DEF ConnTypeOK
<1>3. CASE UNCHANGED <<wire, outputBuffer, isWriting>>
    BY <1>2, <1>3
<1>4. ASSUME NEW n \in 0..Len(data), wire' = wire \o SubSeq(data, 1, n),
             outputBuffer' = outputBuffer \o SubSeq(data, n + 1, Len(data)),
             isWriting' = (isWriting \/ n < Len(data)), connState # "disconnected"
      PROVE  /\ wire' \in Seq(Octets) /\ outputBuffer' \in Seq(Octets) /\ isWriting' \in BOOLEAN
             /\ connState = "disconnected" => isWriting' = isWriting
    <2>1. wire' \in Seq(Octets)
        BY <1>1, <1>2, <1>4
    <2>2. outputBuffer' \in Seq(Octets)
        BY <1>1, <1>2, <1>4
    <2> QED BY <1>4, <2>1, <2>2
<1> QED BY <1>3, <1>4 DEF SendInLoop

-----------------------------------------------------------------------------
(* The loop's functors. *)
LEMMA LifeRunFunctor == LifeInv /\ RunIoFunctor => LifeInv'
<1> SUFFICES ASSUME LifeInv, RunIoFunctor PROVE LifeInv'
    OBVIOUS
<1> USE DEF LifeInv
<1>0. ioFunctors # <<>> /\ ioFunctors \in Seq(IoFunctors)
    BY DEF RunIoFunctor, RunEstablished, RunSend, RunShutdown, RunDangling, RunForceClose, RunDestroyed, ConnTypeOK
<1>a. /\ Tail(ioFunctors) \in Seq(IoFunctors)
      /\ Head(ioFunctors) \in IoFunctors
      /\ NoneStarts(ioFunctors) => NoneStarts(Tail(ioFunctors)) /\ Head(ioFunctors).op # "established"
      /\ NoneDestroys(ioFunctors) => NoneDestroys(Tail(ioFunctors)) /\ Head(ioFunctors).op # "destroyed"
      /\ AllGuarded(ioFunctors) => AllGuarded(Tail(ioFunctors))
    BY <1>0, PopFunctor
<1>b. NoneStarts(<<>>) /\ NoneDestroys(<<>>) /\ AllGuarded(<<>>) /\ <<>> \in Seq(IoFunctors)
    BY DEF NoneStarts, NoneDestroys, AllGuarded
<1>c. connState = "connecting" => Head(ioFunctors).op = "established" /\ Tail(ioFunctors) = <<>>
    <2> DEFINE f == [op |-> "established"]
    <2>1. Head(<<f>>) = f /\ Tail(<<f>>) = <<>> /\ f.op = "established"
        OBVIOUS
    <2>2. connState = "connecting" => ioFunctors = <<f>>
        BY DEF NotUpYet
    <2> HIDE DEF f
    <2> QED BY <2>1, <2>2
<1>1. ASSUME RunEstablished PROVE LifeInv'
    <2>1. connState = "connecting"
        BY <1>1, <1>a DEF RunEstablished, NotUpYet
    <2>2. ConnTypeOK'
        BY <1>1, <1>a DEF RunEstablished, ConnTypeOK
    <2> QED BY <1>1, <1>b, <1>c, <2>1, <2>2
            DEF RunEstablished, NotUpYet, UpIsKept, DownOnce, Guarded, Closed, Open
<1>2. ASSUME RunSend PROVE LifeInv'
    <2>1. Head(ioFunctors).data \in Seq(Octets)
        BY <1>2, <1>a DEF RunSend, IoFunctors, Owning
    <2>2. /\ wire' \in Seq(Octets) /\ outputBuffer' \in Seq(Octets) /\ isWriting' \in BOOLEAN
          /\ connState = "disconnected" => isWriting' = isWriting
        BY <1>2, <2>1, SendInLoopType DEF RunSend
    <2>3. ConnTypeOK'
        BY <1>2, <1>a, <2>2 DEF RunSend, ConnTypeOK
    <2>4. connState # "connecting"
        BY <1>2, <1>c DEF RunSend
    <2> QED BY <1>2, <1>a, <2>2, <2>3, <2>4
            DEF RunSend, NotUpYet, UpIsKept, DownOnce, Guarded, Closed, Open
<1>3. ASSUME RunShutdown PROVE LifeInv'
    <2>3. ConnTypeOK'
        BY <1>3, <1>a DEF RunShutdown, ConnTypeOK, ShutsDown
    <2>4. connState # "connecting"
        BY <1>3, <1>c DEF RunShutdown
    <2> QED BY <1>3, <1>a, <2>3, <2>4
            DEF RunShutdown, NotUpYet, UpIsKept, DownOnce, Guarded, Closed, Open
<1>4. ASSUME RunDangling PROVE LifeInv'
    <2>3. ConnTypeOK'
        BY <1>4, <1>a, <1>b, ZenonT(30) DEF RunDangling, ConnTypeOK
    <2>4. connState # "connecting"
        BY <1>4, <1>c DEF RunDangling
    <2> QED BY <1>4, <1>a, <1>b, <2>3, <2>4
            DEF RunDangling, NotUpYet, UpIsKept, DownOnce, Guarded, Closed, Open
<1>5. ASSUME RunForceClose PROVE LifeInv'
    <2>4. connState # "connecting"
        BY <1>5, <1>c DEF RunForceClose
    <2>1. CASE Open
        <3>1. HandleClose
            BY <1>5, <2>1 DEF RunForceClose
        <3>2. baseFunctors' \in Seq({"remove"}) /\ Len(baseFunctors') = Len(baseFunctors) + 1 /\ baseFunctors' # <<>>
              /\ Len(baseFunctors) \in Nat /\ (baseFunctors = <<>> => Len(baseFunctors) = 0)
            BY <3>1 DEF HandleClose, ConnTypeOK
        <3>3. ConnTypeOK'
            BY <1>5, <1>a, <2>1, <3>1, <3>2 DEF RunForceClose, HandleClose, ConnTypeOK
        <3>4. ~overwritten => isReading /\ ~failed'
            BY <2>1, <3>1 DEF Open, DownOnce, Closed, HandleClose
        <3> QED BY <1>5, <1>a, <2>1, <2>4, <3>1, <3>2, <3>3, <3>4
                DEF RunForceClose, HandleClose, NotUpYet, UpIsKept, DownOnce, Guarded, Closed, Open
    <2>2. CASE ~Open
        <3>1. UNCHANGED <<connState, isReading, isWriting, inUserMap, baseFunctors, failed>>
            BY <1>5, <2>2 DEF RunForceClose
        <3>3. ConnTypeOK'
            BY <1>5, <1>a, <3>1 DEF RunForceClose, ConnTypeOK
        <3> QED BY <1>5, <1>a, <2>4, <3>1, <3>3
                DEF RunForceClose, NotUpYet, UpIsKept, DownOnce, Guarded, Closed, Open
    <2> QED BY <2>1, <2>2
<1>6. ASSUME RunDestroyed PROVE LifeInv'
    <2>3. ConnTypeOK'
        BY <1>6, <1>a DEF RunDestroyed, ConnTypeOK
    <2>4. connState # "connecting"
        BY <1>6, <1>c DEF RunDestroyed
    <2>5. ~inServer
        BY <1>6, <1>a DEF RunDestroyed, DownOnce
    <2>6. Closed /\ ~isReading
        BY <2>4, <2>5 DEF Closed, UpIsKept
    <2>7. ~overwritten => ~failed'
        BY <1>6, <2>6 DEF RunDestroyed, DownOnce
    <2> QED BY <1>6, <1>a, <2>3, <2>4, <2>5, <2>6, <2>7
            DEF RunDestroyed, NotUpYet, UpIsKept, DownOnce, Guarded, Closed, Open
<1> QED BY <1>1, <1>2, <1>3, <1>4, <1>5, <1>6 DEF RunIoFunctor

(* The channel's events, and the user's calls in the loop thread. *)
LEMMA LifeLoopStep ==
    LifeInv /\ (HandleReadEnd \/ HandleWrite \/ LoopSend \/ LoopShutdown \/ LoopForceClose
                \/ LoopForceCloseWithDelay \/ DelayPasses) => LifeInv'
<1> SUFFICES ASSUME LifeInv, HandleReadEnd \/ HandleWrite \/ LoopSend \/ LoopShutdown
                             \/ LoopForceClose \/ LoopForceCloseWithDelay \/ DelayPasses
             PROVE  LifeInv'
    OBVIOUS
<1> USE DEF LifeInv
<1>1. ASSUME HandleReadEnd PROVE LifeInv'
    <2>1. Open /\ inServer /\ baseFunctors = <<>> /\ ~overwritten /\ connState # "connecting"
        BY <1>1 DEF HandleReadEnd, UpIsKept, Open
    <2>2. baseFunctors' = <<"remove">> /\ baseFunctors' \in Seq({"remove"}) /\ Len(baseFunctors') = 1 /\ baseFunctors' # <<>>
        BY <1>1, <2>1 DEF HandleReadEnd, HandleClose
    <2>3. ConnTypeOK'
        BY <1>1, <2>2 DEF HandleReadEnd, HandleClose, ConnTypeOK
    <2>4. ~failed'
        BY <1>1, <2>1 DEF HandleReadEnd, HandleClose, DownOnce, Open
    <2> QED BY <1>1, <2>1, <2>2, <2>3, <2>4
            DEF HandleReadEnd, HandleClose, NotUpYet, UpIsKept, DownOnce, Guarded, Closed, Open
<1>2. ASSUME HandleWrite PROVE LifeInv'
    <2>0. PICK n \in 1..Len(outputBuffer) :
             /\ wire' = wire \o SubSeq(outputBuffer, 1, n)
             /\ outputBuffer' = SubSeq(outputBuffer, n + 1, Len(outputBuffer))
             /\ isWriting' = (n < Len(outputBuffer))
             /\ finSent' = (finSent \/ (~isWriting' /\ connState = "disconnecting"))
        BY <1>2 DEF HandleWrite
    <2>1. wire' \in Seq(Octets) /\ outputBuffer' \in Seq(Octets)
        <3>1. wire \in Seq(Octets) /\ outputBuffer \in Seq(Octets)
            BY DEF ConnTypeOK
        <3>2. SubSeq(outputBuffer, 1, n) \in Seq(Octets) /\ SubSeq(outputBuffer, n + 1, Len(outputBuffer)) \in Seq(Octets)
            BY <3>1
        <3> QED BY <2>0, <3>1, <3>2
    <2>2. ConnTypeOK'
        BY <1>2, <2>0, <2>1, SMTT(30) DEF HandleWrite, ConnTypeOK
    <2>3. connState # "connecting" /\ isWriting
        BY <1>2 DEF HandleWrite, NotUpYet
    <2>4. ~overwritten => ~Closed
        BY <2>3 DEF DownOnce
    <2> QED BY <1>2, <2>2, <2>3, <2>4 DEF HandleWrite, NotUpYet, UpIsKept, DownOnce, Guarded, Closed, Open
<1>3. ASSUME LoopSend PROVE LifeInv'
    <2>1. NextMessage(LoopThread) \in Seq(Octets)
        BY FunctorTypes
    <2>2. wire' \in Seq(Octets) /\ outputBuffer' \in Seq(Octets) /\ isWriting' \in BOOLEAN
        BY <1>3, <2>1, SendInLoopType DEF LoopSend
    <2>3. ConnTypeOK'
        BY <1>3, <2>2 DEF LoopSend, ConnTypeOK
    <2> QED BY <1>3, <2>3 DEF LoopSend, NotUpYet, UpIsKept, DownOnce, Guarded, Closed, Open
<1>4. ASSUME LoopShutdown PROVE LifeInv'
    <2>1. ConnTypeOK'
        BY <1>4 DEF LoopShutdown, ConnTypeOK, ShutsDown
    <2> QED BY <1>4, <2>1 DEF LoopShutdown, NotUpYet, UpIsKept, DownOnce, Guarded, Closed, Open
<1>5. ASSUME Open, ForceClose, delayed' \in BOOLEAN,
             UNCHANGED <<isReading, isWriting, outputBuffer, baseFunctors, inServer, inUserMap, sender,
                         peer, finSent, wire, sentMessages, failed, overwritten>>
      PROVE  LifeInv'
    <2>0. [op |-> "forceClose"] \in IoFunctors
        BY FunctorTypes DEF Owning
    <2>1. /\ ioFunctors' \in Seq(IoFunctors)
          /\ NoneStarts(ioFunctors) => NoneStarts(ioFunctors')
          /\ NoneDestroys(ioFunctors) => NoneDestroys(ioFunctors')
          /\ AllGuarded(ioFunctors) => AllGuarded(ioFunctors')
        BY <1>5, <2>0, PushFunctor DEF ForceClose, ConnTypeOK
    <2>2. ConnTypeOK'
        BY <1>5, <2>1 DEF ForceClose, ConnTypeOK
    <2>3. ~overwritten => isReading
        BY <1>5 DEF DownOnce, Closed, Open
    <2> QED BY <1>5, <2>1, <2>2, <2>3 DEF ForceClose, NotUpYet, UpIsKept, DownOnce, Guarded, Closed, Open
<1>6. ASSUME LoopForceClose PROVE LifeInv'
    BY <1>5, <1>6 DEF LoopForceClose, ConnTypeOK
<1>7. ASSUME LoopForceCloseWithDelay PROVE LifeInv'
    <2>1. ConnTypeOK'
        BY <1>7 DEF LoopForceCloseWithDelay, ConnTypeOK
    <2>2. ~overwritten => isReading
        BY <1>7 DEF LoopForceCloseWithDelay, DownOnce, Closed, Open
    <2> QED BY <1>7, <2>1, <2>2
            DEF LoopForceCloseWithDelay, NotUpYet, UpIsKept, DownOnce, Guarded, Closed, Open
<1>8. ASSUME DelayPasses PROVE LifeInv'
    <2>1. CASE ~Gone /\ Open
        BY <1>5, <1>8, <2>1 DEF DelayPasses
    <2>2. CASE ~(~Gone /\ Open)
        <3>1. UNCHANGED <<connState, ioFunctors>>
            BY <1>8, <2>2 DEF DelayPasses
        <3>2. ConnTypeOK'
            BY <1>8, <3>1, ZenonT(30) DEF DelayPasses, ConnTypeOK
        <3> QED BY <1>8, <3>1, <3>2 DEF DelayPasses, NotUpYet, UpIsKept, DownOnce, Guarded, Closed, Open
    <2> QED BY <2>1, <2>2
<1> QED BY <1>1, <1>2, <1>3, <1>4, <1>6, <1>7, <1>8

(* removeConnectionInLoop. *)
LEMMA LifeRemove == LifeInv /\ RemoveConnection => LifeInv'
<1> SUFFICES ASSUME LifeInv, RemoveConnection PROVE LifeInv'
    OBVIOUS
<1> USE DEF LifeInv
<1>0. [op |-> "destroyed"] \in IoFunctors
    BY FunctorTypes DEF Owning
<1>1. /\ ioFunctors' \in Seq(IoFunctors)
      /\ NoneStarts(ioFunctors) => NoneStarts(ioFunctors')
      /\ AllGuarded(ioFunctors')
    BY <1>0, PushFunctor DEF RemoveConnection, ConnTypeOK
<1>2. baseFunctors \in Seq({"remove"}) /\ baseFunctors # <<>> /\ baseFunctors' = Tail(baseFunctors)
    BY DEF RemoveConnection, ConnTypeOK
<1>3. baseFunctors' \in Seq({"remove"}) /\ Len(baseFunctors') = Len(baseFunctors) - 1 /\ Len(baseFunctors) \in Nat
    BY <1>2
<1>4. Len(baseFunctors) <= 1 => baseFunctors' = <<>>
    BY <1>2, <1>3
<1>5. ConnTypeOK'
    BY <1>1, <1>3 DEF RemoveConnection, ConnTypeOK
<1>6. connState # "connecting" /\ ~isReading
    BY <1>2 DEF NotUpYet, UpIsKept
<1>7. NotUpYet' /\ UpIsKept'
    BY <1>1, <1>6 DEF RemoveConnection, NotUpYet, UpIsKept, Open
<1>8. DownOnce'
    <2>1. ~overwritten => ~failed' /\ Len(baseFunctors) <= 1
        BY <1>2 DEF RemoveConnection, DownOnce
    <2> QED BY <1>3, <1>4, <2>1 DEF RemoveConnection, DownOnce, Closed
<1> QED BY <1>1, <1>5, <1>7, <1>8 DEF RemoveConnection, Guarded

(* The other threads and the other side. *)
LEMMA LifeSenderStep ==
    ASSUME LifeInv, NEW t \in Senders,
           \/ CopyPointer(t) \/ SendTests(t) \/ SendQueues(t) \/ DropPointer(t)
           \/ ShutdownTests(t) \/ ShutdownSets(t) \/ ShutdownQueues(t)
    PROVE  LifeInv'
<1> USE DEF LifeInv
<1>0. ASSUME NEW f \in IoFunctors, ioFunctors' = Append(ioFunctors, f), f.op \in {"send", "shutdown"}, f.late = Closed
      PROVE  /\ ioFunctors' \in Seq(IoFunctors)
             /\ NoneStarts(ioFunctors) => NoneStarts(ioFunctors')
             /\ NoneDestroys(ioFunctors) => NoneDestroys(ioFunctors')
             /\ AllGuarded(ioFunctors) /\ Closed => AllGuarded(ioFunctors')
    BY <1>0, PushFunctor DEF ConnTypeOK
<1>a. sender[t] # "idle" => connState # "connecting"
    BY DEF NotUpYet
<1>b. ~Closed => inServer
    BY DEF Closed, NotUpYet, UpIsKept
<1>1. ASSUME CopyPointer(t) PROVE LifeInv'
    <2>1. ConnTypeOK'
        BY <1>1 DEF CopyPointer, SenderGoes, ConnTypeOK
    <2>2. connState # "connecting"
        BY <1>1 DEF CopyPointer, NotUpYet
    <2> QED BY <1>1, <2>1, <2>2 DEF CopyPointer, NotUpYet, UpIsKept, DownOnce, Guarded, Closed, Open
<1>2. ASSUME SendTests(t) \/ DropPointer(t) \/ ShutdownTests(t) PROVE LifeInv'
    <2>0. \E to \in {"idle", "sending", "shutting"} : sender' = [sender EXCEPT ![t] = to]
        BY <1>2 DEF SendTests, DropPointer, ShutdownTests, SenderGoes
    <2>1. ConnTypeOK'
        BY <1>2, <2>0 DEF SendTests, DropPointer, ShutdownTests, ConnTypeOK
    <2>2. connState # "connecting"
        BY <1>2, <1>a DEF SendTests, DropPointer, ShutdownTests, SenderGoes
    <2> QED BY <1>2, <2>1, <2>2
            DEF SendTests, DropPointer, ShutdownTests, NotUpYet, UpIsKept, DownOnce, Guarded, Closed, Open
<1>3. ASSUME SendQueues(t) PROVE LifeInv'
    <2>0. RawFunctor("send", NextMessage(t)) \in IoFunctors
        BY FunctorTypes
    <2>1. /\ ioFunctors' \in Seq(IoFunctors)
          /\ NoneStarts(ioFunctors) => NoneStarts(ioFunctors')
          /\ NoneDestroys(ioFunctors) => NoneDestroys(ioFunctors')
          /\ AllGuarded(ioFunctors) /\ Closed => AllGuarded(ioFunctors')
        BY <1>0, <1>3, <2>0 DEF SendQueues, RawFunctor
    <2>2. ConnTypeOK'
        BY <1>3, <2>1 DEF SendQueues, SenderGoes, ConnTypeOK
    <2>3. connState # "connecting"
        BY <1>3, <1>a DEF SendQueues, SenderGoes
    <2> QED BY <1>3, <1>b, <2>1, <2>2, <2>3 DEF SendQueues, NotUpYet, UpIsKept, DownOnce, Guarded, Closed, Open
<1>4. ASSUME ShutdownSets(t) PROVE LifeInv'
    <2>1. ConnTypeOK'
        BY <1>4 DEF ShutdownSets, SenderGoes, ConnTypeOK, Closed
    <2>2. connState # "connecting"
        BY <1>4, <1>a DEF ShutdownSets, SenderGoes
    <2> QED BY <1>4, <2>1, <2>2 DEF ShutdownSets, NotUpYet, UpIsKept, DownOnce, Guarded, Closed, Open
<1>5. ASSUME ShutdownQueues(t) PROVE LifeInv'
    <2>0. RawFunctor("shutdown", <<>>) \in IoFunctors
        <3>1. <<>> \in Seq(Octets)
            OBVIOUS
        <3> QED BY <3>1, FunctorTypes
    <2>1. /\ ioFunctors' \in Seq(IoFunctors)
          /\ NoneStarts(ioFunctors) => NoneStarts(ioFunctors')
          /\ NoneDestroys(ioFunctors) => NoneDestroys(ioFunctors')
          /\ AllGuarded(ioFunctors) /\ Closed => AllGuarded(ioFunctors')
        BY <1>0, <1>5, <2>0 DEF ShutdownQueues, RawFunctor
    <2>2. ConnTypeOK'
        BY <1>5, <2>1 DEF ShutdownQueues, SenderGoes, ConnTypeOK
    <2>3. connState # "connecting"
        BY <1>5, <1>a DEF ShutdownQueues, SenderGoes
    <2> QED BY <1>5, <1>b, <2>1, <2>2, <2>3 DEF ShutdownQueues, NotUpYet, UpIsKept, DownOnce, Guarded, Closed, Open
<1> QED BY <1>1, <1>2, <1>3, <1>4, <1>5

(* Every step keeps the invariant. *)
LEMMA LifeInvStep == LifeInv /\ [ConnNext]_connVars => LifeInv'
<1> SUFFICES ASSUME LifeInv, [ConnNext]_connVars PROVE LifeInv'
    OBVIOUS
<1>1. ASSUME PeerCloses PROVE LifeInv'
    BY <1>1 DEF PeerCloses, LifeInv, ConnTypeOK, NotUpYet, UpIsKept, DownOnce, Guarded, Closed, Open
<1>2. ASSUME UNCHANGED connVars PROVE LifeInv'
    BY <1>2 DEF connVars, LifeInv, ConnTypeOK, NotUpYet, UpIsKept, DownOnce, Guarded, Closed, Open
<1>3. ASSUME NEW t \in Shutters, ShutdownTests(t) \/ ShutdownSets(t) \/ ShutdownQueues(t) PROVE LifeInv'
    BY <1>3, LifeSenderStep, ConnAssumption
<1> QED BY <1>1, <1>2, <1>3, LifeRunFunctor, LifeLoopStep, LifeRemove, LifeSenderStep DEF ConnNext

(* The invariant of its life holds all along. *)
LEMMA LifeInvariant == ConnSpec => []LifeInv
BY LifeInvInit, LifeInvStep, PTL DEF ConnSpec

(* The assertions of TcpConnection, TcpServer and Channel hold: the        *)
(* connection goes up and down once, is removed once, has no events left   *)
(* then and is disconnected in the end, for any number of threads and      *)
(* however forceClose, the end of the data and shutdown meet, unless a     *)
(* shutdown from another thread has overwritten kDisconnected.             *)
THEOREM ConnectionAssertionsHold == ConnSpec => []ConnAssertions
<1>1. LifeInv => ConnAssertions
    BY DEF LifeInv, ConnAssertions, DestroyedDisconnected, Gone, DownOnce, NotUpYet, UpIsKept, Closed
<1> QED BY <1>1, LifeInvariant, PTL

(* A functor with a raw pointer to the connection that was queued before   *)
(* the connection was closed never outlives it, for any number of threads. *)
THEOREM OnlyLateSendsDangle == ConnSpec => []LateSendsOnly
<1>1. LifeInv => LateSendsOnly
    <2> SUFFICES ASSUME LifeInv, Gone, NEW i \in DOMAIN ioFunctors PROVE ioFunctors[i].late
        BY DEF LateSendsOnly
    <2>1. AllGuarded(ioFunctors) /\ (\A j \in DOMAIN ioFunctors : ioFunctors[j].op \notin Owning)
        BY DEF LifeInv, Guarded, Gone
    <2>2. ioFunctors[i] \in IoFunctors
        BY DEF LifeInv, ConnTypeOK
    <2>3. ioFunctors[i].op \in {"send", "shutdown"}
        BY <2>1, <2>2 DEF IoFunctors
    <2> QED BY <2>1, <2>3 DEF AllGuarded, Owning
<1> QED BY <1>1, LifeInvariant, PTL

-----------------------------------------------------------------------------
(* TcpConnection: what goes out. *)

(* Byte k of message m of thread t, and the message. *)
Octet(t, m, k) == [from |-> t, msg |-> m, at |-> k]
Message(t, m) == [k \in 1..MsgLen |-> Octet(t, m, k)]

(* What has been sent by sendInLoop, on the wire or still in the buffer. *)
Out == wire \o outputBuffer

(* All of message m of thread t is in out. *)
Has(out, t, m) == \A k \in 1..MsgLen : \E i \in DOMAIN out : out[i] = Octet(t, m, k)

(* The parts of OrderOnWire. *)
Ordered(out) == \A i, j \in DOMAIN out : i < j /\ out[i].from = out[j].from => Precedes(out[i], out[j])
InPlace(out, i) == \A k \in 1..MsgLen : /\ i - out[i].at + k \in DOMAIN out
                                        /\ out[i - out[i].at + k] = [out[i] EXCEPT !.at = k]
Whole(out) == \A i \in DOMAIN out : InPlace(out, i)
Gapless(out) == \A i \in DOMAIN out : out[i].msg > 1 =>
                    \E j \in DOMAIN out : out[j] = [out[i] EXCEPT !.msg = @ - 1]

(* sendInLoop among the functors, with the thread and number of a message. *)
Sends(q) == {i \in DOMAIN q : q[i].op = "send"}
From(f) == f.data[1].from
Num(f) == f.data[1].msg

(* A functor of send has a whole message that its thread has sent; those   *)
(* of one thread are in order, and come after what is out.                 *)
Waiting(q, out, sent) ==
    /\ \A i \in Sends(q) : /\ From(q[i]) \in Senders
                           /\ Num(q[i]) \in 1..sent[From(q[i])]
                           /\ q[i].data = Message(From(q[i]), Num(q[i]))
    /\ \A i, j \in Sends(q) : i < j /\ From(q[i]) = From(q[j]) => Num(q[i]) < Num(q[j])
    /\ \A i \in Sends(q), x \in DOMAIN out : From(q[i]) = out[x].from => out[x].msg < Num(q[i])

Bounded(out, sent) == \A x \in DOMAIN out : out[x].msg <= sent[out[x].from]

(* Nothing is missing between what is out, what is queued and what has     *)
(* been sent.                                                              *)
Reached(q, i, out, t, m) == Has(out, t, m) \/ \E j \in Sends(q) : j < i /\ From(q[j]) = t /\ Num(q[j]) = m
NoGap(q, out, sent) ==
    /\ \A i \in Sends(q) : Num(q[i]) > 1 => Reached(q, i, out, From(q[i]), Num(q[i]) - 1)
    /\ \A t \in Senders : sent[t] > 0 => Reached(q, Len(q) + 1, out, t, sent[t])
    /\ \A m \in 1..sent[LoopThread] : Has(out, LoopThread, m)

(* From now on nothing that is sent goes out. *)
Stuck == Closed \/ (WritesDirectly /\ BrokenPipe)

(* Somebody has called shutdown before the write side is shut down. *)
Called == finSent \/ (\E t \in Senders : sender[t] = "queueing")
          \/ (\E i \in DOMAIN ioFunctors : ioFunctors[i].op = "shutdown")
ShutFirst == Called => connState \in {"disconnecting", "disconnected"}

(* While the connection is up the channel writes as long as there is       *)
(* output, and there is none when the write side is shut down.             *)
OutputWatched == ~Closed => /\ isWriting <=> outputBuffer # <<>>
                            /\ finSent => outputBuffer = <<>>

Flushed == \A m \in 1..sentMessages[LoopThread] : Has(wire, LoopThread, m)

(* The inductive invariant of the data. *)
WireInv == /\ Waiting(ioFunctors, Out, sentMessages)
           /\ Bounded(Out, sentMessages)
           /\ ~Stuck => NoGap(ioFunctors, Out, sentMessages)
           /\ ShutFirst
           /\ OutputWatched
           /\ Ordered(Out) /\ Whole(Out)
           /\ ~overwritten => Gapless(Out)
           /\ finSent /\ ~Closed /\ peer # "reset" => Flushed

-----------------------------------------------------------------------------
(* Whose a byte is. *)
LEMMA OctetFields ==
    ASSUME NEW t, NEW m, NEW k
    PROVE  Octet(t, m, k).from = t /\ Octet(t, m, k).msg = m /\ Octet(t, m, k).at = k
BY DEF Octet

(* A message is a sequence of bytes. *)
LEMMA MessageType ==
    ASSUME NEW t \in Senders \cup {LoopThread}, NEW m \in Nat
    PROVE  /\ Message(t, m) \in Seq(Octets) /\ Len(Message(t, m)) = MsgLen
           /\ \A k \in 1..MsgLen : Message(t, m)[k] = Octet(t, m, k)
<1>1. \A k \in 1..MsgLen : Octet(t, m, k) \in Octets
    BY DEF Octet, Octets
<1>2. Message(t, m) \in [1..MsgLen -> Octets]
    BY <1>1 DEF Message
<1> QED BY <1>2, ConnAssumption DEF Message

(* What one more message at the end does to what is out. *)
LEMMA OneMoreMessage ==
    ASSUME NEW out \in Seq(Octets), NEW t \in Senders \cup {LoopThread}, NEW m \in Nat,
           NEW new, new = out \o Message(t, m),
           Ordered(out), Whole(out),
           \A i \in DOMAIN out : out[i].from = t => out[i].msg < m
    PROVE  /\ new \in Seq(Octets)
           /\ \A i \in DOMAIN new : new[i] \in {out[j] : j \in DOMAIN out} \cup {Octet(t, m, k) : k \in 1..MsgLen}
           /\ Has(new, t, m)
           /\ \A u, n : Has(out, u, n) => Has(new, u, n)
           /\ Ordered(new) /\ Whole(new)
           /\ Gapless(out) /\ (m > 1 => Has(out, t, m - 1)) => Gapless(new)
<1> DEFINE l == Len(out)
<1>1. /\ l \in Nat /\ DOMAIN out = 1..l /\ new \in Seq(Octets)
      /\ DOMAIN new = 1..(l + MsgLen) /\ MsgLen \in Nat /\ MsgLen > 0
      /\ \A i \in 1..l : new[i] = out[i]
      /\ \A k \in 1..MsgLen : l + k \in DOMAIN new /\ new[l + k] = Octet(t, m, k)
    <2>1. Message(t, m) \in Seq(Octets) /\ Len(Message(t, m)) = MsgLen
          /\ (\A k \in 1..MsgLen : Message(t, m)[k] = Octet(t, m, k))
        BY MessageType
    <2>2. MsgLen \in Nat /\ MsgLen > 0
        BY ConnAssumption
    <2>3. new \in Seq(Octets) /\ Len(new) = l + MsgLen
        BY <2>1, ConcatProperties
    <2>4. \A i \in 1..(l + MsgLen) : new[i] = IF i <= l THEN out[i] ELSE Message(t, m)[i - l]
        BY <2>1, ConcatProperties
    <2>5. l \in Nat /\ DOMAIN out = 1..l /\ DOMAIN new = 1..(l + MsgLen)
        BY <2>3
    <2>6. \A i \in 1..l : new[i] = out[i]
        BY <2>2, <2>4, <2>5
    <2>7. ASSUME NEW k \in 1..MsgLen PROVE l + k \in DOMAIN new /\ new[l + k] = Octet(t, m, k)
        <3>1. l + k \in 1..(l + MsgLen) /\ ~(l + k <= l) /\ (l + k) - l = k
            BY <2>2, <2>5
        <3> QED BY <2>1, <2>4, <2>5, <3>1
    <2> QED BY <2>2, <2>3, <2>5, <2>6, <2>7
<1> HIDE DEF l
<1>2. \A i \in DOMAIN new : (i \in DOMAIN out /\ new[i] = out[i]) \/ \E k \in 1..MsgLen : i = l + k /\ new[i] = Octet(t, m, k)
    <2> SUFFICES ASSUME NEW i \in 1..(l + MsgLen), i \notin 1..l
                 PROVE  \E k \in 1..MsgLen : i = l + k /\ new[i] = Octet(t, m, k)
        BY <1>1
    <2>1. i - l \in 1..MsgLen /\ i = l + (i - l)
        BY <1>1
    <2> QED BY <1>1, <2>1
<1>3. DOMAIN out \subseteq DOMAIN new
    BY <1>1
<1>4. \A i \in DOMAIN new : new[i] \in {out[j] : j \in DOMAIN out} \cup {Octet(t, m, k) : k \in 1..MsgLen}
    BY <1>2
<1>5. Has(new, t, m)
    BY <1>1 DEF Has
<1>6. \A u, n : Has(out, u, n) => Has(new, u, n)
    BY <1>1, <1>3 DEF Has
<1>7. Ordered(new)
    <2> SUFFICES ASSUME NEW i \in DOMAIN new, NEW j \in DOMAIN new, i < j, new[i].from = new[j].from
                 PROVE  Precedes(new[i], new[j])
        BY DEF Ordered
    <2>1. CASE i \in DOMAIN out /\ j \in DOMAIN out
        BY <1>1, <2>1 DEF Ordered
    <2>2. CASE i \in DOMAIN out /\ j \notin DOMAIN out
        <3>0. PICK k \in 1..MsgLen : new[j] = Octet(t, m, k)
            BY <1>2, <2>2
        <3>1. new[i] = out[i] /\ new[j].from = t /\ new[j].msg = m
            BY <1>1, <2>2, <3>0, OctetFields
        <3> QED BY <2>2, <3>1 DEF Precedes
    <2>3. CASE i \notin DOMAIN out
        <3>1. PICK k \in 1..MsgLen : i = l + k /\ new[i] = Octet(t, m, k)
            BY <1>2, <2>3
        <3>2. j \notin DOMAIN out
            BY <1>1, <3>1
        <3>3. PICK h \in 1..MsgLen : j = l + h /\ new[j] = Octet(t, m, h)
            BY <1>2, <3>2
        <3>4. k < h
            BY <1>1, <3>1, <3>3
        <3> QED BY <3>1, <3>3, <3>4 DEF Precedes, Octet
    <2> QED BY <2>1, <2>2, <2>3
<1>8. Whole(new)
    <2> SUFFICES ASSUME NEW i \in DOMAIN new, NEW k \in 1..MsgLen
                 PROVE  i - new[i].at + k \in DOMAIN new /\ new[i - new[i].at + k] = [new[i] EXCEPT !.at = k]
        BY DEF Whole, InPlace
    <2>1. CASE i \in DOMAIN out
        <3>1. i - out[i].at + k \in DOMAIN out /\ out[i - out[i].at + k] = [out[i] EXCEPT !.at = k]
            BY <2>1 DEF Whole, InPlace
        <3> QED BY <1>1, <1>3, <2>1, <3>1
    <2>2. CASE i \notin DOMAIN out
        <3>1. PICK h \in 1..MsgLen : i = l + h /\ new[i] = Octet(t, m, h)
            BY <1>2, <2>2
        <3>2. new[i].at = h /\ [new[i] EXCEPT !.at = k] = Octet(t, m, k)
            BY <3>1 DEF Octet
        <3>3. i - new[i].at + k = l + k
            BY <1>1, <3>1, <3>2
        <3> QED BY <1>1, <3>2, <3>3
    <2> QED BY <2>1, <2>2
<1>9. ASSUME Gapless(out), m > 1 => Has(out, t, m - 1) PROVE Gapless(new)
    <2> SUFFICES ASSUME NEW i \in DOMAIN new, new[i].msg > 1
                 PROVE  \E j \in DOMAIN new : new[j] = [new[i] EXCEPT !.msg = @ - 1]
        BY DEF Gapless
    <2>1. CASE i \in DOMAIN out
        <3>1. PICK j \in DOMAIN out : out[j] = [out[i] EXCEPT !.msg = @ - 1]
            BY <1>1, <1>9, <2>1 DEF Gapless
        <3> QED BY <1>1, <1>3, <2>1, <3>1
    <2>2. CASE i \notin DOMAIN out
        <3>1. PICK h \in 1..MsgLen : i = l + h /\ new[i] = Octet(t, m, h)
            BY <1>2, <2>2
        <3>2. m > 1 /\ [new[i] EXCEPT !.msg = @ - 1] = Octet(t, m - 1, h)
            BY <3>1 DEF Octet
        <3>3. PICK j \in DOMAIN out : out[j] = Octet(t, m - 1, h)
            BY <1>9, <3>2 DEF Has
        <3> QED BY <1>1, <1>3, <3>2, <3>3
    <2> QED BY <2>1, <2>2
<1> QED BY <1>1, <1>4, <1>5, <1>6, <1>7, <1>8, <1>9

(* Taking the first functor off, without sending what it has. *)
LEMMA PopWaiting ==
    ASSUME NEW q \in Seq(IoFunctors), q # <<>>, NEW out, NEW sent, Waiting(q, out, sent)
    PROVE  /\ Waiting(Tail(q), out, sent)
           /\ NoGap(q, out, sent) /\ Head(q).op # "send" => NoGap(Tail(q), out, sent)
<1> DEFINE r == Tail(q)
<1>1. /\ Len(q) \in Nat /\ Len(q) > 0 /\ Len(r) = Len(q) - 1 /\ Head(q) = q[1]
      /\ DOMAIN q = 1..Len(q) /\ DOMAIN r = 1..(Len(q) - 1)
      /\ \A i \in DOMAIN r : r[i] = q[i + 1] /\ i + 1 \in DOMAIN q
    OBVIOUS
<1> HIDE DEF r
<1>2. \A i \in Sends(r) : i + 1 \in Sends(q) /\ r[i] = q[i + 1] /\ i \in Int
    BY <1>1 DEF Sends
<1>3. Waiting(r, out, sent)
    <2>1. \A i, j \in Sends(r) : i < j /\ From(r[i]) = From(r[j]) => Num(r[i]) < Num(r[j])
        <3> SUFFICES ASSUME NEW i \in Sends(r), NEW j \in Sends(r), i < j, From(r[i]) = From(r[j])
                     PROVE  Num(r[i]) < Num(r[j])
            OBVIOUS
        <3>1. i + 1 < j + 1
            BY <1>2
        <3> QED BY <1>2, <3>1 DEF Waiting
    <2> QED BY <1>2, <2>1 DEF Waiting
<1>4. ASSUME NoGap(q, out, sent), Head(q).op # "send" PROVE NoGap(r, out, sent)
    <2>1. ASSUME NEW i \in Int, NEW t, NEW m, Reached(q, i + 1, out, t, m) PROVE Reached(r, i, out, t, m)
        <3>1. CASE Has(out, t, m)
            BY <3>1 DEF Reached
        <3>2. CASE \E j \in Sends(q) : j < i + 1 /\ From(q[j]) = t /\ Num(q[j]) = m
            <4>1. PICK j \in Sends(q) : j < i + 1 /\ From(q[j]) = t /\ Num(q[j]) = m
                BY <3>2
            <4>2. j # 1 /\ j \in 1..Len(q)
                BY <1>1, <1>4 DEF Sends
            <4>3. j - 1 \in DOMAIN r /\ (j - 1) + 1 = j /\ j - 1 < i
                BY <1>1, <4>1, <4>2
            <4>4. r[j - 1] = q[j] /\ j - 1 \in Sends(r)
                BY <1>1, <4>1, <4>3 DEF Sends
            <4> QED BY <4>1, <4>3, <4>4 DEF Reached
        <3> QED BY <2>1, <3>1, <3>2 DEF Reached
    <2>2. \A i \in Sends(r) : Num(r[i]) > 1 => Reached(r, i, out, From(r[i]), Num(r[i]) - 1)
        BY <1>2, <1>4, <2>1 DEF NoGap
    <2>3. Len(q) \in Int /\ Len(q) + 1 = (Len(r) + 1) + 1 /\ Len(r) + 1 \in Int
        BY <1>1
    <2>4. \A t \in Senders : sent[t] > 0 => Reached(r, Len(r) + 1, out, t, sent[t])
        BY <1>4, <2>1, <2>3 DEF NoGap
    <2> QED BY <1>4, <2>2, <2>4 DEF NoGap
<1> QED BY <1>3, <1>4 DEF r

(* Taking off a functor of send and sending its message. *)
LEMMA PopAndSend ==
    ASSUME NEW q \in Seq(IoFunctors), q # <<>>,
           NEW f, f = Head(q), f.op = "send", NEW r, r = Tail(q), NEW data, data = f.data,
           NEW out \in Seq(Octets), NEW sent \in [Senders \cup {LoopThread} -> Nat],
           Waiting(q, out, sent), Bounded(out, sent), Ordered(out), Whole(out),
           NEW new, new = out \o data
    PROVE  /\ Waiting(r, new, sent) /\ Bounded(new, sent) /\ Ordered(new) /\ Whole(new)
           /\ NoGap(q, out, sent) => NoGap(r, new, sent) /\ (Gapless(out) => Gapless(new))
<1> DEFINE t == From(f)
<1> DEFINE m == Num(f)
<1>1. /\ Len(q) \in Nat /\ Len(q) > 0 /\ Len(r) = Len(q) - 1 /\ f = q[1]
      /\ DOMAIN q = 1..Len(q) /\ DOMAIN r = 1..(Len(q) - 1)
      /\ \A i \in DOMAIN r : r[i] = q[i + 1] /\ i + 1 \in DOMAIN q
    OBVIOUS
<1>2. \A i \in Sends(r) : i + 1 \in Sends(q) /\ r[i] = q[i + 1] /\ i \in Int /\ 1 < i + 1
    BY <1>1 DEF Sends
<1>3. 1 \in Sends(q)
    BY <1>1 DEF Sends
<1>4. t \in Senders /\ m \in 1..sent[t] /\ data = Message(t, m)
    BY <1>1, <1>3 DEF Waiting
<1>5. \A i \in DOMAIN out : out[i].from = t => out[i].msg < m
    BY <1>1, <1>3 DEF Waiting
<1>6. \A i \in Sends(r) : From(r[i]) = t => m < Num(r[i])
    BY <1>1, <1>2, <1>3 DEF Waiting
<1> HIDE DEF t, m
<1>7. /\ \A i \in DOMAIN new : new[i] \in {out[j] : j \in DOMAIN out} \cup {Octet(t, m, k) : k \in 1..MsgLen}
      /\ Has(new, t, m)
      /\ \A u, n : Has(out, u, n) => Has(new, u, n)
      /\ Ordered(new) /\ Whole(new)
      /\ Gapless(out) /\ (m > 1 => Has(out, t, m - 1)) => Gapless(new)
    <2>0. sent[t] \in Nat
        BY <1>4
    <2>a. m \in Nat
        BY <1>4, <2>0
    <2>b. new = out \o Message(t, m)
        BY <1>4
    <2>1. t \in Senders \cup {LoopThread} /\ m \in Nat /\ new = out \o Message(t, m)
        BY <1>4, <2>a, <2>b
    <2> QED BY <1>5, <2>1, OneMoreMessage
<1>8. Waiting(r, out, sent)
    BY PopWaiting
<1>9. Waiting(r, new, sent)
    <2>1. ASSUME NEW i \in Sends(r), NEW x \in DOMAIN new, From(r[i]) = new[x].from PROVE new[x].msg < Num(r[i])
        <3>1. CASE new[x] \in {out[j] : j \in DOMAIN out}
            BY <1>8, <2>1, <3>1 DEF Waiting
        <3>2. CASE new[x] \in {Octet(t, m, k) : k \in 1..MsgLen}
            <4>1. new[x].from = t /\ new[x].msg = m
                BY <3>2, OctetFields
            <4> QED BY <1>6, <2>1, <4>1
        <3> QED BY <1>7, <3>1, <3>2
    <2> QED BY <1>8, <2>1 DEF Waiting
<1>10. Bounded(new, sent)
    <2> SUFFICES ASSUME NEW x \in DOMAIN new PROVE new[x].msg <= sent[new[x].from]
        BY DEF Bounded
    <2>1. CASE new[x] \in {out[j] : j \in DOMAIN out}
        BY <2>1 DEF Bounded
    <2>2. CASE new[x] \in {Octet(t, m, k) : k \in 1..MsgLen}
        <3>1. new[x].from = t /\ new[x].msg = m
            BY <2>2, OctetFields
        <3>2. m <= sent[t]
            BY <1>4
        <3> QED BY <3>1, <3>2
    <2> QED BY <1>7, <2>1, <2>2
<1>11. ASSUME NoGap(q, out, sent) PROVE NoGap(r, new, sent)
    <2>1. ASSUME NEW i \in Int, NEW u, NEW n, Reached(q, i + 1, out, u, n) PROVE Reached(r, i, new, u, n)
        <3>1. CASE Has(out, u, n)
            BY <1>7, <3>1 DEF Reached
        <3>2. CASE \E j \in Sends(q) : j < i + 1 /\ From(q[j]) = u /\ Num(q[j]) = n
            <4>1. PICK j \in Sends(q) : j < i + 1 /\ From(q[j]) = u /\ Num(q[j]) = n
                BY <3>2
            <4>2. CASE j = 1
                <5>1. u = t /\ n = m
                    BY <1>1, <4>1, <4>2 DEF t, m
                <5> QED BY <1>7, <5>1 DEF Reached
            <4>3. CASE j # 1
                <5>1. j \in 1..Len(q)
                    BY <1>1 DEF Sends
                <5>2. j - 1 \in DOMAIN r /\ (j - 1) + 1 = j /\ j - 1 < i
                    BY <1>1, <4>1, <4>3, <5>1
                <5>3. r[j - 1] = q[j] /\ j - 1 \in Sends(r)
                    BY <1>1, <4>1, <5>2 DEF Sends
                <5> QED BY <4>1, <5>2, <5>3 DEF Reached
            <4> QED BY <4>2, <4>3
        <3> QED BY <2>1, <3>1, <3>2 DEF Reached
    <2>2. \A i \in Sends(r) : Num(r[i]) > 1 => Reached(r, i, new, From(r[i]), Num(r[i]) - 1)
        BY <1>2, <1>11, <2>1 DEF NoGap
    <2>3. Len(q) + 1 = (Len(r) + 1) + 1 /\ Len(r) + 1 \in Int
        BY <1>1
    <2>4. \A u \in Senders : sent[u] > 0 => Reached(r, Len(r) + 1, new, u, sent[u])
        BY <1>11, <2>1, <2>3 DEF NoGap
    <2>5. \A n \in 1..sent[LoopThread] : Has(new, LoopThread, n)
        BY <1>7, <1>11 DEF NoGap
    <2> QED BY <2>2, <2>4, <2>5 DEF NoGap
<1>12. ASSUME NoGap(q, out, sent), Gapless(out) PROVE Gapless(new)
    <2>1. m > 1 => Reached(q, 1, out, t, m - 1)
        BY <1>1, <1>3, <1>12 DEF NoGap, t, m
    <2>2. \A j \in Sends(q) : ~(j < 1)
        BY <1>1 DEF Sends
    <2>3. m > 1 => Has(out, t, m - 1)
        BY <2>1, <2>2 DEF Reached
    <2> QED BY <1>7, <1>12, <2>3
<1> QED BY <1>7, <1>9, <1>10, <1>11, <1>12

(* Queueing a functor that is none of send. *)
LEMMA PushOther ==
    ASSUME NEW q \in Seq(IoFunctors), NEW f \in IoFunctors, f.op # "send", NEW out, NEW sent,
           Waiting(q, out, sent)
    PROVE  /\ Waiting(Append(q, f), out, sent)
           /\ NoGap(q, out, sent) => NoGap(Append(q, f), out, sent)
<1> DEFINE r == Append(q, f)
<1>1. /\ Len(q) \in Nat /\ DOMAIN q = 1..Len(q) /\ DOMAIN r = 1..(Len(q) + 1) /\ Len(r) = Len(q) + 1
      /\ (\A i \in 1..Len(q) : r[i] = q[i]) /\ r[Len(q) + 1] = f
    OBVIOUS
<1> HIDE DEF r
<1>2. \A i : i \in Sends(r) <=> i \in Sends(q)
    <2>1. \A i \in Sends(r) : i \in Sends(q)
        <3> SUFFICES ASSUME NEW i \in 1..(Len(q) + 1), r[i].op = "send" PROVE i \in Sends(q)
            BY <1>1 DEF Sends
        <3>1. i # Len(q) + 1
            BY <1>1
        <3>2. i \in 1..Len(q)
            BY <1>1, <3>1
        <3> QED BY <1>1, <3>2 DEF Sends
    <2>2. \A i \in Sends(q) : i \in Sends(r)
        BY <1>1 DEF Sends
    <2> QED BY <2>1, <2>2
<1>3. \A i \in Sends(q) : r[i] = q[i] /\ i \in 1..Len(q)
    BY <1>1 DEF Sends
<1>4. Waiting(r, out, sent)
    BY <1>2, <1>3 DEF Waiting
<1>5. ASSUME NoGap(q, out, sent) PROVE NoGap(r, out, sent)
    <2>1. ASSUME NEW i \in Int, NEW k \in Int, i <= k, NEW t, NEW m, Reached(q, i, out, t, m) PROVE Reached(r, k, out, t, m)
        <3>1. \A j \in Sends(q) : j < i => j < k
            BY <1>3, <2>1
        <3> QED BY <1>2, <1>3, <2>1, <3>1 DEF Reached
    <2>2. \A i \in Sends(r) : Num(r[i]) > 1 => Reached(r, i, out, From(r[i]), Num(r[i]) - 1)
        <3> SUFFICES ASSUME NEW i \in Sends(r), Num(r[i]) > 1
                     PROVE  Reached(r, i, out, From(r[i]), Num(r[i]) - 1)
            OBVIOUS
        <3>1. i \in Sends(q) /\ r[i] = q[i] /\ i \in Int /\ i <= i
            BY <1>2, <1>3
        <3>2. Reached(q, i, out, From(q[i]), Num(q[i]) - 1)
            BY <1>5, <3>1 DEF NoGap
        <3> QED BY <2>1, <3>1, <3>2
    <2>3. Len(q) + 1 \in Int /\ Len(r) + 1 \in Int /\ Len(q) + 1 <= Len(r) + 1
        BY <1>1
    <2>4. \A t \in Senders : sent[t] > 0 => Reached(r, Len(r) + 1, out, t, sent[t])
        BY <1>5, <2>1, <2>3 DEF NoGap
    <2> QED BY <1>5, <2>2, <2>4 DEF NoGap
<1> QED BY <1>4, <1>5 DEF r

(* Queueing the next message of t. *)
LEMMA PushSend ==
    ASSUME NEW q \in Seq(IoFunctors), NEW t \in Senders,
           NEW out \in Seq(Octets), NEW sent \in [Senders \cup {LoopThread} -> Nat],
           NEW f \in IoFunctors, f.op = "send", f.data = Message(t, sent[t] + 1),
           Waiting(q, out, sent), Bounded(out, sent)
    PROVE  LET more == [sent EXCEPT ![t] = @ + 1]
           IN  /\ Waiting(Append(q, f), out, more) /\ Bounded(out, more)
               /\ NoGap(q, out, sent) => NoGap(Append(q, f), out, more)
<1> DEFINE r == Append(q, f)
<1> DEFINE n == Len(q) + 1
<1> DEFINE more == [sent EXCEPT ![t] = @ + 1]
<1>1. /\ Len(q) \in Nat /\ n \in Nat /\ DOMAIN q = 1..Len(q) /\ DOMAIN r = 1..n /\ Len(r) = n
      /\ (\A i \in 1..Len(q) : r[i] = q[i] /\ i < n) /\ r[n] = f
    OBVIOUS
<1>2. /\ more[t] = sent[t] + 1 /\ sent[t] \in Nat
      /\ \A u \in Senders \cup {LoopThread} : u # t => more[u] = sent[u]
      /\ \A u \in Senders \cup {LoopThread} : more[u] \in Nat /\ sent[u] \in Nat /\ sent[u] <= more[u]
      /\ LoopThread # t
    BY ConnAssumption
<1>3. From(f) = t /\ Num(f) = sent[t] + 1
    <2>1. f.data[1] = Octet(t, sent[t] + 1, 1)
        BY ConnAssumption DEF Message
    <2> QED BY <2>1, OctetFields DEF From, Num
<1> HIDE DEF r, n, more
<1>4. \A i \in Sends(r) : i = n \/ (i \in Sends(q) /\ r[i] = q[i] /\ i < n)
    BY <1>1 DEF Sends, n
<1>5. n \in Sends(r) /\ (\A i \in Sends(q) : i \in Sends(r) /\ r[i] = q[i] /\ i \in Int /\ i < n)
    BY <1>1 DEF Sends, n
<1>6. \A i \in Sends(q) : /\ From(q[i]) \in Senders
                          /\ Num(q[i]) \in 1..sent[From(q[i])]
                          /\ q[i].data = Message(From(q[i]), Num(q[i]))
    BY DEF Waiting
<1>7. Waiting(r, out, more)
    <2>1. ASSUME NEW i \in Sends(r)
          PROVE  From(r[i]) \in Senders /\ Num(r[i]) \in 1..more[From(r[i])] /\ r[i].data = Message(From(r[i]), Num(r[i]))
        <3>1. CASE i = n
            BY <1>1, <1>2, <1>3, <3>1
        <3>2. CASE i # n
            <4>1. From(r[i]) \in Senders /\ Num(r[i]) \in 1..sent[From(r[i])] /\ r[i].data = Message(From(r[i]), Num(r[i]))
                BY <1>4, <1>6, <3>2
            <4>2. sent[From(r[i])] <= more[From(r[i])] /\ sent[From(r[i])] \in Nat /\ more[From(r[i])] \in Nat
                BY <1>2, <4>1
            <4> QED BY <4>1, <4>2
        <3> QED BY <3>1, <3>2
    <2>2. ASSUME NEW i \in Sends(r), NEW j \in Sends(r), i < j, From(r[i]) = From(r[j])
          PROVE  Num(r[i]) < Num(r[j])
        <3>1. i # n /\ i \in Sends(q) /\ r[i] = q[i]
            <4>1. j \in Int /\ j <= n /\ n \in Int
                BY <1>1, <1>4, <1>5
            <4> QED BY <1>4, <2>2, <4>1
        <3>2. CASE j = n
            <4>1. From(r[j]) = t /\ Num(r[j]) = sent[t] + 1
                BY <1>1, <1>3, <3>2
            <4>2. From(q[i]) = t /\ Num(q[i]) \in 1..sent[t]
                BY <1>6, <2>2, <3>1, <4>1
            <4> QED BY <1>2, <3>1, <4>1, <4>2
        <3>3. CASE j # n
            BY <1>4, <2>2, <3>1, <3>3 DEF Waiting
        <3> QED BY <3>2, <3>3
    <2>3. ASSUME NEW i \in Sends(r), NEW x \in DOMAIN out, From(r[i]) = out[x].from PROVE out[x].msg < Num(r[i])
        <3>1. CASE i = n
            <4>1. From(r[i]) = t /\ Num(r[i]) = sent[t] + 1
                BY <1>1, <1>3, <3>1
            <4>2. out[x].msg <= sent[t]
                BY <2>3, <4>1 DEF Bounded
            <4>3. out[x] \in Octets
                OBVIOUS
            <4>4. out[x].msg \in Nat
                BY <4>3 DEF Octets
            <4> QED BY <1>2, <4>1, <4>2, <4>4
        <3>2. CASE i # n
            BY <1>4, <2>3, <3>2 DEF Waiting
        <3> QED BY <3>1, <3>2
    <2> QED BY <2>1, <2>2, <2>3 DEF Waiting
<1>8. Bounded(out, more)
    <2> SUFFICES ASSUME NEW x \in DOMAIN out PROVE out[x].msg <= more[out[x].from]
        BY DEF Bounded
    <2>1. out[x] \in Octets
        OBVIOUS
    <2>2. out[x].from \in Senders \cup {LoopThread} /\ out[x].msg \in Nat
        BY <2>1 DEF Octets
    <2>3. out[x].msg <= sent[out[x].from]
        BY DEF Bounded
    <2> QED BY <1>2, <2>2, <2>3
<1>9. ASSUME NoGap(q, out, sent) PROVE NoGap(r, out, more)
    <2>1. ASSUME NEW i \in Int, NEW k \in Int, i <= k, NEW u, NEW m, Reached(q, i, out, u, m) PROVE Reached(r, k, out, u, m)
        <3>1. \A j \in Sends(q) : j < i => j < k
            BY <1>5, <2>1
        <3> QED BY <1>5, <2>1, <3>1 DEF Reached
    <2>2. ASSUME NEW i \in Sends(r), Num(r[i]) > 1 PROVE Reached(r, i, out, From(r[i]), Num(r[i]) - 1)
        <3>1. CASE i = n
            <4>1. r[i] = f /\ Num(r[i]) - 1 = sent[t] /\ From(r[i]) = t /\ sent[t] > 0
                BY <1>1, <1>2, <1>3, <2>2, <3>1
            <4>2. Reached(q, n, out, t, sent[t])
                BY <1>9, <4>1 DEF NoGap, n
            <4> QED BY <1>1, <2>1, <3>1, <4>1, <4>2
        <3>2. CASE i # n
            <4>1. i \in Sends(q) /\ r[i] = q[i] /\ i \in Int /\ i <= i
                BY <1>4, <1>5, <3>2
            <4>2. Reached(q, i, out, From(q[i]), Num(q[i]) - 1)
                BY <1>9, <2>2, <4>1 DEF NoGap
            <4> QED BY <2>1, <4>1, <4>2
        <3> QED BY <3>1, <3>2
    <2>3. n \in Int /\ n + 1 \in Int /\ n <= n + 1 /\ Len(r) + 1 = n + 1 /\ n < n + 1
        BY <1>1
    <2>4. ASSUME NEW u \in Senders, more[u] > 0 PROVE Reached(r, Len(r) + 1, out, u, more[u])
        <3>1. CASE u = t
            BY <1>1, <1>2, <1>3, <1>5, <2>3, <3>1 DEF Reached
        <3>2. CASE u # t
            <4>1. more[u] = sent[u] /\ Reached(q, n, out, u, sent[u])
                BY <1>2, <1>9, <2>4, <3>2 DEF NoGap, n
            <4> QED BY <2>1, <2>3, <4>1
        <3> QED BY <3>1, <3>2
    <2>5. \A m \in 1..more[LoopThread] : Has(out, LoopThread, m)
        BY <1>2, <1>9 DEF NoGap
    <2> QED BY <2>2, <2>4, <2>5 DEF NoGap
<1> QED BY <1>7, <1>8, <1>9 DEF r, more

(* One message more of the loop thread. *)
LEMMA MoreSent ==
    ASSUME NEW sent \in [Senders \cup {LoopThread} -> Nat], NEW more,
           more = [sent EXCEPT ![LoopThread] = @ + 1]
    PROVE  /\ more[LoopThread] = sent[LoopThread] + 1 /\ sent[LoopThread] \in Nat
           /\ \A u \in Senders : u # LoopThread /\ more[u] = sent[u]
           /\ \A u \in Senders \cup {LoopThread} : more[u] \in Nat /\ sent[u] \in Nat /\ sent[u] <= more[u]
<1>1. sent[LoopThread] \in Nat
    OBVIOUS
<1>2. more[LoopThread] = sent[LoopThread] + 1
    OBVIOUS
<1>3. \A u \in Senders : u # LoopThread
    BY ConnAssumption
<1>4. \A u \in Senders : more[u] = sent[u]
    BY <1>3
<1>5. \A u \in Senders \cup {LoopThread} : more[u] \in Nat /\ sent[u] \in Nat /\ sent[u] <= more[u]
    <2>1. \A u \in Senders : sent[u] \in Nat /\ more[u] \in Nat /\ sent[u] <= more[u]
        <3> SUFFICES ASSUME NEW u \in Senders PROVE sent[u] \in Nat /\ more[u] \in Nat /\ sent[u] <= more[u]
            OBVIOUS
        <3>1. u \in Senders \cup {LoopThread}
            OBVIOUS
        <3>2. sent[u] \in Nat
            BY <3>1
        <3> QED BY <1>4, <3>2
    <2>2. more[LoopThread] \in Nat /\ sent[LoopThread] <= more[LoopThread]
        BY <1>1, <1>2
    <2> QED BY <1>1, <2>1, <2>2
<1> QED BY <1>1, <1>2, <1>3, <1>4, <1>5

(* Sending the loop thread's next message at once. *)
LEMMA LoopSends ==
    ASSUME NEW q \in Seq(IoFunctors),
           NEW out \in Seq(Octets), NEW sent \in [Senders \cup {LoopThread} -> Nat],
           Waiting(q, out, sent), Bounded(out, sent), Ordered(out), Whole(out),
           NEW new, new = out \o Message(LoopThread, sent[LoopThread] + 1)
    PROVE  LET more == [sent EXCEPT ![LoopThread] = @ + 1]
           IN  /\ Waiting(q, new, more) /\ Bounded(new, more) /\ Ordered(new) /\ Whole(new)
               /\ NoGap(q, out, sent) => NoGap(q, new, more) /\ (Gapless(out) => Gapless(new))
<1> DEFINE t == LoopThread
<1> DEFINE m == sent[t] + 1
<1> DEFINE more == [sent EXCEPT ![LoopThread] = @ + 1]
<1>1. /\ more[t] = m /\ m \in Nat /\ sent[t] \in Nat /\ m - 1 = sent[t]
      /\ \A u \in Senders : u # t /\ more[u] = sent[u]
      /\ \A u \in Senders \cup {LoopThread} : more[u] \in Nat /\ sent[u] \in Nat /\ sent[u] <= more[u]
    <2>a. sent[LoopThread] \in Nat
        OBVIOUS
    <2>3. \A k \in Nat : k + 1 \in Nat /\ (k + 1) - 1 = k
        OBVIOUS
    <2>1. more = [sent EXCEPT ![LoopThread] = @ + 1]
        OBVIOUS
    <2> HIDE DEF more
    <2>2. /\ more[LoopThread] = sent[LoopThread] + 1 /\ sent[LoopThread] \in Nat
          /\ \A u \in Senders : u # LoopThread /\ more[u] = sent[u]
          /\ \A u \in Senders \cup {LoopThread} : more[u] \in Nat /\ sent[u] \in Nat /\ sent[u] <= more[u]
        BY <2>1, MoreSent, Zenon
    <2> QED BY <2>a, <2>2, <2>3, Zenon
<1>0. t \in Senders \cup {LoopThread} /\ new = out \o Message(t, m)
    OBVIOUS
<1> HIDE DEF t, m, more
<1>2. \A i \in DOMAIN out : out[i] \in Octets /\ (out[i].from = t => out[i].msg < m)
    <2> SUFFICES ASSUME NEW i \in DOMAIN out PROVE out[i] \in Octets /\ (out[i].from = t => out[i].msg < m)
        OBVIOUS
    <2>1. out[i] \in Octets /\ out[i].msg <= sent[out[i].from]
        BY DEF Bounded
    <2>2. out[i].msg \in Nat
        BY <2>1 DEF Octets
    <2> QED BY <1>1, <2>1, <2>2
<1>3. /\ \A i \in DOMAIN new : new[i] \in {out[j] : j \in DOMAIN out} \cup {Octet(t, m, k) : k \in 1..MsgLen}
      /\ Has(new, t, m)
      /\ \A u, n : Has(out, u, n) => Has(new, u, n)
      /\ Ordered(new) /\ Whole(new)
      /\ Gapless(out) /\ (m > 1 => Has(out, t, m - 1)) => Gapless(new)
    BY <1>0, <1>1, <1>2, OneMoreMessage, ZenonT(30)
<1>4. \A i \in Sends(q) : From(q[i]) \in Senders /\ From(q[i]) # t /\ more[From(q[i])] = sent[From(q[i])]
    BY <1>1 DEF Waiting
<1>5. Waiting(q, new, more)
    <2>1. ASSUME NEW i \in Sends(q), NEW x \in DOMAIN new, From(q[i]) = new[x].from PROVE new[x].msg < Num(q[i])
        <3>1. CASE new[x] \in {out[j] : j \in DOMAIN out}
            BY <2>1, <3>1 DEF Waiting
        <3>2. CASE new[x] \in {Octet(t, m, k) : k \in 1..MsgLen}
            <4>1. new[x].from = t
                BY <3>2, OctetFields
            <4> QED BY <1>4, <2>1, <4>1
        <3> QED BY <1>3, <3>1, <3>2
    <2> QED BY <1>4, <2>1 DEF Waiting
<1>6. Bounded(new, more)
    <2> SUFFICES ASSUME NEW x \in DOMAIN new PROVE new[x].msg <= more[new[x].from]
        BY DEF Bounded
    <2>1. CASE new[x] \in {out[j] : j \in DOMAIN out}
        <3>1. PICK j \in DOMAIN out : new[x] = out[j]
            BY <2>1
        <3>2. out[j] \in Octets /\ out[j].msg <= sent[out[j].from]
            BY DEF Bounded
        <3>3. out[j].from \in Senders \cup {LoopThread} /\ out[j].msg \in Nat
            BY <3>2 DEF Octets
        <3> QED BY <1>1, <3>1, <3>2, <3>3, SMTT(30)
    <2>2. CASE new[x] \in {Octet(t, m, k) : k \in 1..MsgLen}
        <3>1. new[x].from = t /\ new[x].msg = m
            BY <2>2, OctetFields
        <3> QED BY <1>1, <3>1
    <2> QED BY <1>3, <2>1, <2>2
<1>7. ASSUME NoGap(q, out, sent) PROVE NoGap(q, new, more) /\ (Gapless(out) => Gapless(new))
    <2>1. \A i, u, n : Reached(q, i, out, u, n) => Reached(q, i, new, u, n)
        BY <1>3 DEF Reached
    <2>2. \A u \in Senders : more[u] > 0 => Reached(q, Len(q) + 1, new, u, more[u])
        BY <1>1, <1>7, <2>1 DEF NoGap
    <2>3. \A i \in Sends(q) : Num(q[i]) > 1 => Reached(q, i, new, From(q[i]), Num(q[i]) - 1)
        BY <1>7, <2>1 DEF NoGap
    <2>4. \A n \in 1..sent[t] : Has(out, t, n)
        BY <1>7 DEF NoGap, t
    <2>5. \A n \in 1..more[t] : Has(new, t, n)
        <3> SUFFICES ASSUME NEW n \in 1..more[t] PROVE Has(new, t, n)
            OBVIOUS
        <3>1. n = m \/ n \in 1..sent[t]
            BY <1>1
        <3> QED BY <1>3, <2>4, <3>1
    <2>6. m > 1 => Has(out, t, m - 1)
        <3>1. m > 1 => m - 1 \in 1..sent[t]
            BY <1>1
        <3> QED BY <2>4, <3>1
    <2>7. Gapless(out) => Gapless(new)
        BY <1>3, <2>6
    <2> QED BY <2>2, <2>3, <2>5, <2>7 DEF NoGap, t
<1> QED BY <1>3, <1>5, <1>6, <1>7 DEF more

-----------------------------------------------------------------------------
(* The parts of WireInv about the messages; the others are about the end   *)
(* of the output.                                                          *)
DataInv == /\ Waiting(ioFunctors, Out, sentMessages)
           /\ Bounded(Out, sentMessages)
           /\ ~Stuck => NoGap(ioFunctors, Out, sentMessages)
           /\ Ordered(Out) /\ Whole(Out)
           /\ ~overwritten => Gapless(Out)

(* A sequence is what is before n and what is behind. *)
LEMMA ConcatSplit ==
    ASSUME NEW S, NEW d \in Seq(S), NEW n \in 0..Len(d)
    PROVE  /\ SubSeq(d, 1, n) \in Seq(S) /\ SubSeq(d, n + 1, Len(d)) \in Seq(S)
           /\ SubSeq(d, 1, n) \o SubSeq(d, n + 1, Len(d)) = d
           /\ Len(SubSeq(d, n + 1, Len(d))) = Len(d) - n
           /\ n = 0 => SubSeq(d, 1, n) = <<>> /\ SubSeq(d, n + 1, Len(d)) = d
<1> DEFINE a == SubSeq(d, 1, n)
<1> DEFINE b == SubSeq(d, n + 1, Len(d))
<1>1. Len(d) \in Nat /\ n \in Nat /\ n <= Len(d)
    OBVIOUS
<1>2. a \in Seq(S) /\ Len(a) = n /\ \A i \in 1..n : a[i] = d[i]
    BY <1>1
<1>3. b \in Seq(S) /\ Len(b) = Len(d) - n /\ \A i \in 1..(Len(d) - n) : b[i] = d[n + i]
    BY <1>1
<1> HIDE DEF a, b
<1>4. a \o b \in Seq(S) /\ Len(a \o b) = Len(d)
    BY <1>1, <1>2, <1>3
<1>5. \A i \in 1..Len(d) : (a \o b)[i] = d[i]
    <2> SUFFICES ASSUME NEW i \in 1..Len(d) PROVE (a \o b)[i] = d[i]
        OBVIOUS
    <2>1. CASE i <= n
        BY <1>1, <1>2, <1>3, <2>1
    <2>2. CASE ~(i <= n)
        <3>1. i - n \in 1..(Len(d) - n) /\ n + (i - n) = i
            BY <1>1, <2>2
        <3>2. (a \o b)[i] = b[i - n]
            BY <1>1, <1>2, <1>3, <2>2
        <3> QED BY <1>3, <3>1, <3>2
    <2> QED BY <2>1, <2>2
<1>6. a \o b = d
    BY <1>4, <1>5, SeqEqual
<1>7. n = 0 => a = <<>>
    BY <1>2, EmptySeq
<1>8. a = <<>> => b = d
    BY <1>3, <1>6, ConcatEmptySeq
<1> QED BY <1>2, <1>3, <1>6, <1>7, <1>8 DEF a, b

(* Concatenation of bytes, regrouped, and how long it is. *)
LEMMA Regroup ==
    ASSUME NEW w \in Seq(Octets), NEW a \in Seq(Octets), NEW b \in Seq(Octets)
    PROVE  /\ (w \o a) \o b = w \o (a \o b)
           /\ w \o a \in Seq(Octets) /\ Len(w \o a) = Len(w) + Len(a)
           /\ w # <<>> <=> Len(w) # 0
           /\ w \o <<>> = w /\ <<>> \o w = w
<1>1. (w \o a) \o b = w \o (a \o b)
    BY ConcatAssociative
<1>2. w \o <<>> = w /\ <<>> \o w = w
    BY ConcatEmptySeq, Zenon
<1> QED BY <1>1, <1>2, EmptySeq, ConcatProperties

(* sendInLoop gives the message up, or puts all of it behind what is out,  *)
(* partly on the wire; then the channel writes if there is output left.    *)
LEMMA SendInLoopEffect ==
    ASSUME ConnTypeOK, NEW data \in Seq(Octets), SendInLoop(data)
    PROVE  \/ /\ connState = "disconnected" \/ (WritesDirectly /\ BrokenPipe)
              /\ UNCHANGED <<wire, outputBuffer, isWriting>>
           \/ /\ connState # "disconnected" /\ ~(WritesDirectly /\ BrokenPipe)
              /\ Out' = Out \o data
              /\ (isWriting <=> outputBuffer # <<>>) => (isWriting' <=> outputBuffer' # <<>>)
<1>1. wire \in Seq(Octets) /\ outputBuffer \in Seq(Octets) /\ isWriting \in BOOLEAN
    BY DEF ConnTypeOK
<1>2. ASSUME NEW n \in 0..Len(data), connState # "disconnected",
             n > 0 => WritesDirectly /\ ~BrokenPipe,
             n = 0 => ~(WritesDirectly /\ BrokenPipe),
             wire' = wire \o SubSeq(data, 1, n),
             outputBuffer' = outputBuffer \o SubSeq(data, n + 1, Len(data)),
             isWriting' = (isWriting \/ n < Len(data))
      PROVE  /\ connState # "disconnected" /\ ~(WritesDirectly /\ BrokenPipe)
             /\ Out' = Out \o data
             /\ (isWriting <=> outputBuffer # <<>>) => (isWriting' <=> outputBuffer' # <<>>)
    <2> DEFINE a == SubSeq(data, 1, n)
    <2> DEFINE b == SubSeq(data, n + 1, Len(data))
    <2>1. /\ a \in Seq(Octets) /\ b \in Seq(Octets) /\ a \o b = data /\ Len(b) = Len(data) - n
          /\ n = 0 => a = <<>> /\ b = data
        BY ConcatSplit
    <2>2. wire' = wire \o a /\ outputBuffer' = outputBuffer \o b
        BY <1>2
    <2> HIDE DEF a, b
    <2>a. a \in Seq(Octets) /\ b \in Seq(Octets)
        BY <2>1
    <2>b. wire \in Seq(Octets) /\ outputBuffer \in Seq(Octets)
        BY <1>1
    <2>3. n > 0 \/ n = 0
        OBVIOUS
    <2>4. ~(WritesDirectly /\ BrokenPipe)
        BY <1>2, <2>3
    <2>5. (wire \o a) \o (outputBuffer \o b) = (wire \o outputBuffer) \o data
        <3>1. CASE n > 0
            <4>1. outputBuffer = <<>>
                BY <1>2, <3>1 DEF WritesDirectly
            <4>2. outputBuffer \o b = b /\ wire \o outputBuffer = wire
                BY <1>1, <2>1, <4>1, ConcatEmptySeq
            <4>3. (wire \o a) \o b = wire \o (a \o b)
                BY <2>a, <2>b, Regroup
            <4> QED BY <2>1, <4>2, <4>3
        <3>2. CASE n = 0
            <4>1. wire \o a = wire /\ b = data
                BY <1>1, <2>1, <3>2, ConcatEmptySeq
            <4>2. wire \o (outputBuffer \o data) = (wire \o outputBuffer) \o data
                BY <1>1, Regroup
            <4> QED BY <4>1, <4>2
        <3> QED BY <2>3, <3>1, <3>2
    <2>6. (isWriting <=> outputBuffer # <<>>) => (isWriting' <=> outputBuffer' # <<>>)
        <3>1. Len(outputBuffer') = Len(outputBuffer) + (Len(data) - n) /\ outputBuffer' \in Seq(Octets)
            <4>1. Len(outputBuffer \o b) = Len(outputBuffer) + Len(b) /\ outputBuffer \o b \in Seq(Octets)
                BY <2>a, <2>b, Regroup
            <4> QED BY <2>1, <2>2, <4>1
        <3>2. outputBuffer' # <<>> <=> Len(outputBuffer') # 0
            BY <3>1, Regroup
        <3>3. outputBuffer # <<>> <=> Len(outputBuffer) # 0
            BY <1>1, Regroup
        <3>4. Len(data) \in Nat /\ Len(outputBuffer) \in Nat /\ n \in Nat /\ n <= Len(data)
            BY <1>1
        <3>5. Len(outputBuffer') # 0 <=> Len(outputBuffer) # 0 \/ n < Len(data)
            BY <3>1, <3>4
        <3> QED BY <1>1, <1>2, <3>2, <3>3, <3>5
    <2> QED BY <1>2, <2>2, <2>4, <2>5, <2>6 DEF Out
<1> QED BY <1>2 DEF SendInLoop

(* handleWrite moves output to the wire and changes nothing of the whole. *)
LEMMA HandleWriteEffect ==
    ASSUME ConnTypeOK, HandleWrite
    PROVE  /\ Out' = Out
           /\ isWriting' <=> outputBuffer' # <<>>
           /\ finSent' => outputBuffer' = <<>> /\ connState = "disconnecting"
           /\ ~finSent /\ isWriting
<1>0. PICK n \in 1..Len(outputBuffer) :
             /\ wire' = wire \o SubSeq(outputBuffer, 1, n)
             /\ outputBuffer' = SubSeq(outputBuffer, n + 1, Len(outputBuffer))
             /\ isWriting' = (n < Len(outputBuffer))
             /\ finSent' = (finSent \/ (~isWriting' /\ connState = "disconnecting"))
    BY DEF HandleWrite
<1>1. wire \in Seq(Octets) /\ outputBuffer \in Seq(Octets) /\ finSent \in BOOLEAN
    BY DEF ConnTypeOK
<1>2. n \in 0..Len(outputBuffer) /\ Len(outputBuffer) \in Nat
    BY <1>1
<1> DEFINE a == SubSeq(outputBuffer, 1, n)
<1> DEFINE b == SubSeq(outputBuffer, n + 1, Len(outputBuffer))
<1>3. a \in Seq(Octets) /\ b \in Seq(Octets) /\ a \o b = outputBuffer /\ Len(b) = Len(outputBuffer) - n
    BY <1>1, <1>2, ConcatSplit
<1>4. wire' = wire \o a /\ outputBuffer' = b
    BY <1>0
<1> HIDE DEF a, b
<1>5. Out' = Out
    <2>a. a \in Seq(Octets) /\ b \in Seq(Octets) /\ wire \in Seq(Octets)
        BY <1>1, <1>3
    <2>1. (wire \o a) \o b = wire \o (a \o b)
        BY <2>a, Regroup, SMTT(30)
    <2> QED BY <1>3, <1>4, <2>1 DEF Out
<1>6. isWriting' <=> outputBuffer' # <<>>
    <2>1. b # <<>> <=> Len(b) # 0
        BY <1>3, Regroup
    <2>2. n < Len(outputBuffer) <=> Len(b) # 0
        BY <1>2, <1>3
    <2> QED BY <1>0, <1>4, <2>1, <2>2
<1>7. ~finSent /\ isWriting
    BY DEF HandleWrite, BrokenPipe
<1> QED BY <1>0, <1>5, <1>6, <1>7

-----------------------------------------------------------------------------
(* The end of the output. *)

(* shutdownInLoop is among the functors. *)
HasShutdown(q) == \E i \in DOMAIN q : q[i].op = "shutdown"

(* Running and queueing functors. *)
LEMMA ShutdownQueued ==
    ASSUME NEW q \in Seq(IoFunctors)
    PROVE  /\ q # <<>> => (HasShutdown(Tail(q)) => HasShutdown(q))
           /\ q # <<>> /\ Head(q).op = "shutdown" => HasShutdown(q)
           /\ \A f \in IoFunctors : f.op # "shutdown" /\ HasShutdown(Append(q, f)) => HasShutdown(q)
           /\ ~HasShutdown(<<>>)
<1>1. ASSUME q # <<>>, HasShutdown(Tail(q)) PROVE HasShutdown(q)
    <2>1. PICK i \in DOMAIN Tail(q) : Tail(q)[i].op = "shutdown"
        BY <1>1 DEF HasShutdown
    <2>2. Tail(q)[i] = q[i + 1] /\ i + 1 \in DOMAIN q
        BY <1>1
    <2> QED BY <2>1, <2>2 DEF HasShutdown
<1>2. ASSUME q # <<>>, Head(q).op = "shutdown" PROVE HasShutdown(q)
    <2>1. 1 \in DOMAIN q /\ Head(q) = q[1]
        BY <1>2
    <2> QED BY <1>2, <2>1 DEF HasShutdown
<1>3. ASSUME NEW f \in IoFunctors, f.op # "shutdown", HasShutdown(Append(q, f)) PROVE HasShutdown(q)
    <2>1. PICK i \in DOMAIN Append(q, f) : Append(q, f)[i].op = "shutdown"
        BY <1>3 DEF HasShutdown
    <2>2. i = Len(q) + 1 \/ (i \in DOMAIN q /\ Append(q, f)[i] = q[i])
        OBVIOUS
    <2>3. Append(q, f)[Len(q) + 1] = f
        OBVIOUS
    <2> QED BY <1>3, <2>1, <2>2, <2>3 DEF HasShutdown
<1>4. ~HasShutdown(<<>>)
    BY DEF HasShutdown
<1> QED BY <1>1, <1>2, <1>3, <1>4

(* Once the connection is closed it stays so, and what cannot be written   *)
(* any more never will be.                                                 *)
LEMMA StuckStays ==
    ASSUME LifeInv, [ConnNext]_connVars
    PROVE  /\ Closed => Closed'
           /\ Stuck => Stuck'
           /\ overwritten => overwritten'
           /\ finSent => finSent'
<1>0. isWriting \in BOOLEAN /\ finSent \in BOOLEAN /\ overwritten \in BOOLEAN /\ isReading \in BOOLEAN
    BY DEF LifeInv, ConnTypeOK
<1>1. overwritten => overwritten'
    BY DEF ConnNext, connVars, RunIoFunctor, RunEstablished, RunSend, RunShutdown, RunDangling, RunForceClose,
           RunDestroyed, HandleReadEnd, HandleWrite, LoopSend, LoopShutdown, LoopForceClose,
           LoopForceCloseWithDelay, DelayPasses, RemoveConnection, PeerCloses, CopyPointer, SendTests,
           SendQueues, DropPointer, ShutdownTests, ShutdownSets, ShutdownQueues
<1>2. finSent => finSent'
    BY DEF ConnNext, connVars, RunIoFunctor, RunEstablished, RunSend, RunShutdown, RunDangling, RunForceClose,
           RunDestroyed, HandleReadEnd, HandleWrite, LoopSend, LoopShutdown, LoopForceClose,
           LoopForceCloseWithDelay, DelayPasses, RemoveConnection, PeerCloses, CopyPointer, SendTests,
           SendQueues, DropPointer, ShutdownTests, ShutdownSets, ShutdownQueues
<1>3. peer = "reset" => peer' = "reset"
    BY DEF ConnNext, connVars, RunIoFunctor, RunEstablished, RunSend, RunShutdown, RunDangling, RunForceClose,
           RunDestroyed, HandleReadEnd, HandleWrite, LoopSend, LoopShutdown, LoopForceClose,
           LoopForceCloseWithDelay, DelayPasses, RemoveConnection, PeerCloses, CopyPointer, SendTests,
           SendQueues, DropPointer, ShutdownTests, ShutdownSets, ShutdownQueues
<1>4. Closed => Closed'
    <2>1. CASE RunEstablished
        <3>1. connState = "connecting"
            <4>1. ioFunctors # <<>> /\ Head(ioFunctors).op = "established" /\ ioFunctors \in Seq(IoFunctors)
                BY <2>1 DEF RunEstablished, LifeInv, ConnTypeOK
            <4>2. ~NoneStarts(ioFunctors)
                BY <4>1, PopFunctor
            <4> QED BY <4>2 DEF LifeInv, NotUpYet
        <3> QED BY <3>1 DEF Closed
    <2>2. CASE HandleReadEnd \/ (RunForceClose /\ Open)
        BY <2>2 DEF HandleReadEnd, RunForceClose, HandleClose, Closed
    <2>3. CASE ~(RunEstablished \/ HandleReadEnd \/ (RunForceClose /\ Open))
        <3>1. isReading' = isReading
            BY <2>3 DEF ConnNext, connVars, RunIoFunctor, RunSend, RunShutdown, RunDangling, RunForceClose,
                   RunDestroyed, HandleWrite, LoopSend, LoopShutdown, LoopForceClose,
                   LoopForceCloseWithDelay, DelayPasses, RemoveConnection, PeerCloses, CopyPointer, SendTests,
                   SendQueues, DropPointer, ShutdownTests, ShutdownSets, ShutdownQueues
        <3>2. connState # "connecting" => connState' # "connecting"
            BY <2>3 DEF ConnNext, connVars, RunIoFunctor, RunSend, RunShutdown, RunDangling, RunForceClose,
                   RunDestroyed, HandleWrite, LoopSend, LoopShutdown, LoopForceClose, ForceClose,
                   LoopForceCloseWithDelay, DelayPasses, RemoveConnection, PeerCloses, CopyPointer, SendTests,
                   SendQueues, DropPointer, ShutdownTests, ShutdownSets, ShutdownQueues
        <3> QED BY <3>1, <3>2 DEF Closed
    <2> QED BY <2>1, <2>2, <2>3
<1>5. BrokenPipe => BrokenPipe'
    BY <1>2, <1>3 DEF BrokenPipe
<1>6. ASSUME WritesDirectly, BrokenPipe PROVE WritesDirectly'
    <2>1. CASE RunSend \/ LoopSend
        <3>1. PICK data : SendInLoop(data)
            BY <2>1 DEF RunSend, LoopSend
        <3>2. UNCHANGED <<outputBuffer, isWriting>>
            BY <1>6, <3>1 DEF SendInLoop
        <3> QED BY <1>6, <3>2 DEF WritesDirectly
    <2>2. CASE HandleReadEnd \/ RunForceClose
        BY <1>6, <2>2 DEF HandleReadEnd, RunForceClose, HandleClose, WritesDirectly
    <2>3. CASE ~(RunSend \/ LoopSend \/ HandleReadEnd \/ RunForceClose)
        <3>1. ~HandleWrite
            BY <1>6 DEF HandleWrite
        <3>2. UNCHANGED <<outputBuffer, isWriting>>
            BY <2>3, <3>1 DEF ConnNext, connVars, RunIoFunctor, RunEstablished, RunShutdown, RunDangling,
                   RunDestroyed, LoopShutdown, LoopForceClose,
                   LoopForceCloseWithDelay, DelayPasses, RemoveConnection, PeerCloses, CopyPointer, SendTests,
                   SendQueues, DropPointer, ShutdownTests, ShutdownSets, ShutdownQueues
        <3> QED BY <1>6, <3>2 DEF WritesDirectly
    <2> QED BY <2>1, <2>2, <2>3
<1> QED BY <1>1, <1>2, <1>4, <1>5, <1>6 DEF Stuck

(* What the invariants say of a connection that is not closed. *)
LEMMA UpFacts ==
    ASSUME LifeInv
    PROVE  /\ ~Closed => ~overwritten /\ connState # "disconnected"
           /\ Closed /\ ~overwritten => connState = "disconnected"
           /\ connState = "connected" => ~Closed
           /\ Gone => Closed
BY DEF LifeInv, Closed, UpIsKept, NotUpYet, DownOnce, Open, Gone

(* A step that sends nothing keeps the data. *)
LEMMA QuietStep ==
    ASSUME LifeInv, WireInv, [ConnNext]_connVars, Out' = Out, sentMessages' = sentMessages,
           \/ ioFunctors' = ioFunctors
           \/ ioFunctors # <<>> /\ ioFunctors' = Tail(ioFunctors) /\ Head(ioFunctors).op # "send"
           \/ \E f \in IoFunctors : f.op # "send" /\ ioFunctors' = Append(ioFunctors, f)
    PROVE  DataInv'
<1>1. ioFunctors \in Seq(IoFunctors)
    BY DEF LifeInv, ConnTypeOK
<1>2. (Stuck => Stuck') /\ (overwritten => overwritten')
    BY StuckStays
<1>3. /\ Waiting(ioFunctors, Out, sentMessages)
      /\ ~Stuck => NoGap(ioFunctors, Out, sentMessages)
    BY DEF WireInv
<1>4. /\ Waiting(ioFunctors', Out, sentMessages)
      /\ ~Stuck => NoGap(ioFunctors', Out, sentMessages)
    <2>1. CASE ioFunctors' = ioFunctors
        BY <1>3, <2>1
    <2>2. CASE ioFunctors # <<>> /\ ioFunctors' = Tail(ioFunctors) /\ Head(ioFunctors).op # "send"
        BY <1>1, <1>3, <2>2, PopWaiting
    <2>3. ASSUME NEW f \in IoFunctors, f.op # "send", ioFunctors' = Append(ioFunctors, f)
          PROVE  /\ Waiting(ioFunctors', Out, sentMessages)
                 /\ ~Stuck => NoGap(ioFunctors', Out, sentMessages)
        BY <1>1, <1>3, <2>3, PushOther
    <2> QED BY <2>1, <2>2, <2>3
<1> QED BY <1>2, <1>4 DEF WireInv, DataInv

(* Nobody sends. *)
LEMMA DataQuiet ==
    ASSUME LifeInv, WireInv,
           \/ RunEstablished \/ RunShutdown \/ RunForceClose \/ RunDestroyed
           \/ HandleReadEnd \/ HandleWrite \/ LoopShutdown \/ LoopForceClose
           \/ LoopForceCloseWithDelay \/ DelayPasses \/ RemoveConnection \/ PeerCloses
           \/ UNCHANGED connVars
    PROVE  DataInv'
<1>0. [ConnNext]_connVars
    BY DEF ConnNext, RunIoFunctor
<1>1. ASSUME RunEstablished \/ RunShutdown \/ RunForceClose \/ RunDestroyed PROVE DataInv'
    <2>1. /\ ioFunctors # <<>> /\ ioFunctors' = Tail(ioFunctors) /\ Head(ioFunctors).op # "send"
          /\ wire' = wire /\ outputBuffer' = outputBuffer /\ sentMessages' = sentMessages
        BY <1>1 DEF RunEstablished, RunShutdown, RunForceClose, RunDestroyed
    <2>2. Out' = Out
        BY <2>1 DEF Out
    <2> QED BY <1>0, <2>1, <2>2, QuietStep
<1>2. ASSUME HandleWrite PROVE DataInv'
    <2>1. Out' = Out
        BY <1>2, HandleWriteEffect DEF LifeInv
    <2>2. sentMessages' = sentMessages /\ ioFunctors' = ioFunctors
        BY <1>2 DEF HandleWrite
    <2> QED BY <1>0, <2>1, <2>2, QuietStep
<1>3. ASSUME HandleReadEnd \/ LoopShutdown \/ LoopForceCloseWithDelay \/ PeerCloses \/ UNCHANGED connVars
      PROVE  DataInv'
    <2>1. UNCHANGED <<wire, outputBuffer, sentMessages, ioFunctors>>
        BY <1>3 DEF HandleReadEnd, LoopShutdown, LoopForceCloseWithDelay, PeerCloses, connVars
    <2>2. Out' = Out
        BY <2>1 DEF Out
    <2> QED BY <1>0, <2>1, <2>2, QuietStep
<1>4. ASSUME LoopForceClose \/ DelayPasses \/ RemoveConnection PROVE DataInv'
    <2>1. UNCHANGED <<wire, outputBuffer, sentMessages>>
        BY <1>4 DEF LoopForceClose, DelayPasses, RemoveConnection
    <2>2. Out' = Out
        BY <2>1 DEF Out
    <2>3. \/ ioFunctors' = ioFunctors
          \/ \E o \in {"forceClose", "destroyed"} : ioFunctors' = Append(ioFunctors, [op |-> o])
        BY <1>4 DEF LoopForceClose, DelayPasses, RemoveConnection, ForceClose
    <2>4. \A o \in {"forceClose", "destroyed"} : [op |-> o] \in IoFunctors /\ [op |-> o].op # "send"
        BY FunctorTypes DEF Owning
    <2>5. \/ ioFunctors' = ioFunctors
          \/ \E f \in IoFunctors : f.op # "send" /\ ioFunctors' = Append(ioFunctors, f)
        BY <2>3, <2>4
    <2> QED BY <1>0, <2>1, <2>2, <2>5, QuietStep
<1> QED BY <1>1, <1>2, <1>3, <1>4

(* The next message of t, and its functor. *)
LEMMA NextIsMessage ==
    ASSUME ConnTypeOK, NEW t \in Senders \cup {LoopThread}
    PROVE  /\ NextMessage(t) = Message(t, sentMessages[t] + 1)
           /\ NextMessage(t) \in Seq(Octets)
BY FunctorTypes DEF NextMessage, Message, Octet

(* The other threads. *)
LEMMA DataSenderStep ==
    ASSUME LifeInv, WireInv, [ConnNext]_connVars, NEW t \in Senders,
           \/ CopyPointer(t) \/ SendTests(t) \/ SendQueues(t) \/ DropPointer(t)
           \/ ShutdownTests(t) \/ ShutdownSets(t) \/ ShutdownQueues(t)
    PROVE  DataInv'
<1>1. ASSUME CopyPointer(t) \/ SendTests(t) \/ DropPointer(t) \/ ShutdownTests(t) \/ ShutdownSets(t)
      PROVE  DataInv'
    <2>1. UNCHANGED <<wire, outputBuffer, sentMessages, ioFunctors>>
        BY <1>1 DEF CopyPointer, SendTests, DropPointer, ShutdownTests, ShutdownSets
    <2>2. Out' = Out
        BY <2>1 DEF Out
    <2> QED BY <2>1, <2>2, QuietStep
<1>2. ASSUME ShutdownQueues(t) PROVE DataInv'
    <2>1. /\ UNCHANGED <<wire, outputBuffer, sentMessages>>
          /\ ioFunctors' = Append(ioFunctors, RawFunctor("shutdown", <<>>))
        BY <1>2 DEF ShutdownQueues
    <2>2. Out' = Out
        BY <2>1 DEF Out
    <2>3. RawFunctor("shutdown", <<>>) \in IoFunctors /\ RawFunctor("shutdown", <<>>).op # "send"
        <3>1. <<>> \in Seq(Octets)
            OBVIOUS
        <3> QED BY <3>1, FunctorTypes DEF RawFunctor
    <2> QED BY <2>1, <2>2, <2>3, QuietStep
<1>3. ASSUME SendQueues(t) PROVE DataInv'
    <2> DEFINE f == RawFunctor("send", NextMessage(t))
    <2>1. /\ UNCHANGED <<wire, outputBuffer>> /\ ioFunctors' = Append(ioFunctors, f)
          /\ sentMessages' = [sentMessages EXCEPT ![t] = @ + 1]
        BY <1>3 DEF SendQueues
    <2>2. Out' = Out
        BY <2>1 DEF Out
    <2>3. /\ ioFunctors \in Seq(IoFunctors) /\ wire \in Seq(Octets) /\ outputBuffer \in Seq(Octets)
          /\ sentMessages \in [Senders \cup {LoopThread} -> Nat]
        BY DEF LifeInv, ConnTypeOK
    <2>4. Out \in Seq(Octets)
        BY <2>3 DEF Out
    <2>5. f \in IoFunctors /\ f.op = "send" /\ f.data = Message(t, sentMessages[t] + 1)
        <3>1. NextMessage(t) = Message(t, sentMessages[t] + 1) /\ NextMessage(t) \in Seq(Octets)
            BY NextIsMessage DEF LifeInv
        <3>2. f \in IoFunctors
            BY <3>1, FunctorTypes
        <3> QED BY <3>1, <3>2 DEF RawFunctor
    <2> HIDE DEF f
    <2>6. Waiting(ioFunctors, Out, sentMessages) /\ Bounded(Out, sentMessages)
        BY DEF WireInv
    <2>7. /\ Waiting(ioFunctors', Out, sentMessages') /\ Bounded(Out, sentMessages')
          /\ NoGap(ioFunctors, Out, sentMessages) => NoGap(ioFunctors', Out, sentMessages')
        BY <2>1, <2>3, <2>4, <2>5, <2>6, PushSend
    <2>8. (Stuck => Stuck') /\ (overwritten => overwritten')
        BY StuckStays
    <2> QED BY <2>2, <2>7, <2>8 DEF WireInv, DataInv
<1> QED BY <1>1, <1>2, <1>3

(* The messages that go out. *)
LEMMA DataSends ==
    ASSUME LifeInv, WireInv, [ConnNext]_connVars, RunSend \/ RunDangling \/ LoopSend
    PROVE  DataInv'
<1>0. (Stuck => Stuck') /\ (overwritten => overwritten')
    BY StuckStays
<1>1. /\ ioFunctors \in Seq(IoFunctors) /\ wire \in Seq(Octets) /\ outputBuffer \in Seq(Octets)
      /\ sentMessages \in [Senders \cup {LoopThread} -> Nat]
    BY DEF LifeInv, ConnTypeOK
<1>2. Out \in Seq(Octets)
    BY <1>1 DEF Out
<1>3. /\ Waiting(ioFunctors, Out, sentMessages) /\ Bounded(Out, sentMessages)
      /\ Ordered(Out) /\ Whole(Out)
      /\ ~Stuck => NoGap(ioFunctors, Out, sentMessages)
      /\ ~overwritten => Gapless(Out)
    BY DEF WireInv
<1>4. ASSUME RunSend PROVE DataInv'
    <2> DEFINE data == Head(ioFunctors).data
    <2>1. /\ ioFunctors # <<>> /\ Head(ioFunctors).op = "send" /\ ioFunctors' = Tail(ioFunctors)
          /\ SendInLoop(data) /\ sentMessages' = sentMessages /\ overwritten' = overwritten
        BY <1>4 DEF RunSend
    <2>2. data \in Seq(Octets)
        <3>1. Head(ioFunctors) \in IoFunctors
            BY <1>1, <2>1, PopFunctor
        <3> QED BY <2>1, <3>1 DEF IoFunctors, Owning
    <2>3. CASE /\ connState = "disconnected" \/ (WritesDirectly /\ BrokenPipe)
               /\ UNCHANGED <<wire, outputBuffer, isWriting>>
        <3>1. Out' = Out
            BY <2>3 DEF Out
        <3>2. Stuck'
            BY <1>0, <2>3, UpFacts DEF Stuck
        <3>3. Waiting(ioFunctors', Out, sentMessages)
            BY <1>1, <1>3, <2>1, PopWaiting
        <3> QED BY <1>0, <1>3, <2>1, <3>1, <3>2, <3>3 DEF DataInv
    <2>4. CASE /\ connState # "disconnected" /\ ~(WritesDirectly /\ BrokenPipe)
               /\ Out' = Out \o data
        <3>1. ~overwritten => ~Stuck
            BY <2>4, UpFacts DEF Stuck
        <3>2. /\ Waiting(ioFunctors', Out', sentMessages) /\ Bounded(Out', sentMessages)
              /\ Ordered(Out') /\ Whole(Out')
              /\ NoGap(ioFunctors, Out, sentMessages) => NoGap(ioFunctors', Out', sentMessages) /\ (Gapless(Out) => Gapless(Out'))
            <4>1. /\ ioFunctors \in Seq(IoFunctors) /\ Out \in Seq(Octets)
                  /\ sentMessages \in [Senders \cup {LoopThread} -> Nat]
                  /\ Waiting(ioFunctors, Out, sentMessages) /\ Bounded(Out, sentMessages)
                  /\ Ordered(Out) /\ Whole(Out)
                BY <1>1, <1>2, <1>3
            <4>2. ioFunctors # <<>> /\ ioFunctors' = Tail(ioFunctors)
                BY <2>1
            <4>3. PICK f : f = Head(ioFunctors)
                OBVIOUS
            <4>4. f.op = "send" /\ data = f.data
                BY <2>1, <4>3
            <4>5. Out' = Out \o data
                BY <2>4
            <4> HIDE DEF data
            <4> QED BY <4>1, <4>2, <4>3, <4>4, <4>5, PopAndSend
        <3> QED BY <1>0, <1>3, <2>1, <3>1, <3>2 DEF DataInv
    <2> HIDE DEF data
    <2> QED BY <2>1, <2>2, <2>3, <2>4, SendInLoopEffect DEF LifeInv
<1>5. ASSUME RunDangling PROVE DataInv'
    <2>1. /\ ioFunctors # <<>> /\ ioFunctors' \in {Tail(ioFunctors), <<>>} /\ Gone
          /\ UNCHANGED <<wire, outputBuffer, sentMessages>>
        BY <1>5 DEF RunDangling
    <2>2. Out' = Out
        BY <2>1 DEF Out
    <2>3. Stuck'
        BY <1>0, <2>1, UpFacts DEF Stuck
    <2>4. Waiting(<<>>, Out, sentMessages)
        BY DEF Waiting, Sends
    <2>5. Waiting(ioFunctors', Out, sentMessages)
        BY <1>1, <1>3, <2>1, <2>4, PopWaiting
    <2> QED BY <1>0, <1>3, <2>1, <2>2, <2>3, <2>5 DEF DataInv
<1>6. ASSUME LoopSend PROVE DataInv'
    <2> DEFINE data == NextMessage(LoopThread)
    <2>1. /\ connState = "connected" /\ ioFunctors' = ioFunctors /\ SendInLoop(data)
          /\ sentMessages' = [sentMessages EXCEPT ![LoopThread] = @ + 1] /\ overwritten' = overwritten
        BY <1>6 DEF LoopSend
    <2>2. data \in Seq(Octets) /\ data = Message(LoopThread, sentMessages[LoopThread] + 1)
        BY NextIsMessage DEF LifeInv
    <2>3. ~Closed
        BY <2>1, UpFacts
    <2>4. CASE /\ WritesDirectly /\ BrokenPipe
               /\ UNCHANGED <<wire, outputBuffer, isWriting>>
        <3>1. Out' = Out
            BY <2>4 DEF Out
        <3>2. Stuck'
            BY <1>0, <2>4 DEF Stuck
        <3>3. /\ \A u \in Senders : sentMessages'[u] = sentMessages[u]
              /\ \A u \in Senders \cup {LoopThread} : sentMessages[u] \in Nat /\ sentMessages'[u] \in Nat /\ sentMessages[u] <= sentMessages'[u]
            BY <1>1, <2>1, MoreSent
        <3>4. Waiting(ioFunctors, Out, sentMessages')
            BY <1>3, <3>3 DEF Waiting
        <3>5. Bounded(Out, sentMessages')
            <4> SUFFICES ASSUME NEW x \in DOMAIN Out PROVE Out[x].msg <= sentMessages'[Out[x].from]
                BY DEF Bounded
            <4>1. Out[x] \in Octets
                BY <1>2
            <4>2. Out[x].from \in Senders \cup {LoopThread} /\ Out[x].msg \in Nat
                BY <4>1 DEF Octets
            <4>3. Out[x].msg <= sentMessages[Out[x].from]
                BY <1>3 DEF Bounded
            <4> QED BY <3>3, <4>2, <4>3
        <3> QED BY <1>0, <1>3, <2>1, <3>1, <3>2, <3>4, <3>5 DEF DataInv
    <2>5. CASE /\ ~(WritesDirectly /\ BrokenPipe)
               /\ Out' = Out \o data
        <3>1. ~Stuck
            BY <2>3, <2>5 DEF Stuck
        <3>2. /\ Waiting(ioFunctors, Out', sentMessages') /\ Bounded(Out', sentMessages')
              /\ Ordered(Out') /\ Whole(Out')
              /\ NoGap(ioFunctors, Out, sentMessages) => NoGap(ioFunctors, Out', sentMessages') /\ (Gapless(Out) => Gapless(Out'))
            BY <1>1, <1>2, <1>3, <2>1, <2>2, <2>5, LoopSends
        <3> QED BY <1>0, <1>3, <2>1, <3>1, <3>2 DEF DataInv
    <2> HIDE DEF data
    <2> QED BY <2>1, <2>2, <2>4, <2>5, SendInLoopEffect DEF LifeInv
<1> QED BY <1>4, <1>5, <1>6

-----------------------------------------------------------------------------
(* Nobody shuts down the write side before shutdown has been called. *)
LEMMA ShutFirstStep == LifeInv /\ WireInv /\ [ConnNext]_connVars => ShutFirst'
<1> SUFFICES ASSUME LifeInv, WireInv, [ConnNext]_connVars PROVE ShutFirst'
    OBVIOUS
<1> DEFINE Queueing == \E t \in Senders : sender[t] = "queueing"
<1>0. /\ ioFunctors \in Seq(IoFunctors)
      /\ sender \in [Senders -> {"idle", "holding", "sending", "shutting", "queueing"}]
      /\ finSent \in BOOLEAN
      /\ finSent \/ Queueing \/ HasShutdown(ioFunctors) => connState \in {"disconnecting", "disconnected"}
    BY DEF LifeInv, ConnTypeOK, WireInv, ShutFirst, Called, HasShutdown
<1> SUFFICES finSent' \/ Queueing' \/ HasShutdown(ioFunctors') => connState' \in {"disconnecting", "disconnected"}
    BY DEF ShutFirst, Called, HasShutdown
<1>b. /\ ioFunctors # <<>> => (HasShutdown(Tail(ioFunctors)) => HasShutdown(ioFunctors))
      /\ ioFunctors # <<>> /\ Head(ioFunctors).op = "shutdown" => HasShutdown(ioFunctors)
      /\ \A f \in IoFunctors : f.op # "shutdown" /\ HasShutdown(Append(ioFunctors, f)) => HasShutdown(ioFunctors)
      /\ ~HasShutdown(<<>>)
    BY <1>0, ShutdownQueued
<1>c. \A o \in {"forceClose", "destroyed"} : HasShutdown(Append(ioFunctors, [op |-> o])) => HasShutdown(ioFunctors)
    BY <1>b, FunctorTypes DEF Owning
<1> HIDE DEF Queueing
<1>d. sender' = sender => Queueing' = Queueing
    BY DEF Queueing
<1>1. CASE RunEstablished
    <2>1. connState = "connecting"
        <3>1. ioFunctors # <<>> /\ Head(ioFunctors).op = "established"
            BY <1>1 DEF RunEstablished
        <3>2. ~NoneStarts(ioFunctors)
            BY <1>0, <3>1, PopFunctor
        <3> QED BY <3>2 DEF LifeInv, NotUpYet
    <2> QED BY <1>0, <1>1, <1>b, <1>d, <2>1 DEF RunEstablished
<1>2. CASE RunSend \/ RunShutdown \/ RunDangling \/ RunDestroyed
    BY <1>0, <1>2, <1>b, <1>d DEF RunSend, RunShutdown, RunDangling, RunDestroyed
<1>3. CASE RunForceClose \/ HandleReadEnd
    BY <1>0, <1>3, <1>b, <1>d DEF RunForceClose, HandleReadEnd, HandleClose
<1>4. CASE HandleWrite
    <2>1. finSent' => connState = "disconnecting"
        BY <1>4, HandleWriteEffect DEF LifeInv
    <2> QED BY <1>0, <1>4, <1>d, <2>1 DEF HandleWrite
<1>5. CASE LoopSend \/ PeerCloses \/ UNCHANGED connVars
    BY <1>0, <1>5, <1>d DEF LoopSend, PeerCloses, connVars
<1>6. CASE LoopShutdown \/ LoopForceClose \/ LoopForceCloseWithDelay
    BY <1>6 DEF LoopShutdown, LoopForceClose, ForceClose, LoopForceCloseWithDelay
<1>7. CASE DelayPasses \/ RemoveConnection
    BY <1>0, <1>7, <1>c, <1>d DEF DelayPasses, ForceClose, RemoveConnection
<1>8. ASSUME NEW t \in Senders, CopyPointer(t) \/ SendTests(t) \/ SendQueues(t) \/ DropPointer(t) \/ ShutdownTests(t)
      PROVE  finSent' \/ Queueing' \/ HasShutdown(ioFunctors') => connState' \in {"disconnecting", "disconnected"}
    <2>1. Queueing' => Queueing
        BY <1>0, <1>8 DEF Queueing, CopyPointer, SendTests, SendQueues, DropPointer, ShutdownTests, SenderGoes
    <2>2. HasShutdown(ioFunctors') => HasShutdown(ioFunctors)
        <3>1. CASE SendQueues(t)
            <4>1. NextMessage(t) \in Seq(Octets)
                BY NextIsMessage DEF LifeInv
            <4>2. RawFunctor("send", NextMessage(t)) \in IoFunctors /\ RawFunctor("send", NextMessage(t)).op # "shutdown"
                BY <4>1, FunctorTypes DEF RawFunctor
            <4> QED BY <1>b, <3>1, <4>2 DEF SendQueues
        <3>2. CASE ~SendQueues(t)
            BY <1>8, <3>2 DEF CopyPointer, SendTests, DropPointer, ShutdownTests
        <3> QED BY <3>1, <3>2
    <2>3. finSent' = finSent /\ connState' = connState
        BY <1>8 DEF CopyPointer, SendTests, SendQueues, DropPointer, ShutdownTests
    <2> QED BY <1>0, <2>1, <2>2, <2>3
<1>9. ASSUME NEW t \in Senders, ShutdownSets(t) \/ ShutdownQueues(t)
      PROVE  finSent' \/ Queueing' \/ HasShutdown(ioFunctors') => connState' \in {"disconnecting", "disconnected"}
    <2>1. CASE ShutdownSets(t)
        BY <2>1 DEF ShutdownSets
    <2>2. CASE ShutdownQueues(t)
        BY <1>0, <2>2 DEF ShutdownQueues, SenderGoes, Queueing
    <2> QED BY <1>9, <2>1, <2>2
<1> QED BY <1>1, <1>2, <1>3, <1>4, <1>5, <1>6, <1>7, <1>8, <1>9, ConnAssumption DEF ConnNext, RunIoFunctor

(* What sendInLoop does to the end of the output. *)
LEMMA SendAndEnd ==
    ASSUME ConnTypeOK, ~Closed, OutputWatched, NEW data \in Seq(Octets), SendInLoop(data), ~Closed', finSent' = finSent
    PROVE  OutputWatched' /\ (finSent => wire' = wire)
<1>1. finSent => WritesDirectly /\ BrokenPipe
    BY DEF OutputWatched, WritesDirectly, BrokenPipe
<1>2. CASE UNCHANGED <<wire, outputBuffer, isWriting>>
    BY <1>2 DEF OutputWatched
<1>3. CASE /\ ~(WritesDirectly /\ BrokenPipe)
           /\ (isWriting <=> outputBuffer # <<>>) => (isWriting' <=> outputBuffer' # <<>>)
    BY <1>1, <1>3 DEF OutputWatched
<1> QED BY <1>2, <1>3, SendInLoopEffect

(* While the connection is up the channel writes as long as there is       *)
(* output.                                                                 *)
LEMMA OutputWatchedStep == LifeInv /\ WireInv /\ [ConnNext]_connVars => OutputWatched'
<1> SUFFICES ASSUME LifeInv, WireInv, [ConnNext]_connVars, ~Closed' PROVE OutputWatched'
    BY DEF OutputWatched
<1>0. ~Closed /\ OutputWatched /\ ConnTypeOK
    BY StuckStays DEF WireInv, LifeInv
<1>1. CASE RunSend
    <2>1. Head(ioFunctors).data \in Seq(Octets)
        <3>1. Head(ioFunctors) \in IoFunctors
            BY <1>0, <1>1, PopFunctor DEF RunSend, ConnTypeOK
        <3> QED BY <1>1, <3>1 DEF RunSend, IoFunctors, Owning
    <2>2. SendInLoop(Head(ioFunctors).data) /\ finSent' = finSent
        BY <1>1 DEF RunSend
    <2> QED BY <1>0, <2>1, <2>2, SendAndEnd
<1>2. CASE LoopSend
    <2>1. NextMessage(LoopThread) \in Seq(Octets)
        BY <1>0, NextIsMessage
    <2>2. SendInLoop(NextMessage(LoopThread)) /\ finSent' = finSent
        BY <1>2 DEF LoopSend
    <2> QED BY <1>0, <2>1, <2>2, SendAndEnd
<1>3. CASE HandleWrite
    BY <1>0, <1>3, HandleWriteEffect DEF OutputWatched
<1>4. CASE RunShutdown \/ LoopShutdown
    BY <1>0, <1>4 DEF RunShutdown, LoopShutdown, OutputWatched, ShutsDown
<1>5. CASE HandleReadEnd \/ (RunForceClose /\ Open)
    BY <1>5 DEF HandleReadEnd, RunForceClose, HandleClose, Closed
<1>6. CASE ~(RunSend \/ LoopSend \/ HandleWrite \/ RunShutdown \/ LoopShutdown \/ HandleReadEnd \/ (RunForceClose /\ Open))
    <2>1. UNCHANGED <<isWriting, outputBuffer, finSent>>
        BY <1>6 DEF ConnNext, connVars, RunIoFunctor, RunEstablished, RunDangling, RunForceClose,
                RunDestroyed, LoopForceClose, LoopForceCloseWithDelay, DelayPasses, RemoveConnection,
                PeerCloses, CopyPointer, SendTests, SendQueues, DropPointer, ShutdownTests, ShutdownSets,
                ShutdownQueues
    <2> QED BY <1>0, <2>1 DEF OutputWatched
<1> QED BY <1>1, <1>2, <1>3, <1>4, <1>5, <1>6

(* What the loop thread has sent is on the wire when the write side is     *)
(* shut down.                                                              *)
LEMMA FlushedStep ==
    LifeInv /\ WireInv /\ [ConnNext]_connVars => (finSent /\ ~Closed /\ peer # "reset" => Flushed)'
<1> SUFFICES ASSUME LifeInv, LifeInv', WireInv, [ConnNext]_connVars, finSent', ~Closed', peer' # "reset"
             PROVE  Flushed'
    BY LifeInvStep
<1>0. ~Closed /\ OutputWatched /\ ConnTypeOK /\ OutputWatched' /\ peer # "reset"
    <2>1. peer # "reset"
        BY DEF ConnNext, connVars, RunIoFunctor, RunEstablished, RunSend, RunShutdown, RunDangling, RunForceClose,
               RunDestroyed, HandleReadEnd, HandleWrite, LoopSend, LoopShutdown, LoopForceClose,
               LoopForceCloseWithDelay, DelayPasses, RemoveConnection, PeerCloses, CopyPointer, SendTests,
               SendQueues, DropPointer, ShutdownTests, ShutdownSets, ShutdownQueues
    <2> QED BY <2>1, StuckStays, OutputWatchedStep DEF WireInv, LifeInv
<1>a. outputBuffer' = <<>> /\ wire' \in Seq(Octets)
    BY <1>0 DEF OutputWatched, LifeInv, ConnTypeOK
<1>b. Out' = wire'
    BY <1>a, Regroup DEF Out
<1>1. ASSUME ~finSent, Out' = Out, sentMessages' = sentMessages PROVE Flushed'
    <2>1. ~Stuck
        BY <1>0, <1>1 DEF Stuck, BrokenPipe
    <2>2. \A m \in 1..sentMessages[LoopThread] : Has(Out, LoopThread, m)
        BY <2>1 DEF WireInv, NoGap
    <2>3. \A m \in 1..sentMessages[LoopThread] : Has(wire', LoopThread, m)
        BY <1>1, <1>b, <2>2
    <2> QED BY <1>1, <2>3 DEF Flushed
<1>2. ASSUME finSent, wire' = wire, sentMessages'[LoopThread] = sentMessages[LoopThread] PROVE Flushed'
    BY <1>0, <1>2 DEF WireInv, Flushed
<1>3. CASE RunSend
    <2>1. Head(ioFunctors).data \in Seq(Octets)
        <3>1. Head(ioFunctors) \in IoFunctors
            BY <1>0, <1>3, PopFunctor DEF RunSend, ConnTypeOK
        <3> QED BY <1>3, <3>1 DEF RunSend, IoFunctors, Owning
    <2>2. SendInLoop(Head(ioFunctors).data) /\ finSent' = finSent /\ sentMessages' = sentMessages
        BY <1>3 DEF RunSend
    <2>3. wire' = wire
        BY <1>0, <2>1, <2>2, SendAndEnd
    <2> QED BY <1>2, <2>2, <2>3
<1>4. CASE LoopSend
    <2>1. finSent /\ connState = "connected"
        BY <1>4 DEF LoopSend
    <2> QED BY <2>1 DEF WireInv, ShutFirst, Called
<1>5. CASE HandleWrite
    <2>1. ~finSent /\ Out' = Out
        BY <1>0, <1>5, HandleWriteEffect
    <2> QED BY <1>1, <1>5, <2>1 DEF HandleWrite
<1>6. ASSUME NEW t \in Senders, SendQueues(t) PROVE Flushed'
    <2>1. sentMessages'[LoopThread] = sentMessages[LoopThread]
        BY <1>0, <1>6, ConnAssumption DEF SendQueues, ConnTypeOK
    <2> QED BY <1>2, <1>6, <2>1 DEF SendQueues
<1>7. CASE ~(RunSend \/ LoopSend \/ HandleWrite \/ \E t \in Senders : SendQueues(t))
    <2>1. UNCHANGED <<wire, outputBuffer, sentMessages>>
        BY <1>7 DEF ConnNext, connVars, RunIoFunctor, RunEstablished, RunShutdown, RunDangling, RunForceClose,
               RunDestroyed, HandleReadEnd, LoopShutdown, LoopForceClose,
               LoopForceCloseWithDelay, DelayPasses, RemoveConnection, PeerCloses, CopyPointer, SendTests,
               DropPointer, ShutdownTests, ShutdownSets, ShutdownQueues
    <2>2. Out' = Out
        BY <2>1 DEF Out
    <2> QED BY <1>1, <1>2, <2>1, <2>2
<1> QED BY <1>3, <1>4, <1>5, <1>6, <1>7

(* newConnection: nothing is out. *)
LEMMA WireInvInit == ConnInit => WireInv
<1> SUFFICES ASSUME ConnInit PROVE WireInv
    OBVIOUS
<1>1. Out = <<>>
    BY DEF ConnInit, Out
<1>2. \A x : x \notin DOMAIN Out
    BY <1>1
<1>3. Sends(ioFunctors) = {}
    BY DEF ConnInit, Sends
<1>4. Waiting(ioFunctors, Out, sentMessages) /\ Bounded(Out, sentMessages)
    BY <1>2, <1>3 DEF Waiting, Bounded
<1>5. Ordered(Out) /\ Whole(Out) /\ Gapless(Out)
    BY <1>2 DEF Ordered, Whole, Gapless
<1>6. NoGap(ioFunctors, Out, sentMessages)
    BY <1>3 DEF NoGap, ConnInit
<1>7. ShutFirst /\ OutputWatched /\ ~finSent
    BY DEF ConnInit, ShutFirst, Called, OutputWatched
<1> QED BY <1>4, <1>5, <1>6, <1>7 DEF WireInv

(* Every step keeps the invariant. *)
LEMMA WireInvStep == LifeInv /\ WireInv /\ [ConnNext]_connVars => WireInv'
<1> SUFFICES ASSUME LifeInv, WireInv, [ConnNext]_connVars PROVE WireInv'
    OBVIOUS
<1>1. DataInv'
    BY DataQuiet, DataSenderStep, DataSends, ConnAssumption DEF ConnNext, RunIoFunctor
<1> QED BY <1>1, ShutFirstStep, OutputWatchedStep, FlushedStep DEF DataInv, WireInv

(* The invariant of the data holds all along. *)
LEMMA WireInvariant == ConnSpec => []WireInv
BY LifeInvariant, WireInvInit, WireInvStep, PTL DEF ConnSpec

(* What each thread sends goes out in order and in whole messages, and     *)
(* without a gap unless kDisconnected has been overwritten, for any number *)
(* of threads and of messages and however little the socket takes.         *)
THEOREM WireInOrder == ConnSpec => []OrderOnWire
<1>1. WireInv => OrderOnWire
    BY DEF WireInv, OrderOnWire, Ordered, Whole, InPlace, Gapless, Out
<1> QED BY <1>1, WireInvariant, PTL

(* What the loop thread has sent is on the wire when the write side is     *)
(* shut down, whoever calls shutdown and whenever.                         *)
THEOREM FlushesBeforeFin == ConnSpec => []FlushedBeforeFin
<1>1. WireInv => FlushedBeforeFin
    BY DEF WireInv, FlushedBeforeFin, Flushed, Has, Octet
<1> QED BY <1>1, WireInvariant, PTL

-----------------------------------------------------------------------------
(* TcpClient, until its user calls connect a second time. *)

(* Functor f is not in q, or is there once. *)
None(q, f) == \A i \in DOMAIN q : q[i] # f
Once(q, f) == \E i \in DOMAIN q : q[i] = f /\ \A j \in DOMAIN q : q[j] = f => j = i

ClientFunctors == {"start", "stop", "resetChannel"}

ClientTypeOK ==
    /\ retry \in BOOLEAN
    /\ clientConnect \in BOOLEAN
    /\ connectorConnect \in BOOLEAN
    /\ connectorState \in {"disconnected", "connecting", "connected"}
    /\ channel \in {"none", "live", "removed"}
    /\ clientFunctors \in Seq(ClientFunctors)
    /\ retryTimers \in Nat
    /\ connection \in {"none", "up", "closing"}
    /\ clientGone \in BOOLEAN
    /\ connectorHeld \in BOOLEAN
    /\ destroyedEarly \in BOOLEAN
    /\ sockets \in Int
    /\ connects \in Nat
    /\ downs \in Nat
    /\ stops \in Nat
    /\ gaveUp \in BOOLEAN
    /\ aborted \in BOOLEAN

(* Before the first attempt there is nothing, and start is queued once. *)
NotStarted ==
    /\ connects <= 1
    /\ connects = 0 => None(clientFunctors, "start")
    /\ None(clientFunctors, "start") \/ Once(clientFunctors, "start")
    /\ connects = 0 \/ ~None(clientFunctors, "start") =>
         /\ connectorState = "disconnected" /\ channel = "none" /\ retryTimers = 0 /\ connection = "none"
         /\ None(clientFunctors, "resetChannel")

(* A timer, an attempt and a connection are never there together. *)
AtMostOne ==
    /\ retryTimers <= 1
    /\ retryTimers = 1 => connectorState = "disconnected" /\ connection = "none"
    /\ connectorState = "connecting" => connection = "none"

(* The channel lives while an attempt does, and its reset is queued once. *)
ChannelReset ==
    /\ channel = "live" <=> connectorState = "connecting"
    /\ channel = "removed" <=> Once(clientFunctors, "resetChannel")
    /\ channel # "removed" => None(clientFunctors, "resetChannel")

(* Nothing that is under way can connect a client that is gone. *)
GoneStops ==
    clientGone /\ connectorConnect => /\ None(clientFunctors, "start")
                                      /\ connectorState # "connecting" /\ retryTimers = 0

(* The Connector is held by its client, and then until it has stopped.     *)
HeldWhile ==
    /\ ~clientGone => connectorHeld /\ ~destroyedEarly
    /\ clientGone /\ connectorHeld /\ connectorState = "connecting" => ~None(clientFunctors, "stop")

(* After that, no functor is left for it unless it was destroyed early. *)
LeftAlone ==
    ~connectorHeld => /\ connectorState # "connecting"
                      /\ None(clientFunctors, "start")
                      /\ destroyedEarly \/ clientFunctors = <<>>

(* Nothing fails but after an early destructor. *)
Unharmed == aborted => destroyedEarly

(* A client that was not stopped goes on. *)
GoesOn ==
    stops = 0 /\ ~clientGone =>
        /\ clientConnect /\ None(clientFunctors, "stop")
        /\ connects > 0 => /\ connectorConnect
                           /\ ~gaveUp /\ retry => \/ ~None(clientFunctors, "start")
                                                  \/ retryTimers = 1
                                                  \/ connectorState = "connecting"
                                                  \/ connection # "none"

(* The client's invariant while connect has been called at most once. *)
ClientCore == /\ ClientTypeOK /\ NotStarted /\ AtMostOne /\ ChannelReset /\ GoneStops /\ GoesOn
              /\ NoSocketLeak /\ HeldWhile /\ LeftAlone /\ Unharmed

(* The inductive invariant of the client. *)
ClientInv == /\ connects \in Nat /\ connects <= MaxConnects
             /\ connects <= 1 => ClientCore

(* Running the first functor. *)
LEMMA PopClient ==
    ASSUME NEW q \in Seq(ClientFunctors), q # <<>>
    PROVE  /\ Tail(q) \in Seq(ClientFunctors) /\ Head(q) \in ClientFunctors
           /\ \A f : None(q, f) => None(Tail(q), f) /\ Head(q) # f
           /\ \A f : Once(q, f) /\ Head(q) = f => None(Tail(q), f)
           /\ \A f : Once(q, f) /\ Head(q) # f => Once(Tail(q), f)
<1> DEFINE r == Tail(q)
<1>1. /\ r \in Seq(ClientFunctors) /\ Len(q) \in Nat /\ Len(q) > 0 /\ Head(q) \in ClientFunctors
      /\ DOMAIN q = 1..Len(q) /\ DOMAIN r = 1..(Len(q) - 1) /\ Head(q) = q[1] /\ 1 \in DOMAIN q
      /\ \A i \in DOMAIN r : r[i] = q[i + 1] /\ i + 1 \in DOMAIN q /\ i \in Int /\ i + 1 # 1
    OBVIOUS
<1> HIDE DEF r
<1>2. \A f : None(q, f) => None(r, f) /\ Head(q) # f
    BY <1>1 DEF None
<1>3. ASSUME NEW f, Once(q, f), Head(q) = f PROVE None(r, f)
    BY <1>1, <1>3 DEF Once, None
<1>4. ASSUME NEW f, Once(q, f), Head(q) # f PROVE Once(r, f)
    <2>1. PICK i \in DOMAIN q : q[i] = f /\ \A j \in DOMAIN q : q[j] = f => j = i
        BY <1>4 DEF Once
    <2>2. i # 1 /\ i \in 1..Len(q)
        BY <1>1, <1>4, <2>1
    <2>3. i - 1 \in DOMAIN r /\ (i - 1) + 1 = i
        BY <1>1, <2>2
    <2>4. r[i - 1] = f
        BY <1>1, <2>1, <2>3
    <2>5. ASSUME NEW j \in DOMAIN r, r[j] = f PROVE j = i - 1
        <3>1. j + 1 = i
            BY <1>1, <2>1, <2>5
        <3> QED BY <1>1, <2>2, <3>1
    <2> QED BY <2>3, <2>4, <2>5 DEF Once
<1> QED BY <1>1, <1>2, <1>3, <1>4 DEF r

(* Queueing functor g. *)
LEMMA PushClient ==
    ASSUME NEW q \in Seq(ClientFunctors), NEW g \in ClientFunctors
    PROVE  /\ Append(q, g) \in Seq(ClientFunctors)
           /\ \A f : None(q, f) /\ g # f => None(Append(q, g), f)
           /\ \A f : Once(q, f) /\ g # f => Once(Append(q, g), f)
           /\ None(q, g) => Once(Append(q, g), g)
<1> DEFINE r == Append(q, g)
<1> DEFINE n == Len(q) + 1
<1>1. /\ r \in Seq(ClientFunctors) /\ Len(q) \in Nat /\ DOMAIN q = 1..Len(q) /\ DOMAIN r = 1..n
      /\ (\A i \in 1..Len(q) : r[i] = q[i]) /\ r[n] = g
    OBVIOUS
<1>2. \A i \in DOMAIN r : i = n \/ (i \in DOMAIN q /\ r[i] = q[i])
    BY <1>1
<1>3. n \in DOMAIN r /\ \A i \in DOMAIN q : i \in DOMAIN r /\ r[i] = q[i]
    BY <1>1
<1> HIDE DEF r, n
<1>4. \A f : None(q, f) /\ g # f => None(r, f)
    BY <1>1, <1>2 DEF None
<1>5. ASSUME NEW f, Once(q, f), g # f PROVE Once(r, f)
    BY <1>1, <1>2, <1>3, <1>5 DEF Once
<1>6. ASSUME None(q, g) PROVE Once(r, g)
    BY <1>1, <1>2, <1>3, <1>6 DEF Once, None
<1> QED BY <1>1, <1>4, <1>5, <1>6 DEF r

(* A functor is not both there and not there. *)
LEMMA OnceNotNone == \A q, f : ~(Once(q, f) /\ None(q, f))
BY DEF Once, None

(* An attempt was made with nothing else under way: it is in progress, a   *)
(* timer is set for the next one, or connections are given up.             *)
Tried == \/ /\ connectorState' = "disconnected" /\ channel' = "none" /\ sockets' = 0
            /\ (retryTimers' = 1 /\ gaveUp' = gaveUp) \/ (retryTimers' = 0 /\ gaveUp' = TRUE)
         \/ /\ connectorState' = "connecting" /\ channel' = "live" /\ sockets' = 1
            /\ retryTimers' = 0 /\ gaveUp' = gaveUp

(* startInLoop while connections are wanted. *)
LEMMA StartEffect ==
    ASSUME StartInLoop("disconnected", TRUE, 0, 0), channel = "none", ~Freed
    PROVE  (aborted' => aborted) /\ Tried
<1>1. 0 + 1 = 1
    OBVIOUS
<1>2. aborted' => aborted
    BY DEF StartInLoop
<1>3. CASE connectorState' = "connecting"
    BY <1>1, <1>2, <1>3 DEF StartInLoop, RetryLater, Tried
<1>4. CASE connectorState' # "connecting"
    BY <1>1, <1>2, <1>4 DEF StartInLoop, RetryLater, Tried
<1> QED BY <1>3, <1>4

(* startInLoop after stop. *)
LEMMA StartNot ==
    ASSUME StartInLoop("disconnected", FALSE, 0, 0), channel = "none", ~Freed
    PROVE  /\ (aborted' => aborted) /\ connectorState' = "disconnected" /\ channel' = "none" /\ sockets' = 0
           /\ retryTimers' = 0 /\ gaveUp' = gaveUp
BY DEF StartInLoop

(* The types after startInLoop. *)
LEMMA TriedTypes ==
    ASSUME ClientTypeOK, Tried
    PROVE  /\ connectorState' \in {"disconnected", "connecting", "connected"}
           /\ channel' \in {"none", "live", "removed"} /\ sockets' \in Int
           /\ retryTimers' \in Nat /\ gaveUp' \in BOOLEAN
<1>1. gaveUp' \in BOOLEAN
    BY DEF ClientTypeOK, Tried
<1>2. sockets' \in {0, 1} /\ retryTimers' \in {0, 1}
    BY DEF Tried
<1>3. sockets' \in Int /\ retryTimers' \in Nat
    BY <1>2
<1> QED BY <1>1, <1>3 DEF Tried

(* The user's calls. *)
LEMMA ClientUserStep ==
    ASSUME ClientCore, connects' <= 1, Connect \/ ConnectInLoop \/ ClientStop \/ Disconnect \/ ClientDtor
    PROVE  ClientCore'
<1> USE DEF ClientCore
<1>0. /\ clientFunctors \in Seq(ClientFunctors)
      /\ {"start", "stop", "resetChannel"} \subseteq ClientFunctors
      /\ \A f : ~(Once(clientFunctors, f) /\ None(clientFunctors, f))
    BY OnceNotNone DEF ClientTypeOK, ClientFunctors
<1>1. ASSUME Connect PROVE ClientCore'
    <2>1. connects = 0 /\ connects' = 1
        BY <1>1 DEF Connect, ClientTypeOK
    <2>2. clientFunctors' = Append(clientFunctors, "start") /\ None(clientFunctors, "start")
        BY <1>1, <2>1 DEF Connect, NotStarted
    <2>3. /\ clientFunctors' \in Seq(ClientFunctors) /\ Once(clientFunctors', "start")
          /\ None(clientFunctors, "resetChannel") => None(clientFunctors', "resetChannel")
          /\ None(clientFunctors, "stop") => None(clientFunctors', "stop")
        BY <1>0, <2>2, PushClient
    <2>4. ~None(clientFunctors', "start") /\ ~(None(clientFunctors', "resetChannel") /\ Once(clientFunctors', "resetChannel"))
        BY <2>3, OnceNotNone
    <2>5. /\ connectorState = "disconnected" /\ channel = "none" /\ retryTimers = 0 /\ connection = "none"
          /\ None(clientFunctors, "resetChannel") /\ ~clientGone
        BY <1>1, <2>1 DEF Connect, MayConnectAgain, NotStarted
    <2>6. ClientTypeOK'
        BY <1>1, <2>1, <2>3 DEF Connect, ClientTypeOK
    <2> QED BY <1>1, <2>1, <2>3, <2>4, <2>5, <2>6
            DEF Connect, NotStarted, AtMostOne, ChannelReset, GoneStops, GoesOn, NoSocketLeak,
                HeldWhile, LeftAlone, Unharmed
<1>2. ASSUME ConnectInLoop PROVE ClientCore'
    <2>1. connects = 0 /\ connects' = 1
        BY <1>2 DEF ConnectInLoop, ClientTypeOK
    <2>2. /\ connectorState = "disconnected" /\ channel = "none" /\ retryTimers = 0 /\ connection = "none"
          /\ None(clientFunctors, "start") /\ None(clientFunctors, "resetChannel") /\ ~clientGone
          /\ sockets = 0 /\ ~Freed
        BY <1>2, <2>1 DEF ConnectInLoop, MayConnectAgain, NotStarted, NoSocketLeak, HeldWhile, Freed
    <2>3. (aborted' => aborted) /\ Tried
        <3>1. StartInLoop("disconnected", TRUE, 0, 0)
            BY <1>2, <2>2 DEF ConnectInLoop
        <3> QED BY <2>2, <3>1, StartEffect
    <2>4. ClientTypeOK'
        <3>1. aborted' \in BOOLEAN
            BY <1>2 DEF ConnectInLoop, StartInLoop
        <3> QED BY <1>2, <2>1, <2>3, <3>1, TriedTypes DEF ConnectInLoop, ClientTypeOK
    <2> QED BY <1>0, <1>2, <2>1, <2>2, <2>3, <2>4
            DEF Tried, ConnectInLoop, NotStarted, AtMostOne, ChannelReset, GoneStops, GoesOn, NoSocketLeak,
                HeldWhile, LeftAlone, Unharmed
<1>3. ASSUME ClientStop PROVE ClientCore'
    <2>1. clientFunctors' = Append(clientFunctors, "stop") /\ stops' # 0
        BY <1>3 DEF ClientStop, ClientTypeOK
    <2>2. /\ clientFunctors' \in Seq(ClientFunctors)
          /\ None(clientFunctors, "start") => None(clientFunctors', "start")
          /\ Once(clientFunctors, "start") => Once(clientFunctors', "start")
          /\ None(clientFunctors, "resetChannel") => None(clientFunctors', "resetChannel")
          /\ Once(clientFunctors, "resetChannel") => Once(clientFunctors', "resetChannel")
        BY <1>0, <2>1, PushClient
    <2>3. \A f : ~(Once(clientFunctors', f) /\ None(clientFunctors', f))
        BY OnceNotNone
    <2>4. ClientTypeOK'
        <3>1. stops' \in Nat
            BY <1>3 DEF ClientStop, ClientTypeOK
        <3> QED BY <1>3, <2>2, <3>1 DEF ClientStop, ClientTypeOK
    <2> QED BY <1>0, <1>3, <2>1, <2>2, <2>3, <2>4
            DEF ClientStop, NotStarted, AtMostOne, ChannelReset, GoneStops, GoesOn, NoSocketLeak,
                HeldWhile, LeftAlone, Unharmed
<1>4. ASSUME Disconnect PROVE ClientCore'
    <2>1. ClientTypeOK' /\ stops' # 0 /\ (connection' = "none" <=> connection = "none")
        <3>1. stops' \in Nat /\ stops' # 0
            BY <1>4 DEF Disconnect, ClientTypeOK
        <3>2. connection' \in {"none", "up", "closing"} /\ (connection' = "none" <=> connection = "none")
            BY <1>4 DEF Disconnect, ClientTypeOK
        <3> QED BY <1>4, <3>1, <3>2 DEF Disconnect, ClientTypeOK
    <2> QED BY <1>4, <2>1
            DEF Disconnect, NotStarted, AtMostOne, ChannelReset, GoneStops, GoesOn, NoSocketLeak,
                HeldWhile, LeftAlone, Unharmed
<1>5. ASSUME ClientDtor, connection # "none" PROVE ClientCore'
    <2>1. /\ clientFunctors' = clientFunctors /\ connectorHeld' = FALSE /\ clientGone' = TRUE
          /\ connection' \in {"none", "up", "closing"} /\ connection' # "none"
          /\ destroyedEarly' = (clientFunctors # <<>>)
          /\ UNCHANGED <<retry, clientConnect, connectorConnect, connectorState, channel, retryTimers,
                         sockets, connects, downs, stops, gaveUp, aborted>>
        BY <1>5 DEF ClientDtor, ClientTypeOK
    <2>a. ~clientGone
        BY <1>5 DEF ClientDtor
    <2>b. ~aborted
        BY <2>a, Zenon DEF Unharmed, HeldWhile
    <2>c. connectorState # "connecting" /\ retryTimers = 0 /\ None(clientFunctors, "start")
        BY <1>5 DEF AtMostOne, NotStarted, ClientTypeOK
    <2>d. destroyedEarly' \/ clientFunctors = <<>>
        BY <2>1
    <2>2. /\ connectorState # "connecting" /\ retryTimers = 0 /\ None(clientFunctors, "start") /\ ~aborted
          /\ destroyedEarly' \/ clientFunctors = <<>>
        BY <2>b, <2>c, <2>d
    <2>3. ClientTypeOK'
        <3>1. destroyedEarly' \in BOOLEAN
            BY <2>1
        <3> QED BY <2>1, <3>1 DEF ClientTypeOK
    <2>4. HeldWhile' /\ LeftAlone' /\ GoneStops' /\ GoesOn' /\ Unharmed'
        BY <2>1, <2>2 DEF HeldWhile, LeftAlone, GoneStops, GoesOn, Unharmed
    <2> QED BY <1>5, <2>1, <2>2, <2>3, <2>4 DEF NotStarted, AtMostOne, ChannelReset, NoSocketLeak
<1>6. ASSUME ClientDtor, connection = "none" PROVE ClientCore'
    <2>1. /\ clientFunctors' = Append(clientFunctors, "stop") /\ clientGone' = TRUE /\ connectorConnect' = FALSE
          /\ connectorHeld /\ ~destroyedEarly
          /\ UNCHANGED <<retry, clientConnect, connectorState, channel, retryTimers, connection, connectorHeld,
                         sockets, connects, downs, stops, gaveUp, destroyedEarly, aborted>>
        BY <1>6 DEF ClientDtor, HeldWhile
    <2>2. /\ clientFunctors' \in Seq(ClientFunctors)
          /\ None(clientFunctors, "start") => None(clientFunctors', "start")
          /\ Once(clientFunctors, "start") => Once(clientFunctors', "start")
          /\ None(clientFunctors, "resetChannel") => None(clientFunctors', "resetChannel")
          /\ Once(clientFunctors, "resetChannel") => Once(clientFunctors', "resetChannel")
        BY <1>0, <2>1, PushClient
    <2>3. ~None(clientFunctors', "stop")
        <3>1. clientFunctors'[Len(clientFunctors) + 1] = "stop" /\ Len(clientFunctors) + 1 \in DOMAIN clientFunctors'
            BY <1>0, <2>1
        <3> QED BY <3>1 DEF None
    <2>4. \A f : ~(Once(clientFunctors', f) /\ None(clientFunctors', f))
        BY OnceNotNone
    <2>5. ClientTypeOK'
        BY <2>1, <2>2 DEF ClientTypeOK
    <2>6. HeldWhile' /\ LeftAlone' /\ GoneStops' /\ GoesOn' /\ Unharmed'
        BY <2>1, <2>3 DEF HeldWhile, LeftAlone, GoneStops, GoesOn, Unharmed
    <2> QED BY <1>0, <2>1, <2>2, <2>4, <2>5, <2>6 DEF NotStarted, AtMostOne, ChannelReset, NoSocketLeak
<1> QED BY <1>1, <1>2, <1>3, <1>4, <1>5, <1>6

(* The loop's functors. *)
LEMMA ClientFunctorStep == ASSUME ClientCore, ClientFunctor PROVE ClientCore'
<1> USE DEF ClientCore
<1>0. /\ clientFunctors \in Seq(ClientFunctors) /\ clientFunctors # <<>>
      /\ \A f : ~(Once(clientFunctors, f) /\ None(clientFunctors, f))
      /\ \A f : ~(Once(clientFunctors', f) /\ None(clientFunctors', f))
    BY OnceNotNone DEF ClientTypeOK, ClientFunctor, RunStart, RunStop, RunResetChannel
<1> DEFINE q == clientFunctors
<1> DEFINE r == Tail(clientFunctors)
<1>a. /\ r \in Seq(ClientFunctors)
      /\ \A f : None(q, f) => None(r, f) /\ Head(q) # f
      /\ \A f : Once(q, f) /\ Head(q) = f => None(r, f)
      /\ \A f : Once(q, f) /\ Head(q) # f => Once(r, f)
    BY <1>0, PopClient
<1>1. ASSUME RunStart PROVE ClientCore'
    <2>0. clientFunctors' = r /\ Head(q) = "start"
        BY <1>1 DEF RunStart
    <2>1. ~None(q, "start") /\ Once(q, "start") /\ None(r, "start") /\ connects = 1
        BY <1>a, <2>0 DEF NotStarted, ClientTypeOK
    <2>2. /\ connectorState = "disconnected" /\ channel = "none" /\ retryTimers = 0 /\ connection = "none"
          /\ None(r, "resetChannel") /\ (connectorConnect => ~clientGone) /\ sockets = 0
          /\ connectorHeld /\ ~Freed
        BY <1>a, <2>1 DEF NotStarted, NoSocketLeak, GoneStops, LeftAlone, Freed
    <2>3. (aborted' => aborted) /\ IF connectorConnect THEN Tried ELSE UNCHANGED <<connectorState, channel, sockets, retryTimers, gaveUp>>
        <3>1. StartInLoop("disconnected", connectorConnect, 0, 0)
            BY <1>1, <2>2 DEF RunStart
        <3>2. CASE connectorConnect
            <4>1. StartInLoop("disconnected", TRUE, 0, 0)
                BY <3>1, <3>2 DEF ClientTypeOK
            <4> QED BY <2>2, <3>2, <4>1, StartEffect
        <3>3. CASE ~connectorConnect
            <4>1. StartInLoop("disconnected", FALSE, 0, 0)
                BY <3>1, <3>3 DEF ClientTypeOK
            <4> QED BY <2>2, <3>3, <4>1, StartNot
        <3> QED BY <3>2, <3>3
    <2>4. ClientTypeOK'
        <3>1. aborted' \in BOOLEAN
            BY <1>1 DEF RunStart, StartInLoop
        <3> QED BY <1>1, <1>a, <2>0, <2>3, <3>1, TriedTypes DEF RunStart, ClientTypeOK
    <2>5. None(q, "stop") => None(r, "stop")
        BY <1>a
    <2>8. HeldWhile' /\ LeftAlone' /\ Unharmed'
        BY <1>1, <2>0, <2>2, <2>3 DEF Tried, RunStart, HeldWhile, LeftAlone, Unharmed
    <2>6. NotStarted' /\ AtMostOne' /\ ChannelReset' /\ GoneStops' /\ NoSocketLeak'
        BY <1>0, <1>1, <2>0, <2>1, <2>2, <2>3
           DEF Tried, RunStart, NotStarted, AtMostOne, ChannelReset, GoneStops, NoSocketLeak
    <2>7. GoesOn'
        BY <1>1, <2>0, <2>1, <2>2, <2>3, <2>5 DEF Tried, RunStart, GoesOn
    <2> QED BY <2>4, <2>6, <2>7, <2>8
<1>b. Freed => destroyedEarly
    BY <1>0 DEF Freed, LeftAlone
<1>2. ASSUME RunStop PROVE ClientCore'
    <2>0. Head(q) = "stop" /\ ~None(q, "stop")
        BY <1>2, <1>a DEF RunStop
    <2>a. /\ None(q, "start") => None(r, "start")
          /\ Once(q, "start") => Once(r, "start")
          /\ None(q, "resetChannel") => None(r, "resetChannel")
          /\ Once(q, "resetChannel") => Once(r, "resetChannel")
        BY <1>a, <2>0
    <2>b. stops = 0 => clientGone
        BY <2>0 DEF GoesOn
    <2>c. Unharmed'
        BY <1>2, <1>b, Zenon DEF RunStop, Unharmed
    <2>1. CASE connectorState = "connecting"
        <3>1. clientFunctors' = Append(r, "resetChannel") /\ channel = "live" /\ connection = "none" /\ sockets = 1
              /\ None(q, "resetChannel") /\ None(q, "start") /\ connects = 1 /\ retryTimers = 0
            BY <1>2, <2>1 DEF RunStop, ChannelReset, NotStarted, AtMostOne, NoSocketLeak, ClientTypeOK
        <3>2. clientFunctors' \in Seq(ClientFunctors) /\ None(clientFunctors', "start") /\ Once(clientFunctors', "resetChannel")
            BY <1>a, <2>a, <3>1, PushClient DEF ClientFunctors
        <3>3. /\ connectorState' = "disconnected" /\ channel' = "removed" /\ sockets' = 0
              /\ retryTimers' = IF connectorConnect THEN 1 ELSE 0
            BY <1>2, <2>1, <3>1 DEF RunStop, RetryLater
        <3>4. ClientTypeOK'
            BY <1>2, <3>2, <3>3 DEF RunStop, ClientTypeOK
        <3>5. connectorConnect => ~clientGone
            BY <2>1 DEF GoneStops
        <3> HIDE DEF q, r
        <3>6. HeldWhile' /\ LeftAlone'
            BY <1>2, <2>1, <3>3 DEF RunStop, HeldWhile, LeftAlone
        <3> QED BY <1>0, <1>2, <2>b, <2>c, <3>1, <3>2, <3>3, <3>4, <3>5, <3>6
                DEF RunStop, NotStarted, AtMostOne, ChannelReset, GoneStops, GoesOn, NoSocketLeak
    <2>2. CASE connectorState # "connecting"
        <3>1. clientFunctors' = r /\ UNCHANGED <<connectorState, channel, retryTimers, sockets>>
            BY <1>2, <2>2 DEF RunStop
        <3>2. ClientTypeOK'
            BY <1>2, <1>a, <3>1 DEF RunStop, ClientTypeOK
        <3>3. NotStarted' /\ AtMostOne' /\ ChannelReset' /\ NoSocketLeak' /\ GoneStops'
            BY <1>0, <1>2, <2>a, <3>1
               DEF RunStop, NotStarted, AtMostOne, ChannelReset, GoneStops, NoSocketLeak
        <3>4. HeldWhile' /\ LeftAlone'
            <4>1. ~connectorHeld => destroyedEarly
                BY <1>0 DEF LeftAlone
            <4> QED BY <1>2, <2>2, <2>a, <3>1, <4>1 DEF RunStop, HeldWhile, LeftAlone
        <3>5. GoesOn'
            BY <1>2, <2>b DEF RunStop, GoesOn
        <3> QED BY <2>c, <3>2, <3>3, <3>4, <3>5
    <2> QED BY <2>1, <2>2
<1>3. ASSUME RunResetChannel PROVE ClientCore'
    <2>0. clientFunctors' = r /\ Head(q) = "resetChannel" /\ ~None(q, "resetChannel")
        BY <1>3, <1>a DEF RunResetChannel
    <2>1. channel = "removed" /\ Once(q, "resetChannel") /\ connectorState # "connecting" /\ channel' = "none"
        BY <1>3, <2>0 DEF ChannelReset, RunResetChannel
    <2>2. None(r, "resetChannel") /\ None(q, "start") /\ None(r, "start") /\ (None(q, "stop") => None(r, "stop"))
        BY <1>a, <2>0, <2>1 DEF NotStarted
    <2>3. ClientTypeOK'
        BY <1>3, <1>a, <2>0 DEF RunResetChannel, ClientTypeOK
    <2> HIDE DEF r
    <2>4. Unharmed'
        BY <1>3, <1>b, Zenon DEF RunResetChannel, Unharmed
    <2>5. HeldWhile' /\ LeftAlone'
        <3>1. ~connectorHeld => destroyedEarly
            BY <1>0 DEF LeftAlone
        <3> QED BY <1>3, <2>0, <2>1, <2>2, <3>1 DEF RunResetChannel, HeldWhile, LeftAlone
    <2> QED BY <1>0, <1>3, <2>0, <2>1, <2>2, <2>3, <2>4, <2>5
            DEF RunResetChannel, NotStarted, AtMostOne, ChannelReset, GoneStops, GoesOn, NoSocketLeak
<1> QED BY <1>1, <1>2, <1>3 DEF ClientFunctor

(* The timer and the events. *)
LEMMA ClientEventStep ==
    ASSUME ClientCore, RetryTimer \/ ConnectorReleased \/ ConnectFails \/ ConnectSucceeds \/ ConnectionCloses
    PROVE  ClientCore'
<1> USE DEF ClientCore
<1>0. /\ clientFunctors \in Seq(ClientFunctors)
      /\ \A f : ~(Once(clientFunctors, f) /\ None(clientFunctors, f))
      /\ \A f : ~(Once(clientFunctors', f) /\ None(clientFunctors', f))
    BY OnceNotNone DEF ClientTypeOK
<1>1. ASSUME RetryTimer PROVE ClientCore'
    <2>1. retryTimers = 1 /\ connectorState = "disconnected" /\ connection = "none" /\ retryTimers - 1 = 0
        BY <1>1 DEF RetryTimer, AtMostOne, ClientTypeOK
    <2>2. /\ None(clientFunctors, "resetChannel") /\ channel = "none" /\ sockets = 0
          /\ None(clientFunctors, "start") /\ connects = 1
        BY <1>0, <1>1, <2>1
           DEF RetryTimer, NextRound, None, ChannelReset, NoSocketLeak, NotStarted, ClientTypeOK
    <2>6. ~Freed
        BY <2>1 DEF Freed
    <2>3. /\ aborted' => aborted
          /\ connectorConnect => Tried
          /\ ~connectorConnect => /\ retryTimers' = 0
                                  /\ UNCHANGED <<connectorState, channel, sockets, gaveUp>>
        <3>1. StartInLoop("disconnected", connectorConnect, 0, 0)
            BY <1>1, <2>1, <2>2 DEF RetryTimer
        <3>2. CASE connectorConnect
            <4>1. StartInLoop("disconnected", TRUE, 0, 0)
                BY <3>1, <3>2 DEF ClientTypeOK
            <4> QED BY <2>2, <2>6, <3>2, <4>1, StartEffect
        <3>3. CASE ~connectorConnect
            <4>1. StartInLoop("disconnected", FALSE, 0, 0)
                BY <3>1, <3>3 DEF ClientTypeOK
            <4> QED BY <2>1, <2>2, <2>6, <3>3, <4>1, StartNot
        <3> QED BY <3>2, <3>3
    <2>4. ClientTypeOK'
        <3>1. aborted' \in BOOLEAN
            BY <1>1 DEF RetryTimer, StartInLoop
        <3> QED BY <1>1, <2>3, <3>1, TriedTypes DEF RetryTimer, ClientTypeOK
    <2>5. connectorConnect => ~clientGone
        BY <2>1 DEF GoneStops
    <2> QED BY <1>0, <1>1, <2>1, <2>2, <2>3, <2>4, <2>5
            DEF Tried, RetryTimer, NotStarted, AtMostOne, ChannelReset, GoneStops, GoesOn, NoSocketLeak,
                HeldWhile, LeftAlone, Unharmed
<1>2. ASSUME channel = "live", RemoveAndResetChannel
      PROVE  /\ clientFunctors' \in Seq(ClientFunctors)
             /\ None(clientFunctors, "start") /\ None(clientFunctors', "start")
             /\ Once(clientFunctors', "resetChannel") /\ channel' = "removed"
             /\ None(clientFunctors, "stop") => None(clientFunctors', "stop")
             /\ connects = 1 /\ retryTimers = 0 /\ connection = "none" /\ sockets = 1
    <2>1. /\ None(clientFunctors, "resetChannel") /\ None(clientFunctors, "start") /\ connectorState = "connecting"
          /\ connects = 1 /\ retryTimers = 0 /\ connection = "none" /\ sockets = 1
        BY <1>2 DEF ChannelReset, NotStarted, AtMostOne, NoSocketLeak, ClientTypeOK
    <2>2. clientFunctors' = Append(clientFunctors, "resetChannel") /\ channel' = "removed"
        BY <1>2 DEF RemoveAndResetChannel
    <2> QED BY <1>0, <2>1, <2>2, PushClient DEF ClientFunctors
<1>3. ASSUME ConnectFails PROVE ClientCore'
    <2>1. /\ clientFunctors' \in Seq(ClientFunctors)
          /\ None(clientFunctors, "start") /\ None(clientFunctors', "start")
          /\ Once(clientFunctors', "resetChannel") /\ channel' = "removed"
          /\ None(clientFunctors, "stop") => None(clientFunctors', "stop")
          /\ connects = 1 /\ retryTimers = 0 /\ connection = "none" /\ sockets = 1
        BY <1>2, <1>3 DEF ConnectFails
    <2>2. /\ connectorState' = "disconnected" /\ sockets' = 0
          /\ retryTimers' = IF connectorConnect THEN 1 ELSE 0
        BY <1>3, <2>1 DEF ConnectFails, RetryLater
    <2>3. ClientTypeOK'
        BY <1>3, <2>1, <2>2 DEF ConnectFails, ClientTypeOK
    <2>4. connectorConnect => ~clientGone
        BY <1>3 DEF ConnectFails, GoneStops
    <2> QED BY <1>0, <1>3, <2>1, <2>2, <2>3, <2>4
            DEF ConnectFails, NotStarted, AtMostOne, ChannelReset, GoneStops, GoesOn, NoSocketLeak,
                HeldWhile, LeftAlone, Unharmed
<1>4. ASSUME ConnectSucceeds PROVE ClientCore'
    <2>1. /\ clientFunctors' \in Seq(ClientFunctors)
          /\ None(clientFunctors, "start") /\ None(clientFunctors', "start")
          /\ Once(clientFunctors', "resetChannel") /\ channel' = "removed"
          /\ None(clientFunctors, "stop") => None(clientFunctors', "stop")
          /\ connects = 1 /\ retryTimers = 0 /\ connection = "none" /\ sockets = 1
        BY <1>2, <1>4 DEF ConnectSucceeds
    <2>2. connectorConnect => ~clientGone
        BY <1>4 DEF ConnectSucceeds, GoneStops
    <2>3. /\ connectorState' = "connected" /\ (aborted' => aborted)
          /\ connectorConnect => connection' = "up" /\ sockets' = 1
          /\ ~connectorConnect => connection' = "none" /\ sockets' = 0
        <3>1. sockets - 1 = 0
            BY <2>1
        <3>2. CASE connectorConnect
            BY <1>4, <2>1, <2>2, <3>2 DEF ConnectSucceeds
        <3>3. CASE ~connectorConnect
            BY <1>4, <2>1, <3>1, <3>3 DEF ConnectSucceeds
        <3> QED BY <3>2, <3>3
    <2>4. ClientTypeOK'
        <3>1. aborted' \in BOOLEAN
            BY <1>4 DEF ConnectSucceeds, ClientTypeOK
        <3> QED BY <1>4, <2>1, <2>3, <3>1 DEF ConnectSucceeds, ClientTypeOK
    <2> QED BY <1>0, <1>4, <2>1, <2>2, <2>3, <2>4
            DEF ConnectSucceeds, NotStarted, AtMostOne, ChannelReset, GoneStops, GoesOn, NoSocketLeak,
                HeldWhile, LeftAlone, Unharmed
<1>5. ASSUME ConnectionCloses PROVE ClientCore'
    <2>1. /\ connection # "none" /\ connectorState # "connecting" /\ retryTimers = 0 /\ sockets = 1
          /\ None(clientFunctors, "resetChannel") /\ channel = "none" /\ connection' = "none"
          /\ None(clientFunctors, "start") /\ connects = 1 /\ (~clientGone => ~Freed)
        BY <1>0, <1>5 DEF Freed, HeldWhile, ConnectionCloses, NextRound, None, AtMostOne, ChannelReset, NoSocketLeak, NotStarted, ClientTypeOK
    <2>2. downs' \in Nat
        BY <1>5 DEF ConnectionCloses, ClientTypeOK
    <2>3. CASE ~clientGone /\ retry /\ clientConnect
        <3>1. (aborted' => aborted) /\ Tried
            <4>0. sockets - 1 = 0
                BY <2>1
            <4>1. StartInLoop("disconnected", TRUE, 0, 0)
                BY <1>5, <2>1, <2>3, <4>0 DEF ConnectionCloses, RestartedState
            <4> QED BY <2>1, <2>3, <4>1, StartEffect
        <3>2. connectorConnect' = TRUE
            BY <1>5, <2>3 DEF ConnectionCloses
        <3>3. ClientTypeOK'
            <4>1. aborted' \in BOOLEAN
                BY <1>5, <2>3 DEF ConnectionCloses, StartInLoop
            <4> QED BY <1>5, <2>1, <2>2, <3>1, <3>2, <4>1, TriedTypes DEF ConnectionCloses, ClientTypeOK
        <3> QED BY <1>0, <1>5, <2>1, <2>3, <3>1, <3>2, <3>3
                DEF Tried, ConnectionCloses, NotStarted, AtMostOne, ChannelReset, GoneStops, GoesOn, NoSocketLeak,
                    HeldWhile, LeftAlone, Unharmed
    <2>4. CASE ~(~clientGone /\ retry /\ clientConnect)
        <3>1. sockets' = 0 /\ UNCHANGED <<connectorConnect, connectorState, channel, retryTimers, gaveUp, aborted>>
            <4>0. sockets - 1 = 0
                BY <2>1
            <4> QED BY <1>5, <2>4, <4>0 DEF ConnectionCloses
        <3>3. ClientTypeOK'
            BY <1>5, <2>1, <2>2, <3>1 DEF ConnectionCloses, ClientTypeOK
        <3> QED BY <1>0, <1>5, <2>1, <2>4, <3>1, <3>3
                DEF ConnectionCloses, NotStarted, AtMostOne, ChannelReset, GoneStops, GoesOn, NoSocketLeak,
                    HeldWhile, LeftAlone, Unharmed
    <2> QED BY <2>3, <2>4
<1>6. ASSUME ConnectorReleased PROVE ClientCore'
    <2>1. None(clientFunctors, "stop") /\ None(clientFunctors, "start") /\ clientFunctors = <<>>
        BY <1>6 DEF ConnectorReleased, None
    <2>2. connectorState # "connecting"
        BY <1>6, <2>1 DEF ConnectorReleased, HeldWhile
    <2>3. ClientTypeOK'
        BY <1>6 DEF ConnectorReleased, ClientTypeOK
    <2> QED BY <1>6, <2>1, <2>2, <2>3
            DEF ConnectorReleased, NotStarted, AtMostOne, ChannelReset, GoneStops, GoesOn, NoSocketLeak,
                HeldWhile, LeftAlone, Unharmed
<1> QED BY <1>1, <1>3, <1>4, <1>5, <1>6

(* The client's invariant holds all along. *)
LEMMA ClientInvariant == ClientSpec => []ClientInv
<1>1. ClientInit => ClientInv
    <2>1. \A f : None(<<>>, f)
        BY DEF None
    <2>2. \A f : ~Once(<<>>, f)
        BY DEF Once
    <2>3. <<>> \in Seq(ClientFunctors)
        OBVIOUS
    <2>4. ClientInit => ClientTypeOK
        <3>1. 0 \in Nat /\ 0 \in Int
            OBVIOUS
        <3>2. ClientInit => /\ retry \in BOOLEAN /\ aborted \in BOOLEAN /\ gaveUp \in BOOLEAN
                            /\ clientGone \in BOOLEAN /\ connectorHeld \in BOOLEAN
                            /\ destroyedEarly \in BOOLEAN
                            /\ clientConnect \in BOOLEAN /\ connectorConnect \in BOOLEAN
            BY DEF ClientInit
        <3> QED BY <2>3, <3>1, <3>2 DEF ClientInit, ClientTypeOK
    <2>5. ClientInit => NoSocketLeak /\ connects \in Nat /\ connects <= MaxConnects
        BY ClientAssumption DEF ClientInit, NoSocketLeak
    <2> QED BY <2>1, <2>2, <2>4, <2>5
            DEF ClientInit, ClientInv, ClientCore, NotStarted, AtMostOne, ChannelReset, GoneStops, GoesOn,
                HeldWhile, LeftAlone, Unharmed
<1>2. ClientInv /\ [ClientNext]_clientVars => ClientInv'
    <2>1. ASSUME ClientInv, UNCHANGED clientVars PROVE ClientInv'
        BY <2>1 DEF clientVars, ClientInv, ClientCore, ClientTypeOK, NotStarted, AtMostOne, ChannelReset,
                    GoneStops, GoesOn, NoSocketLeak, HeldWhile, LeftAlone, Unharmed, Freed
    <2>2. ASSUME ClientInv, ClientNext PROVE ClientInv'
        <3>1. /\ connects \in Nat /\ MaxConnects \in Nat
              /\ connects' = connects \/ (connects < MaxConnects /\ connects' = connects + 1)
            BY <2>2, ClientAssumption
               DEF ClientInv, ClientNext, ClientFunctor, Connect, ConnectInLoop, ClientStop, Disconnect, ClientDtor,
                   RunStart, RunStop, RunResetChannel, RetryTimer, ConnectorReleased, ConnectFails,
                   ConnectSucceeds, ConnectionCloses
        <3>2. connects' \in Nat /\ connects' <= MaxConnects /\ (connects' <= 1 => connects <= 1)
            BY <2>2, <3>1 DEF ClientInv
        <3>3. ASSUME connects' <= 1 PROVE ClientCore'
            BY <2>2, <3>2, <3>3, ClientUserStep, ClientFunctorStep, ClientEventStep DEF ClientInv, ClientNext
        <3> QED BY <3>2, <3>3 DEF ClientInv
    <2> QED BY <2>1, <2>2
<1> QED BY <1>1, <1>2, PTL DEF ClientSpec

(* The assertions of Connector and TcpClient hold for a client whose user  *)
(* calls connect once, and nothing freed is used, with any number of stops *)
(* and disconnects, retries and connections; the destructor may come at    *)
(* any point but one: with a connection, and a functor of the Connector    *)
(* pending.                                                                *)
THEOREM ClientAssertionsHold == ClientSpec => []ClientAssertions
<1>1. ClientInv => ClientAssertions
    <2> SUFFICES ASSUME ClientCore, ~destroyedEarly PROVE ~aborted /\ (Freed => channel = "none")
        BY DEF ClientInv, ClientAssertions
    <2>1. ~aborted
        BY DEF ClientCore, Unharmed
    <2>2. ASSUME Freed PROVE channel = "none"
        <3>1. connectorState # "connecting" /\ clientFunctors = <<>>
            BY <2>2 DEF ClientCore, LeftAlone, Freed
        <3>2. ~Once(clientFunctors, "resetChannel")
            BY <3>1 DEF Once
        <3> QED BY <3>1, <3>2 DEF ClientCore, ChannelReset, ClientTypeOK
    <2> QED BY <2>1, <2>2
<1> QED BY <1>1, ClientInvariant, PTL

(* Until its user calls connect a second time, a client owns no descriptor *)
(* but the one of its attempt or its connection.                           *)
THEOREM ClientLeaksNoSocket == MaxConnects <= 1 => (ClientSpec => []NoSocketLeak)
<1> SUFFICES ASSUME MaxConnects <= 1 PROVE ClientSpec => []NoSocketLeak
    OBVIOUS
<1>1. ClientInv => NoSocketLeak
    BY ClientAssumption DEF ClientInv, ClientCore
<1> QED BY <1>1, ClientInvariant, PTL

(* Such a client, if it is to retry and was not stopped, is connected or   *)
(* has exactly one attempt under way or scheduled.                         *)
THEOREM ClientGoesOn == MaxConnects <= 1 => (ClientSpec => []OneAttempt)
<1> SUFFICES ASSUME MaxConnects <= 1 PROVE ClientSpec => []OneAttempt
    OBVIOUS
<1>1. ClientInv => OneAttempt
    <2>0. ClientInv => ClientCore
        BY ClientAssumption DEF ClientInv
    <2> SUFFICES ASSUME ClientCore, connects > 0, stops = 0, ~clientGone, ~gaveUp, retry
                 PROVE  1 = Pending("start") + retryTimers + (IF connectorState = "connecting" THEN 1 ELSE 0)
                                             + (IF connection # "none" THEN 1 ELSE 0)
        BY <2>0 DEF OneAttempt
    <2>1. None(clientFunctors, "start") => Pending("start") = 0
        <3>1. None(clientFunctors, "start") => {i \in DOMAIN clientFunctors : clientFunctors[i] = "start"} = {}
            BY DEF None
        <3> QED BY <3>1, FS_EmptySet DEF Pending
    <2>2. Once(clientFunctors, "start") => Pending("start") = 1
        <3>1. ASSUME Once(clientFunctors, "start")
              PROVE  \E i : {j \in DOMAIN clientFunctors : clientFunctors[j] = "start"} = {i}
            BY <3>1 DEF Once
        <3> QED BY <3>1, FS_Singleton DEF Pending
    <2>3. retryTimers \in {0, 1}
        BY DEF ClientCore, ClientTypeOK, AtMostOne
    <2>4. CASE ~None(clientFunctors, "start")
        BY <2>2, <2>4 DEF ClientCore, NotStarted
    <2>5. CASE None(clientFunctors, "start")
        BY <2>1, <2>3, <2>5 DEF ClientCore, AtMostOne, GoesOn
    <2> QED BY <2>4, <2>5
<1> QED BY <1>1, ClientInvariant, PTL

-----------------------------------------------------------------------------
(* The Pollers. *)

PollerTypeOK ==
    /\ chan \in [Channels -> [fd : Fds \cup {NoFd}, events : SUBSET Event, index : Int, added : BOOLEAN]]
    /\ channelAt \in [Fds -> Channels \cup {NoChannel}]
    /\ epollSet \in [Fds -> [watched : BOOLEAN, events : SUBSET Event, ptr : Channels \cup {NoChannel}]]
    /\ pollfds \in Seq([fd : Int, events : SUBSET Event])
    /\ broken = FALSE

(* Two Channels have two file descriptors. *)
OwnFd == \A c, d \in Channels : chan[c].fd = chan[d].fd /\ chan[c].fd # NoFd => c = d

(* What channels_ holds is a Channel that is added, with its descriptor. *)
FoundAt == \A f \in Fds : channelAt[f] # NoChannel =>
               chan[channelAt[f]].fd = f /\ chan[channelAt[f]].added

(* A Channel whose descriptor was handed over has none of its own. *)
HandedInv == /\ handed \in [Channels -> Fds \cup {NoFd}]
             /\ \A c \in Channels : handed[c] # NoFd => chan[c].fd = NoFd

(* A Channel that does not exist, and one that is not added. *)
IsDead(x) == x.fd = NoFd /\ x.events = {} /\ x.index = kNew /\ ~x.added
IsOut(x, at) == x.fd # NoFd /\ ~x.added /\ x.events = {} /\ at = NoChannel

(* EPollPoller: Channel c with fields x, what channels_ has at its         *)
(* descriptor, and what the kernel has.                                    *)
EpollOK(c, x, at, e) ==
    \/ /\ IsOut(x, at) /\ x.index = kNew
       /\ ~e.watched /\ e.events = {}
    \/ /\ x.fd # NoFd /\ x.added /\ at = c /\ x.index = kAdded
       /\ e.watched /\ e.events = x.events /\ e.ptr = c
    \/ /\ x.fd # NoFd /\ x.added /\ at = c /\ x.index = kDeleted /\ x.events = {}
       /\ ~e.watched /\ e.events = {}

EpollInv == /\ \A c \in Channels : \/ IsDead(chan[c])
                                   \/ EpollOK(c, chan[c], channelAt[chan[c].fd], epollSet[chan[c].fd])
            /\ \A f \in Fds : (\A c \in Channels : chan[c].fd # f) => ~epollSet[f].watched /\ epollSet[f].events = {}

(* PollPoller: the pollfd of a Channel with fields x, and Channel c at its *)
(* index_.                                                                 *)
Entry(x) == [fd |-> IF x.events = {} THEN Ignored(x.fd) ELSE x.fd, events |-> x.events]
PollOK(c, x, at, q) ==
    \/ IsOut(x, at)
    \/ /\ x.fd # NoFd /\ x.added /\ at = c
       /\ x.index + 1 \in DOMAIN q /\ q[x.index + 1] = Entry(x)

PollInv == /\ \A c \in Channels : \/ IsDead(chan[c])
                                  \/ PollOK(c, chan[c], channelAt[chan[c].fd], pollfds)
           /\ \A c, d \in Channels : chan[c].added /\ chan[d].added /\ chan[c].index = chan[d].index => c = d
           /\ \A i \in DOMAIN pollfds : \E c \in Channels : chan[c].added /\ chan[c].index + 1 = i
           /\ \A f \in Fds : ~epollSet[f].watched

(* The inductive invariant. *)
PollerInv == /\ poller \in {"epoll", "poll"}
             /\ poller = "epoll" => PollerTypeOK /\ OwnFd /\ FoundAt /\ HandedInv /\ EpollInv
             /\ poller = "poll" /\ ~epollOnly => PollerTypeOK /\ OwnFd /\ FoundAt /\ HandedInv /\ PollInv

ChannelFields == [fd : Fds \cup {NoFd}, events : SUBSET Event, index : Int, added : BOOLEAN]

(* The fields of a Channel. *)
LEMMA FieldTypes ==
    ASSUME PollerTypeOK, NEW c \in Channels
    PROVE  /\ chan[c] \in ChannelFields
           /\ chan[c].fd \in Fds \cup {NoFd} /\ chan[c].events \in SUBSET Event
           /\ chan[c].index \in Int /\ chan[c].added \in BOOLEAN
           /\ chan[c].fd # NoFd => chan[c].fd \in Fds
           /\ NoFd \notin Fds /\ c # NoChannel
<1>1. chan[c] \in ChannelFields
    BY DEF PollerTypeOK, ChannelFields
<1>2. NoFd \notin Fds
    BY PollerAssumption DEF NoFd
<1> QED BY <1>1, <1>2, PollerAssumption DEF ChannelFields

(* A step that changes one Channel and what channels_ has at its           *)
(* descriptor.                                                             *)
LEMMA OneChannelStep ==
    ASSUME PollerTypeOK, OwnFd, FoundAt, NEW c \in Channels, chan[c].fd # NoFd,
           \A d \in Channels : chan'[d].fd = chan[d].fd,
           \A d \in Channels : d # c => chan'[d].added = chan[d].added,
           \A g \in Fds : g # chan[c].fd => channelAt'[g] = channelAt[g],
           channelAt'[chan[c].fd] = NoChannel \/ (channelAt'[chan[c].fd] = c /\ chan'[c].added)
    PROVE  /\ OwnFd' /\ FoundAt'
           /\ \A d \in Channels : d # c /\ chan[d].fd # NoFd =>
                 chan[d].fd \in Fds /\ chan[d].fd # chan[c].fd /\ channelAt'[chan[d].fd] = channelAt[chan[d].fd]
<1>1. OwnFd'
    BY DEF OwnFd
<1>2. FoundAt'
    <2> SUFFICES ASSUME NEW g \in Fds, channelAt'[g] # NoChannel
                 PROVE  chan'[channelAt'[g]].fd = g /\ chan'[channelAt'[g]].added
        BY DEF FoundAt
    <2>1. CASE g = chan[c].fd
        BY <2>1
    <2>2. CASE g # chan[c].fd
        <3>1. channelAt'[g] = channelAt[g]
            BY <2>2
        <3>2. channelAt[g] \in Channels /\ chan[channelAt[g]].fd = g /\ chan[channelAt[g]].added
            BY <3>1 DEF FoundAt, PollerTypeOK
        <3>3. channelAt[g] # c
            BY <2>2, <3>2
        <3> QED BY <3>1, <3>2, <3>3
    <2> QED BY <2>1, <2>2
<1>3. \A d \in Channels : d # c /\ chan[d].fd # NoFd =>
          chan[d].fd \in Fds /\ chan[d].fd # chan[c].fd /\ channelAt'[chan[d].fd] = channelAt[chan[d].fd]
    BY FieldTypes DEF OwnFd
<1> QED BY <1>1, <1>2, <1>3

KernelFields == [watched : BOOLEAN, events : SUBSET Event, ptr : Channels \cup {NoChannel}]

(* What the kernel has at a descriptor. *)
LEMMA KernelTypes ==
    ASSUME NEW c \in Channels, NEW es \in SUBSET Event
    PROVE  /\ EPollCtl(c, es) \in KernelFields
           /\ EPollCtl(c, es).watched /\ EPollCtl(c, es).events = es /\ EPollCtl(c, es).ptr = c
           /\ Unwatched \in KernelFields /\ ~Unwatched.watched /\ Unwatched.events = {}
BY DEF EPollCtl, KernelFields, Unwatched

(* EPollPoller::updateChannel. *)
LEMMA EPollUpdateStep ==
    ASSUME PollerTypeOK, OwnFd, FoundAt, EpollInv, NEW c \in Channels, Live(c),
           NEW es \in SUBSET Event, EPollUpdate(c, es)
    PROVE  (PollerTypeOK /\ OwnFd /\ FoundAt /\ EpollInv)'
<1>1. PICK f : f = chan[c].fd
    OBVIOUS
<1>2. f \in Fds /\ c # NoChannel /\ chan[c].events \in SUBSET Event /\ chan[c].fd # NoFd /\ f # NoFd
    BY <1>1, FieldTypes DEF Live
<1>3. EpollOK(c, chan[c], channelAt[f], epollSet[f])
    BY <1>1, <1>2 DEF EpollInv, IsDead
<1>4. kNew = -1 /\ kAdded = 1 /\ kDeleted = 2
    BY DEF kNew, kAdded, kDeleted
<1>5. PICK adds : adds = (chan[c].index \in {kNew, kDeleted})
    OBVIOUS
<1>6. PICK n \in Int : n = IF ~adds /\ es = {} THEN kDeleted ELSE kAdded
    BY <1>4
<1>7. /\ channelAt' = [channelAt EXCEPT ![f] = IF chan[c].index = kNew THEN c ELSE @]
      /\ epollSet' = [epollSet EXCEPT ![f] = IF ~adds /\ es = {} THEN Unwatched ELSE EPollCtl(c, es)]
      /\ chan' = [chan EXCEPT ![c].events = es, ![c].index = n, ![c].added = TRUE]
      /\ broken' = (broken \/ (IF chan[c].index = kNew THEN channelAt[f] # NoChannel ELSE ~(channelAt[f] = c))
                           \/ adds = epollSet[f].watched)
      /\ pollfds' = pollfds
    BY <1>1, <1>5, <1>6 DEF EPollUpdate
<1>8. /\ (chan[c].index = kNew /\ channelAt[f] = NoChannel) \/ (chan[c].index # kNew /\ channelAt[f] = c)
      /\ adds = ~epollSet[f].watched
    BY <1>3, <1>4, <1>5 DEF EpollOK, IsOut
<1>9. broken' = FALSE
    BY <1>7, <1>8, <1>5 DEF PollerTypeOK
<1>10. chan \in [Channels -> ChannelFields] /\ channelAt \in [Fds -> Channels \cup {NoChannel}] /\ epollSet \in [Fds -> KernelFields]
    BY DEF PollerTypeOK, ChannelFields, KernelFields
<1>11. /\ chan' \in [Channels -> ChannelFields]
       /\ chan'[c].fd = f /\ chan'[c].events = es /\ chan'[c].index = n /\ chan'[c].added
       /\ \A d \in Channels : d # c => chan'[d] = chan[d]
    <2>1. chan[c] \in ChannelFields
        BY <1>10
    <2>2. PICK y : y = [chan[c] EXCEPT !.events = es, !.index = n, !.added = TRUE]
        OBVIOUS
    <2>3. y.fd = chan[c].fd /\ y.events = es /\ y.index = n /\ y.added
        BY <2>1, <2>2 DEF ChannelFields
    <2>4. y \in ChannelFields
        BY <2>1, <2>2 DEF ChannelFields
    <2>5. chan' = [chan EXCEPT ![c] = y]
        BY <1>7, <1>10, <2>1, <2>2 DEF ChannelFields
    <2>6. chan'[c] = y /\ chan' \in [Channels -> ChannelFields]
        BY <1>10, <2>4, <2>5
    <2>7. \A d \in Channels : d # c => chan'[d] = chan[d]
        BY <1>10, <2>5
    <2> QED BY <1>1, <2>3, <2>6, <2>7
<1>12. /\ channelAt' \in [Fds -> Channels \cup {NoChannel}] /\ channelAt'[f] = c
       /\ \A g \in Fds : g # f => channelAt'[g] = channelAt[g]
    BY <1>2, <1>7, <1>8, <1>10
<1>13. /\ epollSet' \in [Fds -> KernelFields]
       /\ epollSet'[f] = IF ~adds /\ es = {} THEN Unwatched ELSE EPollCtl(c, es)
       /\ \A g \in Fds : g # f => epollSet'[g] = epollSet[g]
    BY <1>2, <1>7, <1>10, KernelTypes
<1>14. PollerTypeOK'
    BY <1>7, <1>9, <1>11, <1>12, <1>13 DEF PollerTypeOK, ChannelFields, KernelFields
<1>15. /\ OwnFd' /\ FoundAt'
       /\ \A d \in Channels : d # c /\ chan[d].fd # NoFd =>
             chan[d].fd \in Fds /\ chan[d].fd # f /\ channelAt'[chan[d].fd] = channelAt[chan[d].fd]
    <2>1. \A d \in Channels : chan'[d].fd = chan[d].fd
        BY <1>1, <1>11
    <2> QED BY <1>1, <1>2, <1>11, <1>12, <2>1, OneChannelStep
<1>16. EpollOK(c, chan'[c], channelAt'[f], epollSet'[f])
    BY <1>2, <1>6, <1>11, <1>12, <1>13, KernelTypes DEF EpollOK
<1>17. \A d \in Channels : IsDead(chan'[d]) \/ EpollOK(d, chan'[d], channelAt'[chan'[d].fd], epollSet'[chan'[d].fd])
    <2> SUFFICES ASSUME NEW d \in Channels, d # c, ~IsDead(chan[d])
                 PROVE  EpollOK(d, chan[d], channelAt'[chan[d].fd], epollSet'[chan[d].fd])
        BY <1>11, <1>16
    <2>1. EpollOK(d, chan[d], channelAt[chan[d].fd], epollSet[chan[d].fd])
        BY DEF EpollInv
    <2>2. chan[d].fd # NoFd
        BY <2>1 DEF EpollOK, IsOut
    <2> QED BY <1>13, <1>15, <2>1, <2>2
<1>18. \A g \in Fds : (\A d \in Channels : chan'[d].fd # g) => ~epollSet'[g].watched /\ epollSet'[g].events = {}
    BY <1>1, <1>11, <1>13 DEF EpollInv
<1> QED BY <1>14, <1>15, <1>17, <1>18 DEF EpollInv

(* EPollPoller::removeChannel. *)
LEMMA EPollRemoveStep ==
    ASSUME PollerTypeOK, OwnFd, FoundAt, EpollInv, NEW c \in Channels, chan[c].added, chan[c].events = {},
           EPollRemove(c)
    PROVE  (PollerTypeOK /\ OwnFd /\ FoundAt /\ EpollInv)'
<1>1. PICK f : f = chan[c].fd
    OBVIOUS
<1>3. EpollOK(c, chan[c], channelAt[f], epollSet[f])
    BY <1>1 DEF EpollInv, IsDead
<1>2. f \in Fds /\ c # NoChannel /\ chan[c].fd # NoFd /\ f # NoFd
    BY <1>1, <1>3, FieldTypes DEF EpollOK, IsOut
<1>4. kNew = -1 /\ kAdded = 1 /\ kDeleted = 2
    BY DEF kNew, kAdded, kDeleted
<1>7. /\ channelAt' = [channelAt EXCEPT ![f] = NoChannel]
      /\ epollSet' = [epollSet EXCEPT ![f] = IF chan[c].index = kAdded THEN Unwatched ELSE @]
      /\ chan' = [chan EXCEPT ![c].index = kNew, ![c].added = FALSE]
      /\ broken' = (broken \/ channelAt[f] # c \/ chan[c].index \notin {kAdded, kDeleted})
      /\ pollfds' = pollfds
    BY <1>1 DEF EPollRemove
<1>8. /\ channelAt[f] = c /\ chan[c].index \in {kAdded, kDeleted}
      /\ chan[c].index # kAdded => ~epollSet[f].watched /\ epollSet[f].events = {}
    BY <1>3, <1>4 DEF EpollOK, IsOut
<1>9. broken' = FALSE
    BY <1>7, <1>8 DEF PollerTypeOK
<1>10. chan \in [Channels -> ChannelFields] /\ channelAt \in [Fds -> Channels \cup {NoChannel}] /\ epollSet \in [Fds -> KernelFields]
    BY DEF PollerTypeOK, ChannelFields, KernelFields
<1>11. /\ chan' \in [Channels -> ChannelFields]
       /\ chan'[c].fd = f /\ chan'[c].events = {} /\ chan'[c].index = kNew /\ ~chan'[c].added
       /\ \A d \in Channels : d # c => chan'[d] = chan[d]
    <2>1. chan[c] \in ChannelFields
        BY <1>10
    <2>2. PICK y : y = [chan[c] EXCEPT !.events = {}, !.index = kNew, !.added = FALSE]
        OBVIOUS
    <2>3. y.fd = chan[c].fd /\ y.events = {} /\ y.index = kNew /\ ~y.added
        BY <2>1, <2>2 DEF ChannelFields
    <2>4. y \in ChannelFields
        <3>1. kNew \in Int /\ {} \in SUBSET Event /\ FALSE \in BOOLEAN
            BY <1>4
        <3>2. chan[c].fd \in Fds \cup {NoFd}
            BY <2>1 DEF ChannelFields
        <3>3. y = [fd |-> chan[c].fd, events |-> {}, index |-> kNew, added |-> FALSE]
            BY <2>1, <2>2 DEF ChannelFields
        <3> QED BY <3>1, <3>2, <3>3 DEF ChannelFields
    <2>5. chan' = [chan EXCEPT ![c] = y]
        BY <1>7, <1>10, <2>1, <2>2 DEF ChannelFields
    <2>6. chan'[c] = y /\ chan' \in [Channels -> ChannelFields]
        BY <1>10, <2>4, <2>5
    <2>7. \A d \in Channels : d # c => chan'[d] = chan[d]
        BY <1>10, <2>5
    <2> QED BY <1>1, <2>3, <2>6, <2>7
<1>12. /\ channelAt' \in [Fds -> Channels \cup {NoChannel}] /\ channelAt'[f] = NoChannel
       /\ \A g \in Fds : g # f => channelAt'[g] = channelAt[g]
    BY <1>2, <1>7, <1>10
<1>13. /\ epollSet' \in [Fds -> KernelFields]
       /\ ~epollSet'[f].watched /\ epollSet'[f].events = {}
       /\ \A g \in Fds : g # f => epollSet'[g] = epollSet[g]
    <2>1. Unwatched \in KernelFields /\ ~Unwatched.watched /\ Unwatched.events = {}
        BY DEF Unwatched, KernelFields
    <2>2. epollSet'[f] = IF chan[c].index = kAdded THEN Unwatched ELSE epollSet[f]
        BY <1>2, <1>7, <1>10
    <2>3. ~epollSet'[f].watched /\ epollSet'[f].events = {}
        BY <1>8, <2>1, <2>2
    <2> QED BY <1>2, <1>7, <1>10, <2>1, <2>3
<1>14. PollerTypeOK'
    BY <1>7, <1>9, <1>11, <1>12, <1>13 DEF PollerTypeOK, ChannelFields, KernelFields
<1>15. /\ OwnFd' /\ FoundAt'
       /\ \A d \in Channels : d # c /\ chan[d].fd # NoFd =>
             chan[d].fd \in Fds /\ chan[d].fd # f /\ channelAt'[chan[d].fd] = channelAt[chan[d].fd]
    <2>1. \A d \in Channels : chan'[d].fd = chan[d].fd
        BY <1>1, <1>11
    <2> QED BY <1>1, <1>2, <1>11, <1>12, <2>1, OneChannelStep
<1>16. EpollOK(c, chan'[c], channelAt'[f], epollSet'[f])
    BY <1>2, <1>11, <1>12, <1>13 DEF EpollOK, IsOut
<1>17. \A d \in Channels : IsDead(chan'[d]) \/ EpollOK(d, chan'[d], channelAt'[chan'[d].fd], epollSet'[chan'[d].fd])
    <2> SUFFICES ASSUME NEW d \in Channels, d # c, ~IsDead(chan[d])
                 PROVE  EpollOK(d, chan[d], channelAt'[chan[d].fd], epollSet'[chan[d].fd])
        BY <1>11, <1>16
    <2>1. EpollOK(d, chan[d], channelAt[chan[d].fd], epollSet[chan[d].fd])
        BY DEF EpollInv
    <2>2. chan[d].fd # NoFd
        BY <2>1 DEF EpollOK, IsOut
    <2> QED BY <1>13, <1>15, <2>1, <2>2
<1>18. \A g \in Fds : (\A d \in Channels : chan'[d].fd # g) => ~epollSet'[g].watched /\ epollSet'[g].events = {}
    BY <1>1, <1>11, <1>13 DEF EpollInv
<1> QED BY <1>14, <1>15, <1>17, <1>18 DEF EpollInv

PollFields == [fd : Int, events : SUBSET Event]

(* The pollfd of Channel c has its type; it is ignored when there are no   *)
(* events.                                                                 *)
LEMMA EntryFields ==
    ASSUME NEW x \in ChannelFields, x.fd \in Fds
    PROVE  /\ Entry(x) \in PollFields /\ Entry(x).events = x.events
           /\ x.fd \in Int /\ x.fd >= 0 /\ Ignored(x.fd) \in Int /\ Ignored(x.fd) < 0 /\ Ignored(Ignored(x.fd)) = x.fd
           /\ Entry(x).fd = IF x.events = {} THEN Ignored(x.fd) ELSE x.fd
<1>1. x.fd \in Nat /\ x.events \in SUBSET Event
    BY PollerAssumption DEF ChannelFields
<1>2. x.fd >= 0 /\ x.fd \in Int /\ Ignored(x.fd) \in Int /\ Ignored(x.fd) < 0 /\ Ignored(Ignored(x.fd)) = x.fd
    BY <1>1 DEF Ignored
<1>3. Entry(x).events = x.events /\ Entry(x).fd = IF x.events = {} THEN Ignored(x.fd) ELSE x.fd
    BY DEF Entry
<1>4. Entry(x) \in PollFields
    BY <1>1, <1>2 DEF Entry, PollFields
<1> QED BY <1>2, <1>3, <1>4

(* An added Channel and its pollfd. *)
LEMMA AddedPollfd ==
    ASSUME PollerTypeOK, PollInv, NEW c \in Channels, chan[c].added
    PROVE  /\ chan[c].fd \in Fds /\ channelAt[chan[c].fd] = c
           /\ chan[c].index \in Int /\ chan[c].index >= 0 /\ chan[c].index < Len(pollfds)
           /\ chan[c].index + 1 \in DOMAIN pollfds /\ pollfds[chan[c].index + 1] = Entry(chan[c])
<1>1. /\ chan[c].fd # NoFd /\ channelAt[chan[c].fd] = c
      /\ chan[c].index + 1 \in DOMAIN pollfds /\ pollfds[chan[c].index + 1] = Entry(chan[c])
    BY DEF PollInv, PollOK, IsDead, IsOut
<1>2. chan[c].fd \in Fds /\ chan[c].index \in Int
    BY <1>1, FieldTypes
<1>3. DOMAIN pollfds = 1..Len(pollfds) /\ Len(pollfds) \in Nat
    BY DEF PollerTypeOK
<1>4. chan[c].index >= 0 /\ chan[c].index < Len(pollfds)
    BY <1>1, <1>2, <1>3
<1> QED BY <1>1, <1>2, <1>4

(* PollPoller::updateChannel of a Channel that it does not have. *)
LEMMA PollAddStep ==
    ASSUME PollerTypeOK, OwnFd, FoundAt, PollInv, NEW c \in Channels, Live(c),
           NEW es \in SUBSET Event, es # {}, chan[c].index = kNew, PollUpdate(c, es)
    PROVE  (PollerTypeOK /\ OwnFd /\ FoundAt /\ PollInv)'
<1>1. PICK f : f = chan[c].fd
    OBVIOUS
<1>2. f \in Fds /\ c # NoChannel /\ chan[c].events \in SUBSET Event /\ chan[c].fd # NoFd /\ f # NoFd
    BY <1>1, FieldTypes DEF Live
<1>3. chan[c].index = -1
    BY DEF kNew
<1>4. ~chan[c].added
    BY <1>3, AddedPollfd
<1>5. IsOut(chan[c], channelAt[f])
    BY <1>1, <1>2, <1>4 DEF PollInv, PollOK, IsDead
<1>6. PICK n \in Int : n \in Nat /\ n = Len(pollfds) /\ DOMAIN pollfds = 1..n
    BY DEF PollerTypeOK
<1>7. /\ channelAt' = [channelAt EXCEPT ![f] = c]
      /\ pollfds' = Append(pollfds, [fd |-> f, events |-> es])
      /\ chan' = [chan EXCEPT ![c].events = es, ![c].index = n, ![c].added = TRUE]
      /\ broken' = (broken \/ channelAt[f] # NoChannel)
      /\ epollSet' = epollSet
    BY <1>1, <1>3, <1>6 DEF PollUpdate
<1>8. broken' = FALSE
    BY <1>5, <1>7 DEF PollerTypeOK, IsOut
<1>9. pollfds \in Seq(PollFields) /\ [fd |-> f, events |-> es] \in PollFields
    BY <1>2, PollerAssumption DEF PollerTypeOK, PollFields
<1>10. chan \in [Channels -> ChannelFields] /\ channelAt \in [Fds -> Channels \cup {NoChannel}]
    BY DEF PollerTypeOK, ChannelFields
<1>11. /\ chan' \in [Channels -> ChannelFields]
       /\ chan'[c].fd = f /\ chan'[c].events = es /\ chan'[c].index = n /\ chan'[c].added
       /\ \A d \in Channels : d # c => chan'[d] = chan[d]
    <2>1. chan[c] \in ChannelFields
        BY <1>10
    <2>2. PICK y : y = [chan[c] EXCEPT !.events = es, !.index = n, !.added = TRUE]
        OBVIOUS
    <2>3. y.fd = chan[c].fd /\ y.events = es /\ y.index = n /\ y.added
        BY <2>1, <2>2 DEF ChannelFields
    <2>4. y \in ChannelFields
        BY <2>1, <2>2 DEF ChannelFields
    <2>5. chan' = [chan EXCEPT ![c] = y]
        BY <1>7, <1>10, <2>1, <2>2 DEF ChannelFields
    <2>6. chan'[c] = y /\ chan' \in [Channels -> ChannelFields]
        BY <1>10, <2>4, <2>5
    <2>7. \A d \in Channels : d # c => chan'[d] = chan[d]
        BY <1>10, <2>5
    <2> QED BY <1>1, <2>3, <2>6, <2>7
<1>12. /\ channelAt' \in [Fds -> Channels \cup {NoChannel}] /\ channelAt'[f] = c
       /\ \A g \in Fds : g # f => channelAt'[g] = channelAt[g]
    BY <1>2, <1>7, <1>10
<1>13. /\ pollfds' \in Seq(PollFields) /\ DOMAIN pollfds' = 1..(n + 1)
       /\ pollfds'[n + 1] = [fd |-> f, events |-> es]
       /\ \A i \in 1..n : pollfds'[i] = pollfds[i]
    BY <1>6, <1>7, <1>9
<1>14. PollerTypeOK'
    BY <1>7, <1>8, <1>11, <1>12, <1>13 DEF PollerTypeOK, ChannelFields, PollFields
<1>15. /\ OwnFd' /\ FoundAt'
       /\ \A d \in Channels : d # c /\ chan[d].fd # NoFd =>
             chan[d].fd \in Fds /\ chan[d].fd # f /\ channelAt'[chan[d].fd] = channelAt[chan[d].fd]
    <2>1. \A d \in Channels : chan'[d].fd = chan[d].fd
        BY <1>1, <1>11
    <2> QED BY <1>1, <1>2, <1>11, <1>12, <2>1, OneChannelStep
<1>16. PollOK(c, chan'[c], channelAt'[f], pollfds')
    <2>1. Entry(chan'[c]) = [fd |-> f, events |-> es]
        BY <1>11 DEF Entry
    <2>2. chan'[c].index + 1 = n + 1 /\ n + 1 \in 1..(n + 1)
        BY <1>6, <1>11
    <2> QED BY <1>2, <1>11, <1>12, <1>13, <2>1, <2>2 DEF PollOK
<1>17. \A d \in Channels : d # c /\ chan[d].added =>
           chan[d].index + 1 \in 1..n /\ chan[d].index # n /\ chan[d].index + 1 \in 1..(n + 1)
    <2> SUFFICES ASSUME NEW d \in Channels, chan[d].added
                 PROVE  chan[d].index + 1 \in 1..n /\ chan[d].index # n /\ chan[d].index + 1 \in 1..(n + 1)
        OBVIOUS
    <2>1. chan[d].index \in Int /\ chan[d].index >= 0 /\ chan[d].index < n
        BY <1>6, AddedPollfd
    <2> QED BY <2>1
<1>18. \A d \in Channels : IsDead(chan'[d]) \/ PollOK(d, chan'[d], channelAt'[chan'[d].fd], pollfds')
    <2> SUFFICES ASSUME NEW d \in Channels, d # c, ~IsDead(chan[d])
                 PROVE  PollOK(d, chan[d], channelAt'[chan[d].fd], pollfds')
        BY <1>11, <1>16
    <2>1. PollOK(d, chan[d], channelAt[chan[d].fd], pollfds)
        BY DEF PollInv
    <2>2. chan[d].fd # NoFd
        BY <2>1 DEF PollOK, IsOut
    <2>3. channelAt'[chan[d].fd] = channelAt[chan[d].fd]
        BY <1>15, <2>2
    <2>4. CASE IsOut(chan[d], channelAt[chan[d].fd])
        BY <2>3, <2>4 DEF PollOK
    <2>5. CASE chan[d].added
        <3>1. pollfds'[chan[d].index + 1] = pollfds[chan[d].index + 1] /\ chan[d].index + 1 \in DOMAIN pollfds'
            BY <1>13, <1>17, <2>5
        <3> QED BY <2>1, <2>2, <2>3, <2>5, <3>1 DEF PollOK, IsOut
    <2> QED BY <2>1, <2>4, <2>5 DEF PollOK
<1>19. \A d, e \in Channels : chan'[d].added /\ chan'[e].added /\ chan'[d].index = chan'[e].index => d = e
    BY <1>11, <1>17 DEF PollInv
<1>20. \A i \in DOMAIN pollfds' : \E d \in Channels : chan'[d].added /\ chan'[d].index + 1 = i
    <2> SUFFICES ASSUME NEW i \in 1..(n + 1)
                 PROVE  \E d \in Channels : chan'[d].added /\ chan'[d].index + 1 = i
        BY <1>13
    <2>1. CASE i = n + 1
        BY <1>11, <2>1
    <2>2. CASE i # n + 1
        <3>1. i \in DOMAIN pollfds
            BY <1>6, <2>2
        <3>2. PICK d \in Channels : chan[d].added /\ chan[d].index + 1 = i
            BY <3>1 DEF PollInv
        <3> QED BY <1>4, <1>11, <3>2
    <2> QED BY <2>1, <2>2
<1> QED BY <1>7, <1>14, <1>15, <1>18, <1>19, <1>20 DEF PollInv

(* PollPoller::updateChannel of a Channel that it has, which gets no       *)
(* events when it has none.                                                *)
LEMMA PollChangeStep ==
    ASSUME PollerTypeOK, OwnFd, FoundAt, PollInv, NEW c \in Channels, chan[c].added,
           NEW es \in SUBSET Event, chan[c].events = {} => es = {}, PollUpdate(c, es)
    PROVE  (PollerTypeOK /\ OwnFd /\ FoundAt /\ PollInv)'
<1>1. PICK f : f = chan[c].fd
    OBVIOUS
<1>2. /\ f \in Fds /\ c # NoChannel /\ chan[c].fd # NoFd /\ f # NoFd /\ channelAt[f] = c
      /\ chan[c].index \in Int /\ chan[c].index >= 0
      /\ chan[c].index + 1 \in DOMAIN pollfds /\ pollfds[chan[c].index + 1] = Entry(chan[c])
    BY <1>1, AddedPollfd, FieldTypes
<1>3. PICK i, n \in Int : i = chan[c].index + 1 /\ n = chan[c].index /\ i \in DOMAIN pollfds
    BY <1>2
<1>4. /\ ~(chan[c].index < 0)
      /\ pollfds[i] = Entry(chan[c]) /\ chan[c].index = n /\ n + 1 = i
    BY <1>2, <1>3
<1>5. /\ f >= 0 /\ f \in Int /\ Ignored(f) \in Int
      /\ pollfds[i].fd = IF chan[c].events = {} THEN Ignored(f) ELSE f
    <2>1. chan[c] \in ChannelFields /\ chan[c].fd \in Fds
        BY <1>1, <1>2, FieldTypes
    <2>2. f \in Int
        BY <1>2, PollerAssumption
    <2> QED BY <1>1, <1>4, <2>1, <2>2, EntryFields
<1>6. PICK z : z = [pollfds[i] EXCEPT !.events = es, !.fd = IF es = {} THEN Ignored(f) ELSE @]
    OBVIOUS
<1>7. /\ channelAt' = [channelAt EXCEPT ![f] = @]
      /\ pollfds' = [pollfds EXCEPT ![i].events = es, ![i].fd = IF es = {} THEN Ignored(f) ELSE @]
      /\ chan' = [chan EXCEPT ![c].events = es, ![c].index = @, ![c].added = TRUE]
      /\ broken' = (broken \/ channelAt[f] # c \/ i \notin DOMAIN pollfds \/ pollfds[i].fd \notin {f, Ignored(f)})
      /\ epollSet' = epollSet
    BY <1>1, <1>3, <1>4 DEF PollUpdate
<1>8. broken' = FALSE
    <2>1. pollfds[i].fd \in {f, Ignored(f)}
        BY <1>5
    <2>2. broken = FALSE
        BY DEF PollerTypeOK
    <2>3. ~(broken \/ channelAt[f] # c \/ i \notin DOMAIN pollfds \/ pollfds[i].fd \notin {f, Ignored(f)})
        BY <1>2, <1>3, <2>1, <2>2
    <2> QED BY <1>7, <2>3
<1>9. pollfds \in Seq(PollFields) /\ pollfds[i] \in PollFields
    <2>1. pollfds \in Seq(PollFields)
        BY DEF PollerTypeOK, PollFields
    <2> QED BY <1>3, <2>1
<1>10. chan \in [Channels -> ChannelFields] /\ channelAt \in [Fds -> Channels \cup {NoChannel}]
    BY DEF PollerTypeOK, ChannelFields
<1>11. /\ chan' \in [Channels -> ChannelFields]
       /\ chan'[c].fd = f /\ chan'[c].events = es /\ chan'[c].index = n /\ chan'[c].added
       /\ \A d \in Channels : d # c => chan'[d] = chan[d]
    <2>1. chan[c] \in ChannelFields
        BY <1>10
    <2>2. PICK y : y = [chan[c] EXCEPT !.events = es, !.index = n, !.added = TRUE]
        OBVIOUS
    <2>3. y.fd = chan[c].fd /\ y.events = es /\ y.index = n /\ y.added
        BY <2>1, <2>2 DEF ChannelFields
    <2>4. y \in ChannelFields
        BY <2>1, <2>2 DEF ChannelFields
    <2>5. chan' = [chan EXCEPT ![c] = y]
        BY <1>4, <1>7, <1>10, <2>1, <2>2 DEF ChannelFields
    <2>6. chan'[c] = y /\ chan' \in [Channels -> ChannelFields]
        BY <1>10, <2>4, <2>5
    <2>7. \A d \in Channels : d # c => chan'[d] = chan[d]
        BY <1>10, <2>5
    <2> QED BY <1>1, <2>3, <2>6, <2>7
<1>12. channelAt' = channelAt
    BY <1>7, <1>10
<1>13. z = [fd |-> IF es = {} THEN Ignored(f) ELSE f, events |-> es] /\ z \in PollFields
    <2>1. z = [fd |-> IF es = {} THEN Ignored(f) ELSE pollfds[i].fd, events |-> es]
        BY <1>6, <1>9 DEF PollFields
    <2>2. es # {} => pollfds[i].fd = f
        BY <1>5
    <2>3. z = [fd |-> IF es = {} THEN Ignored(f) ELSE f, events |-> es]
        BY <2>1, <2>2
    <2> QED BY <1>5, <2>3 DEF PollFields
<1>14. /\ pollfds' \in Seq(PollFields) /\ DOMAIN pollfds' = DOMAIN pollfds
       /\ pollfds'[i] = z
       /\ \A j \in DOMAIN pollfds : j # i => pollfds'[j] = pollfds[j]
    <2>1. pollfds' = [pollfds EXCEPT ![i] = z]
        BY <1>3, <1>6, <1>7, <1>9 DEF PollFields
    <2> QED BY <1>3, <1>9, <1>13, <2>1
<1>15. PollerTypeOK'
    BY <1>7, <1>8, <1>11, <1>10, <1>12, <1>14 DEF PollerTypeOK, ChannelFields, PollFields
<1>16. OwnFd' /\ FoundAt'
    <2>1. \A d \in Channels : chan'[d].fd = chan[d].fd
        BY <1>1, <1>11
    <2> QED BY <1>1, <1>2, <1>11, <1>12, <2>1, OneChannelStep
<1>17. PollOK(c, chan'[c], channelAt'[f], pollfds')
    <2>1. Entry(chan'[c]) = z
        BY <1>11, <1>13 DEF Entry
    <2>2. chan'[c].index + 1 \in DOMAIN pollfds' /\ pollfds'[chan'[c].index + 1] = z
        BY <1>3, <1>4, <1>11, <1>14
    <2> QED BY <1>2, <1>11, <1>12, <2>1, <2>2 DEF PollOK
<1>18. \A d \in Channels : chan'[d].added = chan[d].added /\ chan'[d].index = chan[d].index
    <2> SUFFICES ASSUME NEW d \in Channels
                 PROVE  chan'[d].added = chan[d].added /\ chan'[d].index = chan[d].index
        OBVIOUS
    <2>1. CASE d = c
        BY <1>4, <1>11, <1>10, <2>1 DEF ChannelFields
    <2> QED BY <1>11, <2>1
<1>19. \A d, e \in Channels : chan'[d].added /\ chan'[e].added /\ chan'[d].index = chan'[e].index => d = e
    BY <1>18 DEF PollInv
<1>20. \A d \in Channels : IsDead(chan'[d]) \/ PollOK(d, chan'[d], channelAt'[chan'[d].fd], pollfds')
    <2> SUFFICES ASSUME NEW d \in Channels, d # c, ~IsDead(chan[d])
                 PROVE  PollOK(d, chan[d], channelAt[chan[d].fd], pollfds')
        BY <1>11, <1>12, <1>17
    <2>1. PollOK(d, chan[d], channelAt[chan[d].fd], pollfds)
        BY DEF PollInv
    <2>2. CASE IsOut(chan[d], channelAt[chan[d].fd])
        BY <2>2 DEF PollOK
    <2>3. CASE chan[d].added
        <3>1. chan[d].index # chan[c].index
            BY <2>3 DEF PollInv
        <3>2. chan[d].index \in Int /\ chan[d].index + 1 \in DOMAIN pollfds
            BY <2>3, AddedPollfd
        <3>3. chan[d].index + 1 # i
            BY <1>2, <1>3, <3>1, <3>2
        <3>4. pollfds'[chan[d].index + 1] = pollfds[chan[d].index + 1] /\ chan[d].index + 1 \in DOMAIN pollfds'
            BY <1>14, <3>2, <3>3
        <3> QED BY <2>1, <2>3, <3>4 DEF PollOK, IsOut
    <2> QED BY <2>1, <2>2, <2>3 DEF PollOK
<1>21. \A j \in DOMAIN pollfds' : \E d \in Channels : chan'[d].added /\ chan'[d].index + 1 = j
    BY <1>14, <1>18 DEF PollInv
<1> QED BY <1>7, <1>15, <1>16, <1>19, <1>20, <1>21 DEF PollInv

(* PollPoller::removeChannel finds the Channel of the last pollfd, which   *)
(* is the one that goes or takes its place.                                *)
LEMMA LastPollfd ==
    ASSUME PollerTypeOK, PollInv, NEW c \in Channels, chan[c].added
    PROVE  \E o \in Channels : /\ chan[o].added /\ chan[o].index + 1 = Len(pollfds)
                              /\ pollfds[Len(pollfds)] = Entry(chan[o])
                              /\ MovedChannel(chan[c].index + 1) = {o} \ {c}
<1>1. PICK n \in Nat : n = Len(pollfds) /\ DOMAIN pollfds = 1..n
    BY DEF PollerTypeOK
<1>2. chan[c].index \in Int /\ chan[c].index + 1 \in 1..n
    BY <1>1, AddedPollfd
<1>3. n \in DOMAIN pollfds
    BY <1>1, <1>2
<1>4. PICK o \in Channels : chan[o].added /\ chan[o].index + 1 = n
    BY <1>3 DEF PollInv
<1>5. chan[o].fd \in Fds /\ channelAt[chan[o].fd] = o /\ chan[o].index \in Int /\ pollfds[n] = Entry(chan[o])
    BY <1>4, AddedPollfd
<1>6. (IF pollfds[n].fd < 0 THEN Ignored(pollfds[n].fd) ELSE pollfds[n].fd) = chan[o].fd
    <2>1. chan[o] \in ChannelFields
        BY FieldTypes
    <2>2. PICK g \in Int : g = chan[o].fd /\ g >= 0 /\ Ignored(g) \in Int /\ Ignored(g) < 0 /\ Ignored(Ignored(g)) = g
        <3>1. chan[o].fd \in Int
            BY <1>5, <2>1, EntryFields
        <3>2. chan[o].fd >= 0 /\ Ignored(chan[o].fd) \in Int /\ Ignored(chan[o].fd) < 0 /\ Ignored(Ignored(chan[o].fd)) = chan[o].fd
            BY <1>5, <2>1, EntryFields
        <3> QED BY <3>1, <3>2
    <2>3. pollfds[n].fd = g \/ pollfds[n].fd = Ignored(g)
        BY <1>5, <2>1, <2>2, EntryFields
    <2>4. CASE pollfds[n].fd = g
        BY <2>2, <2>4
    <2>5. CASE pollfds[n].fd = Ignored(g)
        BY <2>2, <2>5
    <2> QED BY <2>3, <2>4, <2>5
<1>7. MovedChannel(chan[c].index + 1) = IF chan[c].index + 1 = n THEN {} ELSE {o}
    BY <1>1, <1>5, <1>6 DEF MovedChannel
<1>8. chan[c].index + 1 = n <=> o = c
    <2>1. chan[c].index + 1 = n => chan[c].index = chan[o].index
        BY <1>2, <1>4, <1>5
    <2> QED BY <1>4, <2>1 DEF PollInv
<1>9. MovedChannel(chan[c].index + 1) = {o} \ {c}
    BY <1>7, <1>8
<1> QED BY <1>1, <1>4, <1>5, <1>9

(* PollPoller::removeChannel. *)
LEMMA PollRemoveStep ==
    ASSUME PollerTypeOK, OwnFd, FoundAt, PollInv, NEW c \in Channels, chan[c].added, chan[c].events = {},
           PollRemove(c)
    PROVE  (PollerTypeOK /\ OwnFd /\ FoundAt /\ PollInv)'
<1>1. PICK f : f = chan[c].fd
    OBVIOUS
<1>2. /\ f \in Fds /\ c # NoChannel /\ chan[c].fd # NoFd /\ f # NoFd /\ channelAt[f] = c
      /\ chan[c].index \in Int
      /\ chan[c].index + 1 \in DOMAIN pollfds /\ pollfds[chan[c].index + 1] = Entry(chan[c])
    BY <1>1, AddedPollfd, FieldTypes
<1>3. PICK n \in Nat : n = Len(pollfds) /\ DOMAIN pollfds = 1..n
    BY DEF PollerTypeOK
<1>4. PICK i \in 1..n : i = chan[c].index + 1
    BY <1>2, <1>3
<1>5. PICK o \in Channels : /\ chan[o].added /\ chan[o].index + 1 = n /\ pollfds[n] = Entry(chan[o])
                            /\ MovedChannel(i) = {o} \ {c}
    BY <1>3, <1>4, LastPollfd
<1>6. pollfds[i] = [fd |-> Ignored(f), events |-> {}]
    BY <1>1, <1>2, <1>4 DEF Entry
<1>7. /\ channelAt' = [channelAt EXCEPT ![f] = NoChannel]
      /\ broken' = (broken \/ pollfds[i] # [fd |-> Ignored(f), events |-> {}])
      /\ pollfds' = SubSeq([pollfds EXCEPT ![i] = pollfds[n]], 1, n - 1)
      /\ chan' = [d \in Channels |->
                    IF d = c THEN [chan[c] EXCEPT !.added = FALSE]
                    ELSE IF d \in MovedChannel(i) THEN [chan[d] EXCEPT !.index = i - 1]
                    ELSE chan[d]]
      /\ epollSet' = epollSet
    <2>1. channelAt[f] = c /\ i \in DOMAIN pollfds
        BY <1>2, <1>3
    <2> QED BY <1>1, <1>3, <1>4, <2>1 DEF PollRemove
<1>8. broken' = FALSE
    BY <1>6, <1>7 DEF PollerTypeOK
<1>9. pollfds \in Seq(PollFields)
    BY DEF PollerTypeOK, PollFields
<1>10. chan \in [Channels -> ChannelFields] /\ channelAt \in [Fds -> Channels \cup {NoChannel}]
    BY DEF PollerTypeOK, ChannelFields
<1>11. /\ chan'[c].fd = f /\ chan'[c].events = {} /\ ~chan'[c].added /\ chan'[c] \in ChannelFields
    <2>1. chan[c] \in ChannelFields
        BY <1>10
    <2>2. chan'[c] = [chan[c] EXCEPT !.added = FALSE]
        BY <1>7
    <2> QED BY <1>1, <2>1, <2>2 DEF ChannelFields
<1>12. o # c => /\ chan'[o].fd = chan[o].fd /\ chan'[o].events = chan[o].events /\ chan'[o].added
               /\ chan'[o].index = i - 1 /\ chan'[o] \in ChannelFields
    <2> SUFFICES ASSUME o # c
                 PROVE  /\ chan'[o].fd = chan[o].fd /\ chan'[o].events = chan[o].events /\ chan'[o].added
                        /\ chan'[o].index = i - 1 /\ chan'[o] \in ChannelFields
        OBVIOUS
    <2>1. chan[o] \in ChannelFields
        BY <1>10
    <2>2. PICK k \in Int : k = i - 1
        BY <1>4
    <2>3. o \in MovedChannel(i)
        BY <1>5
    <2>4. chan'[o] = [chan[o] EXCEPT !.index = k]
        BY <1>7, <2>2, <2>3
    <2>5. chan'[o].fd = chan[o].fd /\ chan'[o].events = chan[o].events /\ chan'[o].index = k
        BY <2>1, <2>4 DEF ChannelFields
    <2>6. chan'[o].added = chan[o].added /\ chan'[o] \in ChannelFields
        BY <2>1, <2>2, <2>4 DEF ChannelFields
    <2> QED BY <1>5, <2>2, <2>5, <2>6
<1>13. \A d \in Channels : d # c /\ d # o => chan'[d] = chan[d]
    BY <1>5, <1>7
<1>14. chan' \in [Channels -> ChannelFields]
    <2>1. \A d \in Channels : chan'[d] \in ChannelFields
        BY <1>10, <1>11, <1>12, <1>13
    <2>2. PICK F : chan' = [d \in Channels |-> F[d]]
        <3>1. chan' = [d \in Channels |-> chan'[d]]
            BY <1>7
        <3> QED BY <3>1
    <2> QED BY <2>1, <2>2
<1>15. /\ channelAt' \in [Fds -> Channels \cup {NoChannel}] /\ channelAt'[f] = NoChannel
       /\ \A g \in Fds : g # f => channelAt'[g] = channelAt[g]
    BY <1>2, <1>7, <1>10
<1>16. /\ pollfds' \in Seq(PollFields) /\ DOMAIN pollfds' = 1..(n - 1)
       /\ \A j \in 1..(n - 1) : pollfds'[j] = IF j = i THEN pollfds[n] ELSE pollfds[j]
    <2>1. PICK q : q = [pollfds EXCEPT ![i] = pollfds[n]]
        OBVIOUS
    <2>2. pollfds[n] \in PollFields /\ n \in 1..n
        BY <1>3, <1>9
    <2>3. q \in Seq(PollFields) /\ Len(q) = n
        BY <1>3, <1>9, <2>1, <2>2
    <2>4. \A j \in 1..n : q[j] = IF j = i THEN pollfds[n] ELSE pollfds[j]
        BY <1>3, <1>9, <2>1
    <2>5. pollfds' = SubSeq(q, 1, n - 1)
        BY <1>7, <2>1
    <2>6. n - 1 \in Nat /\ n - 1 <= n
        BY <2>2
    <2>7. Len(pollfds') = n - 1 /\ pollfds' \in Seq(PollFields)
        BY <2>3, <2>5, <2>6
    <2>8. \A j \in 1..(n - 1) : pollfds'[j] = q[j]
        BY <2>3, <2>5, <2>6
    <2> QED BY <2>4, <2>6, <2>7, <2>8
<1>17. PollerTypeOK'
    BY <1>7, <1>8, <1>14, <1>15, <1>16 DEF PollerTypeOK, ChannelFields, PollFields
<1>18. /\ OwnFd' /\ FoundAt'
       /\ \A d \in Channels : d # c /\ chan[d].fd # NoFd =>
             chan[d].fd \in Fds /\ chan[d].fd # f /\ channelAt'[chan[d].fd] = channelAt[chan[d].fd]
    <2>1. \A d \in Channels : chan'[d].fd = chan[d].fd
        BY <1>1, <1>11, <1>12, <1>13
    <2>2. \A d \in Channels : d # c => chan'[d].added = chan[d].added
        BY <1>5, <1>10, <1>12, <1>13, <1>14 DEF ChannelFields
    <2> QED BY <1>1, <1>2, <1>15, <2>1, <2>2, OneChannelStep
<1>19. /\ chan[o].index \in Int /\ chan[c].index \in Int /\ (o # c => i # n)
       /\ \A d \in Channels : chan[d].added /\ d # c /\ d # o =>
             chan[d].index \in Int /\ chan[d].index + 1 \in 1..(n - 1) /\ chan[d].index + 1 # i
    <2>1. chan[o].index \in Int /\ chan[c].index \in Int
        BY FieldTypes
    <2>2. o # c => i # n
        <3>1. o # c => chan[o].index # chan[c].index
            BY <1>5 DEF PollInv
        <3> QED BY <1>4, <1>5, <2>1, <3>1
    <2>3. ASSUME NEW d \in Channels, chan[d].added, d # c, d # o
          PROVE  chan[d].index \in Int /\ chan[d].index + 1 \in 1..(n - 1) /\ chan[d].index + 1 # i
        <3>1. chan[d].index # chan[o].index /\ chan[d].index # chan[c].index
            BY <1>5, <2>3 DEF PollInv
        <3>2. chan[d].index \in Int /\ chan[d].index >= 0 /\ chan[d].index < n
            BY <1>3, <2>3, AddedPollfd
        <3> QED BY <1>4, <1>5, <2>1, <3>1, <3>2
    <2> QED BY <2>1, <2>2, <2>3
<1>20. PollOK(c, chan'[c], channelAt'[f], pollfds')
    BY <1>2, <1>11, <1>15 DEF PollOK, IsOut
<1>21. o # c => i \in 1..(n - 1) /\ chan'[o].index + 1 = i
    BY <1>4, <1>12, <1>19
<1>22. o # c => PollOK(o, chan'[o], channelAt'[chan'[o].fd], pollfds')
    <2> SUFFICES ASSUME o # c
                 PROVE  PollOK(o, chan'[o], channelAt'[chan'[o].fd], pollfds')
        OBVIOUS
    <2>1. chan[o].fd \in Fds /\ channelAt[chan[o].fd] = o /\ chan[o].fd # NoFd
        BY <1>5, AddedPollfd, FieldTypes
    <2>2. Entry(chan'[o]) = Entry(chan[o])
        BY <1>12 DEF Entry
    <2>3. i \in DOMAIN pollfds' /\ pollfds'[i] = Entry(chan[o])
        BY <1>5, <1>16, <1>21
    <2> QED BY <1>12, <1>18, <1>21, <2>1, <2>2, <2>3 DEF PollOK
<1>23. \A d \in Channels : IsDead(chan'[d]) \/ PollOK(d, chan'[d], channelAt'[chan'[d].fd], pollfds')
    <2> SUFFICES ASSUME NEW d \in Channels, d # c, d # o, ~IsDead(chan[d])
                 PROVE  PollOK(d, chan[d], channelAt'[chan[d].fd], pollfds')
        BY <1>11, <1>13, <1>20, <1>22
    <2>1. PollOK(d, chan[d], channelAt[chan[d].fd], pollfds)
        BY DEF PollInv
    <2>2. chan[d].fd # NoFd
        BY <2>1 DEF PollOK, IsOut
    <2>3. channelAt'[chan[d].fd] = channelAt[chan[d].fd]
        BY <1>18, <2>2
    <2>4. CASE IsOut(chan[d], channelAt[chan[d].fd])
        BY <2>3, <2>4 DEF PollOK
    <2>5. CASE chan[d].added
        <3>1. pollfds'[chan[d].index + 1] = pollfds[chan[d].index + 1] /\ chan[d].index + 1 \in DOMAIN pollfds'
            BY <1>16, <1>19, <2>5
        <3> QED BY <2>1, <2>2, <2>3, <2>5, <3>1 DEF PollOK, IsOut
    <2> QED BY <2>1, <2>4, <2>5 DEF PollOK
<1>24. \A d, e \in Channels : chan'[d].added /\ chan'[e].added /\ chan'[d].index = chan'[e].index => d = e
    <2> SUFFICES ASSUME NEW d \in Channels, NEW e \in Channels, d # c, e # c, chan'[d].added, chan'[e].added,
                        chan'[d].index = chan'[e].index
                 PROVE  d = e
        BY <1>11
    <2>1. CASE d # o /\ e # o
        BY <1>13, <2>1 DEF PollInv
    <2>2. CASE d = o /\ e # o
        BY <1>13, <1>19, <1>21, <2>2
    <2>3. CASE d # o /\ e = o
        BY <1>13, <1>19, <1>21, <2>3
    <2> QED BY <2>1, <2>2, <2>3
<1>25. \A j \in DOMAIN pollfds' : \E d \in Channels : chan'[d].added /\ chan'[d].index + 1 = j
    <2> SUFFICES ASSUME NEW j \in 1..(n - 1)
                 PROVE  \E d \in Channels : chan'[d].added /\ chan'[d].index + 1 = j
        BY <1>16
    <2>1. j \in DOMAIN pollfds /\ j # n
        BY <1>3
    <2>2. PICK d \in Channels : chan[d].added /\ chan[d].index + 1 = j
        BY <2>1 DEF PollInv
    <2>3. d # o
        BY <1>5, <2>1, <2>2
    <2>4. CASE d # c
        BY <1>13, <2>2, <2>3, <2>4
    <2>5. CASE d = c
        <3>1. o # c /\ j = i
            BY <1>4, <2>2, <2>3, <2>5
        <3> QED BY <1>12, <1>21, <3>1
    <2> QED BY <2>4, <2>5
<1> QED BY <1>7, <1>17, <1>18, <1>23, <1>24, <1>25 DEF PollInv

(* A Channel that is not added does not exist or is out of channels_. *)
LEMMA NotAdded ==
    ASSUME EpollInv \/ PollInv, NEW c \in Channels
    PROVE  /\ IsDead(chan[c]) \/ chan[c].fd # NoFd
           /\ ~chan[c].added => IsDead(chan[c]) \/ IsOut(chan[c], channelAt[chan[c].fd])
<1>1. CASE EpollInv
    BY <1>1 DEF EpollInv, EpollOK, IsOut
<1>2. CASE PollInv
    BY <1>2 DEF PollInv, PollOK, IsOut
<1> QED BY <1>1, <1>2

(* A Channel is made. *)
LEMMA NewChannelStep ==
    ASSUME PollerTypeOK, OwnFd, FoundAt, EpollInv \/ PollInv, NEW c \in Channels, NEW f \in Fds, NewChannel(c, f)
    PROVE  (PollerTypeOK /\ OwnFd /\ FoundAt)' /\ (EpollInv => EpollInv') /\ (PollInv => PollInv')
<1>1. /\ chan' = [chan EXCEPT ![c] = [Dead EXCEPT !.fd = f]] /\ \A d \in Channels : chan[d].fd # f
      /\ channelAt' = channelAt /\ epollSet' = epollSet /\ pollfds' = pollfds /\ broken' = broken
      /\ chan[c].fd = NoFd
    BY DEF NewChannel, Live
<1>2. PICK y : y = [Dead EXCEPT !.fd = f]
    OBVIOUS
<1>3. y.fd = f /\ y.events = {} /\ y.index = kNew /\ ~y.added /\ y \in ChannelFields /\ f # NoFd
    <2>1. kNew \in Int /\ {} \in SUBSET Event /\ FALSE \in BOOLEAN
        BY DEF kNew
    <2>2. y = [fd |-> f, events |-> {}, index |-> kNew, added |-> FALSE]
        BY <1>2 DEF Dead
    <2>3. y \in ChannelFields
        BY <2>1, <2>2 DEF ChannelFields
    <2> QED BY <2>2, <2>3, FieldTypes
<1>4. chan \in [Channels -> ChannelFields]
    BY DEF PollerTypeOK, ChannelFields
<1>5. chan' \in [Channels -> ChannelFields] /\ chan'[c] = y /\ \A d \in Channels : d # c => chan'[d] = chan[d]
    BY <1>1, <1>2, <1>3, <1>4
<1>6. IsDead(chan[c]) /\ ~chan[c].added
    BY <1>1, NotAdded DEF IsDead
<1>7. channelAt[f] = NoChannel
    BY <1>1 DEF FoundAt, PollerTypeOK
<1>8. PollerTypeOK'
    BY <1>1, <1>5 DEF PollerTypeOK, ChannelFields
<1>9. OwnFd'
    BY <1>1, <1>3, <1>5 DEF OwnFd
<1>10. FoundAt'
    <2> SUFFICES ASSUME NEW g \in Fds, channelAt[g] # NoChannel
                 PROVE  chan'[channelAt[g]].fd = g /\ chan'[channelAt[g]].added
        BY <1>1 DEF FoundAt
    <2>1. channelAt[g] \in Channels /\ chan[channelAt[g]].fd = g /\ chan[channelAt[g]].added
        BY DEF FoundAt, PollerTypeOK
    <2> QED BY <1>5, <1>6, <2>1
<1>11. IsOut(chan'[c], channelAt[f])
    BY <1>3, <1>5, <1>7 DEF IsOut
<1>12. EpollInv => EpollInv'
    <2> SUFFICES ASSUME EpollInv
                 PROVE  EpollInv'
        OBVIOUS
    <2>1. ~epollSet[f].watched /\ epollSet[f].events = {}
        BY <1>1 DEF EpollInv
    <2>2. EpollOK(c, chan'[c], channelAt[f], epollSet[f])
        BY <1>3, <1>5, <1>11, <2>1 DEF EpollOK
    <2>3. \A d \in Channels : IsDead(chan'[d]) \/ EpollOK(d, chan'[d], channelAt[chan'[d].fd], epollSet[chan'[d].fd])
        BY <1>3, <1>5, <2>2 DEF EpollInv
    <2>4. \A g \in Fds : (\A d \in Channels : chan'[d].fd # g) => (\A d \in Channels : chan[d].fd # g)
        BY <1>1, <1>5, FieldTypes
    <2>5. \A g \in Fds : (\A d \in Channels : chan'[d].fd # g) => ~epollSet[g].watched /\ epollSet[g].events = {}
        BY <2>4 DEF EpollInv
    <2> QED BY <1>1, <2>3, <2>5 DEF EpollInv
<1>13. PollInv => PollInv'
    <2> SUFFICES ASSUME PollInv
                 PROVE  PollInv'
        OBVIOUS
    <2>1. PollOK(c, chan'[c], channelAt[f], pollfds)
        BY <1>11 DEF PollOK
    <2>2. \A d \in Channels : IsDead(chan'[d]) \/ PollOK(d, chan'[d], channelAt[chan'[d].fd], pollfds)
        BY <1>3, <1>5, <2>1 DEF PollInv
    <2>3. \A d, e \in Channels : chan'[d].added /\ chan'[e].added /\ chan'[d].index = chan'[e].index => d = e
        BY <1>3, <1>5 DEF PollInv
    <2>4. \A i \in DOMAIN pollfds : \E d \in Channels : chan'[d].added /\ chan'[d].index + 1 = i
        BY <1>5, <1>6 DEF PollInv
    <2> QED BY <1>1, <2>2, <2>3, <2>4 DEF PollInv
<1> QED BY <1>8, <1>9, <1>10, <1>12, <1>13

(* A Channel that is not added goes, and its descriptor with it or not. *)
LEMMA ChannelGone ==
    ASSUME PollerTypeOK, OwnFd, FoundAt, EpollInv \/ PollInv, NEW c \in Channels, Live(c), ~chan[c].added,
           chan' = [chan EXCEPT ![c] = Dead], channelAt' = channelAt, pollfds' = pollfds,
           epollSet' = epollSet \/ epollSet' = [epollSet EXCEPT ![chan[c].fd] = Unwatched],
           broken' = broken \/ broken' = (broken \/ channelAt[chan[c].fd] = c)
    PROVE  (PollerTypeOK /\ OwnFd /\ FoundAt)' /\ (EpollInv => EpollInv') /\ (PollInv => PollInv')
<1>1. PICK f : f = chan[c].fd
    OBVIOUS
<1>2. /\ chan' = [chan EXCEPT ![c] = Dead] /\ channelAt' = channelAt /\ pollfds' = pollfds
      /\ ~chan[c].added /\ f # NoFd
    BY <1>1 DEF Live
<1>3. f \in Fds /\ c # NoChannel
    BY <1>1, <1>2, FieldTypes
<1>4. IsDead(Dead) /\ ~Dead.added /\ Dead.fd = NoFd /\ Dead \in ChannelFields
    <2>1. kNew \in Int /\ {} \in SUBSET Event /\ FALSE \in BOOLEAN
        BY DEF kNew
    <2> QED BY <2>1 DEF Dead, IsDead, ChannelFields
<1>5. chan \in [Channels -> ChannelFields] /\ epollSet \in [Fds -> KernelFields]
    BY DEF PollerTypeOK, ChannelFields, KernelFields
<1>6. chan' \in [Channels -> ChannelFields] /\ chan'[c] = Dead /\ \A d \in Channels : d # c => chan'[d] = chan[d]
    BY <1>2, <1>4, <1>5
<1>7. channelAt[f] = NoChannel
    BY <1>1, <1>2, NotAdded DEF IsDead, IsOut
<1>8. broken' = FALSE
    BY <1>1, <1>3, <1>7 DEF PollerTypeOK
<1>9. /\ epollSet' \in [Fds -> KernelFields]
      /\ ~epollSet'[f].watched /\ (EpollInv => epollSet'[f].events = {})
      /\ \A g \in Fds : g # f => epollSet'[g] = epollSet[g]
    <2>1. CASE epollSet' = epollSet
        <3>1. EpollInv => ~epollSet[f].watched /\ epollSet[f].events = {}
            BY <1>1, <1>2 DEF EpollInv, EpollOK, IsDead
        <3>2. PollInv => ~epollSet[f].watched
            BY <1>3 DEF PollInv
        <3> QED BY <1>5, <2>1, <3>1, <3>2
    <2>2. CASE epollSet' = [epollSet EXCEPT ![f] = Unwatched]
        <3>1. Unwatched \in KernelFields /\ ~Unwatched.watched /\ Unwatched.events = {}
            BY DEF Unwatched, KernelFields
        <3>2. epollSet'[f] = Unwatched
            BY <1>3, <1>5, <2>2
        <3> QED BY <1>5, <2>2, <3>1, <3>2
    <2> QED BY <1>1, <2>1, <2>2
<1>10. PollerTypeOK'
    BY <1>2, <1>6, <1>8, <1>9 DEF PollerTypeOK, ChannelFields, KernelFields
<1>11. OwnFd'
    BY <1>4, <1>6 DEF OwnFd
<1>12. FoundAt'
    <2> SUFFICES ASSUME NEW g \in Fds, channelAt[g] # NoChannel
                 PROVE  chan'[channelAt[g]].fd = g /\ chan'[channelAt[g]].added
        BY <1>2 DEF FoundAt
    <2>1. channelAt[g] \in Channels /\ chan[channelAt[g]].fd = g /\ chan[channelAt[g]].added
        BY DEF FoundAt, PollerTypeOK
    <2> QED BY <1>2, <1>6, <2>1
<1>13. EpollInv => EpollInv'
    <2> SUFFICES ASSUME EpollInv
                 PROVE  EpollInv'
        OBVIOUS
    <2>1. \A d \in Channels : IsDead(chan'[d]) \/ EpollOK(d, chan'[d], channelAt[chan'[d].fd], epollSet'[chan'[d].fd])
        <3> SUFFICES ASSUME NEW d \in Channels, d # c, ~IsDead(chan[d])
                     PROVE  EpollOK(d, chan[d], channelAt[chan[d].fd], epollSet'[chan[d].fd])
            BY <1>4, <1>6
        <3>1. EpollOK(d, chan[d], channelAt[chan[d].fd], epollSet[chan[d].fd])
            BY DEF EpollInv
        <3>2. chan[d].fd \in Fds /\ chan[d].fd # f
            BY <1>1, <1>2, <3>1, FieldTypes DEF EpollOK, IsOut, OwnFd
        <3> QED BY <1>9, <3>1, <3>2
    <2>2. \A g \in Fds : (\A d \in Channels : chan'[d].fd # g) => ~epollSet'[g].watched /\ epollSet'[g].events = {}
        BY <1>1, <1>6, <1>9 DEF EpollInv
    <2> QED BY <1>2, <2>1, <2>2 DEF EpollInv
<1>14. PollInv => PollInv'
    <2> SUFFICES ASSUME PollInv
                 PROVE  PollInv'
        OBVIOUS
    <2>1. \A d \in Channels : IsDead(chan'[d]) \/ PollOK(d, chan'[d], channelAt[chan'[d].fd], pollfds)
        BY <1>4, <1>6 DEF PollInv
    <2>2. \A d, e \in Channels : chan'[d].added /\ chan'[e].added /\ chan'[d].index = chan'[e].index => d = e
        BY <1>4, <1>6 DEF PollInv
    <2>3. \A i \in DOMAIN pollfds : \E d \in Channels : chan'[d].added /\ chan'[d].index + 1 = i
        BY <1>2, <1>6 DEF PollInv
    <2>4. \A g \in Fds : ~epollSet'[g].watched
        BY <1>9 DEF PollInv
    <2> QED BY <1>2, <2>1, <2>2, <2>3, <2>4 DEF PollInv
<1> QED BY <1>10, <1>11, <1>12, <1>13, <1>14

(* The Channels keep their descriptors when events or index_ change. *)
LEMMA DescriptorsKept ==
    ASSUME PollerTypeOK, NEW c \in Channels,
           \/ \E es : EPollUpdate(c, es) \/ PollUpdate(c, es)
           \/ EPollRemove(c)
           \/ PollRemove(c)
    PROVE  \A d \in Channels : chan'[d].fd = chan[d].fd
<1> SUFFICES ASSUME NEW d \in Channels
             PROVE  chan'[d].fd = chan[d].fd
    OBVIOUS
<1>1. chan \in [Channels -> ChannelFields] /\ chan[c] \in ChannelFields /\ chan[d] \in ChannelFields
    BY DEF PollerTypeOK, ChannelFields
<1>2. ASSUME NEW es, NEW i, chan' = [chan EXCEPT ![c].events = es, ![c].index = i, ![c].added = TRUE]
      PROVE  chan'[d].fd = chan[d].fd
    BY <1>1, <1>2 DEF ChannelFields
<1>3. ASSUME NEW es, EPollUpdate(c, es)
      PROVE  chan'[d].fd = chan[d].fd
    BY <1>2, <1>3 DEF EPollUpdate
<1>4. ASSUME NEW es, PollUpdate(c, es)
      PROVE  chan'[d].fd = chan[d].fd
    <2>1. PICK i : chan' = [chan EXCEPT ![c].events = es, ![c].index = i, ![c].added = TRUE]
        BY <1>4 DEF PollUpdate
    <2> QED BY <1>2, <2>1
<1>5. CASE EPollRemove(c)
    BY <1>1, <1>5 DEF EPollRemove, ChannelFields
<1>6. CASE PollRemove(c)
    <2>1. PICK i : \/ chan'[d] = [chan[d] EXCEPT !.added = FALSE]
                   \/ chan'[d] = [chan[d] EXCEPT !.index = i]
                   \/ chan'[d] = chan[d]
        BY <1>6 DEF PollRemove
    <2> QED BY <1>1, <2>1 DEF ChannelFields
<1> QED BY <1>3, <1>4, <1>5, <1>6

(* Every step leaves a Channel whose descriptor was handed over without    *)
(* one, and what it does with its old one breaks nothing.                  *)
LEMMA HandedStep ==
    ASSUME PollerTypeOK, FoundAt, HandedInv, PollerNext
    PROVE  HandedInv' /\ (\A c \in Channels : ResetHanded(c) => broken' = FALSE)
<1>1. PICK c \in Channels : \/ \E f \in Fds : NewChannel(c, f)
                            \/ \E e \in Event : Enable(c, e)
                            \/ \E es \in SUBSET Event : Disable(c, es)
                            \/ Remove(c)
                            \/ Destroy(c)
                            \/ HandOver(c)
                            \/ ResetHanded(c)
    BY DEF PollerNext
<1>2. chan \in [Channels -> ChannelFields] /\ Dead.fd = NoFd /\ handed \in [Channels -> Fds \cup {NoFd}]
    BY DEF PollerTypeOK, ChannelFields, Dead, HandedInv
<1>3. ASSUME NEW f \in Fds, NewChannel(c, f)
      PROVE  HandedInv'
    BY <1>2, <1>3 DEF NewChannel, HandedInv
<1>4. ASSUME (\E e \in Event : Enable(c, e)) \/ (\E es \in SUBSET Event : Disable(c, es)) \/ Remove(c)
      PROVE  HandedInv'
    <2>1. handed' = handed
        BY <1>4 DEF Enable, Disable, Remove
    <2>2. \A d \in Channels : chan'[d].fd = chan[d].fd
        BY <1>4, DescriptorsKept DEF Enable, Disable, Remove, Update
    <2> QED BY <2>1, <2>2 DEF HandedInv
<1>5. ASSUME Destroy(c) PROVE HandedInv'
    BY <1>2, <1>5 DEF Destroy, HandedInv
<1>6. ASSUME HandOver(c) PROVE HandedInv'
    <2>1. chan[c].fd \in Fds \cup {NoFd}
        BY FieldTypes
    <2> QED BY <1>2, <1>6, <2>1 DEF HandOver, HandedInv
<1>7. ASSUME ResetHanded(c) PROVE HandedInv'
    BY <1>2, <1>7 DEF ResetHanded, HandedInv
<1>8. ASSUME NEW d \in Channels, ResetHanded(d)
      PROVE  broken' = FALSE
    <2>1. handed[d] \in Fds /\ chan[d].fd = NoFd /\ NoFd \notin Fds /\ d # NoChannel
        BY <1>2, <1>8, FieldTypes DEF ResetHanded, HandedInv
    <2>2. channelAt[handed[d]] # d
        BY <2>1 DEF FoundAt
    <2> QED BY <1>8, <2>2 DEF ResetHanded, PollerTypeOK
<1> QED BY <1>1, <1>3, <1>4, <1>5, <1>6, <1>7, <1>8

(* The steps that end a Channel. *)
LEMMA EndStep ==
    ASSUME PollerTypeOK, OwnFd, FoundAt, HandedInv, EpollInv \/ PollInv, NEW c \in Channels, PollerNext,
           Destroy(c) \/ HandOver(c) \/ ResetHanded(c)
    PROVE  (PollerTypeOK /\ OwnFd /\ FoundAt)' /\ (EpollInv => EpollInv') /\ (PollInv => PollInv')
<1>1. CASE Destroy(c)
    <2>1. Live(c) /\ ~chan[c].added /\ chan' = [chan EXCEPT ![c] = Dead]
        BY <1>1, Zenon DEF Destroy
    <2>2. channelAt' = channelAt /\ pollfds' = pollfds
        BY <1>1, Zenon DEF Destroy
    <2>3. epollSet' = epollSet \/ epollSet' = [epollSet EXCEPT ![chan[c].fd] = Unwatched]
        BY <1>1, Zenon DEF Destroy
    <2>4. broken' = broken \/ broken' = (broken \/ channelAt[chan[c].fd] = c)
        BY <1>1, Zenon DEF Destroy
    <2> QED BY <2>1, <2>2, <2>3, <2>4, ChannelGone, Zenon
<1>2. CASE HandOver(c)
    <2>1. Live(c) /\ ~chan[c].added /\ chan' = [chan EXCEPT ![c] = Dead]
        BY <1>2, Zenon DEF HandOver
    <2>2. channelAt' = channelAt /\ pollfds' = pollfds
        BY <1>2, Zenon DEF HandOver
    <2>3. epollSet' = epollSet \/ epollSet' = [epollSet EXCEPT ![chan[c].fd] = Unwatched]
        BY <1>2, Zenon DEF HandOver
    <2>4. broken' = broken \/ broken' = (broken \/ channelAt[chan[c].fd] = c)
        BY <1>2, Zenon DEF HandOver
    <2> QED BY <2>1, <2>2, <2>3, <2>4, ChannelGone, Zenon
<1>3. CASE ResetHanded(c)
    <2>1. /\ chan' = chan /\ channelAt' = channelAt /\ epollSet' = epollSet /\ pollfds' = pollfds
          /\ broken' = FALSE
        BY <1>3, HandedStep DEF ResetHanded
    <2> QED BY <2>1 DEF PollerTypeOK, OwnFd, FoundAt, EpollInv, PollInv
<1> QED BY <1>1, <1>2, <1>3

(* Initially there are no Channels. *)
LEMMA PollerInvInit == PollerInit => PollerInv
<1> SUFFICES ASSUME PollerInit
             PROVE  PollerInv
    OBVIOUS
<1>1. IsDead(Dead) /\ ~Dead.added /\ Dead.fd = NoFd /\ Dead \in ChannelFields
    <2>1. kNew \in Int /\ {} \in SUBSET Event /\ FALSE \in BOOLEAN
        BY DEF kNew
    <2> QED BY <2>1 DEF Dead, IsDead, ChannelFields
<1>2. Unwatched \in KernelFields /\ ~Unwatched.watched /\ Unwatched.events = {}
    BY DEF Unwatched, KernelFields
<1>3. \A c \in Channels : chan[c] = Dead
    BY DEF PollerInit
<1>4. \A f \in Fds : epollSet[f] = Unwatched /\ channelAt[f] = NoChannel
    BY DEF PollerInit
<1>5. PollerTypeOK
    <2>1. chan \in [Channels -> ChannelFields] /\ epollSet \in [Fds -> KernelFields]
        BY <1>1, <1>2 DEF PollerInit
    <2>2. channelAt \in [Fds -> Channels \cup {NoChannel}] /\ pollfds \in Seq(PollFields) /\ broken = FALSE
        BY DEF PollerInit
    <2> QED BY <2>1, <2>2 DEF PollerTypeOK, ChannelFields, KernelFields, PollFields
<1>6. OwnFd /\ FoundAt /\ HandedInv
    BY <1>1, <1>3, <1>4 DEF OwnFd, FoundAt, HandedInv, PollerInit
<1>7. EpollInv
    BY <1>1, <1>2, <1>3, <1>4 DEF EpollInv
<1>8. PollInv
    <2>1. DOMAIN pollfds = {}
        BY DEF PollerInit
    <2> QED BY <1>1, <1>2, <1>3, <1>4, <2>1 DEF PollInv
<1> QED BY <1>5, <1>6, <1>7, <1>8 DEF PollerInv, PollerInit

(* Every call with an EPollPoller. *)
LEMMA EpollStep ==
    ASSUME PollerTypeOK, OwnFd, FoundAt, HandedInv, EpollInv, poller = "epoll", PollerNext
    PROVE  (PollerTypeOK /\ OwnFd /\ FoundAt /\ EpollInv)'
<1>1. PICK c \in Channels : \/ \E f \in Fds : NewChannel(c, f)
                            \/ \E e \in Event : Enable(c, e)
                            \/ \E es \in SUBSET Event : Disable(c, es)
                            \/ Remove(c)
                            \/ Destroy(c) \/ HandOver(c) \/ ResetHanded(c)
    BY DEF PollerNext
<1>2. chan[c].events \in SUBSET Event
    BY FieldTypes
<1>3. ASSUME NEW f \in Fds, NewChannel(c, f)
      PROVE  (PollerTypeOK /\ OwnFd /\ FoundAt /\ EpollInv)'
    BY <1>3, NewChannelStep
<1>4. ASSUME NEW e \in Event, Enable(c, e)
      PROVE  (PollerTypeOK /\ OwnFd /\ FoundAt /\ EpollInv)'
    <2>1. PICK es \in SUBSET Event : es = chan[c].events \cup {e}
        BY <1>2
    <2>2. Live(c) /\ EPollUpdate(c, es)
        BY <1>4, <2>1 DEF Enable, Update
    <2> QED BY <2>2, EPollUpdateStep
<1>5. ASSUME NEW gone \in SUBSET Event, Disable(c, gone)
      PROVE  (PollerTypeOK /\ OwnFd /\ FoundAt /\ EpollInv)'
    <2>1. PICK es \in SUBSET Event : es = chan[c].events \ gone
        BY <1>2
    <2>2. Live(c) /\ EPollUpdate(c, es)
        BY <1>5, <2>1 DEF Disable, Update
    <2> QED BY <2>2, EPollUpdateStep
<1>6. CASE Remove(c)
    <2>1. chan[c].added /\ chan[c].events = {} /\ EPollRemove(c)
        BY <1>6 DEF Remove
    <2> QED BY <2>1, EPollRemoveStep
<1>7. CASE Destroy(c) \/ HandOver(c) \/ ResetHanded(c)
    BY <1>7, EndStep
<1> QED BY <1>1, <1>3, <1>4, <1>5, <1>6, <1>7

(* Every call with a PollPoller that supports it. *)
LEMMA PollStep ==
    ASSUME PollerTypeOK, OwnFd, FoundAt, HandedInv, PollInv, poller = "poll", PollerNext, ~epollOnly'
    PROVE  (PollerTypeOK /\ OwnFd /\ FoundAt /\ PollInv)'
<1>1. PICK c \in Channels : \/ \E f \in Fds : NewChannel(c, f)
                            \/ \E e \in Event : Enable(c, e)
                            \/ \E es \in SUBSET Event : Disable(c, es)
                            \/ Remove(c)
                            \/ Destroy(c) \/ HandOver(c) \/ ResetHanded(c)
    BY DEF PollerNext
<1>2. chan[c].events \in SUBSET Event
    BY FieldTypes
<1>3. ASSUME NEW f \in Fds, NewChannel(c, f)
      PROVE  (PollerTypeOK /\ OwnFd /\ FoundAt /\ PollInv)'
    BY <1>3, NewChannelStep
<1>4. ASSUME NEW e \in Event, Enable(c, e)
      PROVE  (PollerTypeOK /\ OwnFd /\ FoundAt /\ PollInv)'
    <2>1. PICK es \in SUBSET Event : es = chan[c].events \cup {e} /\ es # {}
        BY <1>2
    <2>2. Live(c) /\ PollUpdate(c, es) /\ epollOnly' = (epollOnly \/ (chan[c].events = {} /\ chan[c].index # kNew))
        BY <1>4, <2>1 DEF Enable, Update
    <2>3. chan[c].events # {} \/ chan[c].index = kNew
        BY <2>2
    <2>4. CASE chan[c].index = kNew
        BY <2>1, <2>2, <2>4, PollAddStep
    <2>5. CASE chan[c].events # {}
        <3>1. chan[c].added
            BY <2>5, NotAdded DEF IsDead, IsOut
        <3> QED BY <2>2, <2>5, <3>1, PollChangeStep
    <2> QED BY <2>3, <2>4, <2>5
<1>5. ASSUME NEW gone \in SUBSET Event, Disable(c, gone)
      PROVE  (PollerTypeOK /\ OwnFd /\ FoundAt /\ PollInv)'
    <2>1. PICK es \in SUBSET Event : es = chan[c].events \ gone
        BY <1>2
    <2>2. PollUpdate(c, es) /\ epollOnly' = (epollOnly \/ ~chan[c].added)
        BY <1>5, <2>1 DEF Disable, Update
    <2>3. chan[c].added /\ (chan[c].events = {} => es = {})
        BY <2>1, <2>2
    <2> QED BY <2>2, <2>3, PollChangeStep
<1>6. CASE Remove(c)
    <2>1. chan[c].added /\ chan[c].events = {} /\ PollRemove(c)
        BY <1>6 DEF Remove
    <2> QED BY <2>1, PollRemoveStep
<1>7. CASE Destroy(c) \/ HandOver(c) \/ ResetHanded(c)
    BY <1>7, EndStep
<1> QED BY <1>1, <1>3, <1>4, <1>5, <1>6, <1>7

(* The poller stays, and a Channel that was misused once stays so. *)
LEMMA PollerKept == PollerNext => poller' = poller /\ (~epollOnly' => ~epollOnly)
<1> SUFFICES ASSUME PollerNext
             PROVE  poller' = poller /\ (~epollOnly' => ~epollOnly)
    OBVIOUS
<1>1. poller' = poller
    BY DEF PollerNext, NewChannel, Enable, Disable, Remove, Destroy, HandOver, ResetHanded
<1>2. ~epollOnly' => ~epollOnly
    <2>1. PICK c \in Channels : \/ \E f \in Fds : NewChannel(c, f)
                                \/ \E e \in Event : Enable(c, e)
                                \/ \E es \in SUBSET Event : Disable(c, es)
                                \/ Remove(c)
                                \/ Destroy(c) \/ HandOver(c) \/ ResetHanded(c)
        BY DEF PollerNext
    <2>2. (\E f \in Fds : NewChannel(c, f)) \/ Remove(c) => epollOnly' = epollOnly
        BY DEF NewChannel, Remove
    <2>5. Destroy(c) \/ HandOver(c) \/ ResetHanded(c) => epollOnly' = epollOnly
        BY DEF Destroy, HandOver, ResetHanded
    <2>3. ASSUME NEW e \in Event, Enable(c, e)
          PROVE  ~epollOnly' => ~epollOnly
        BY <2>3, Zenon DEF Enable
    <2>4. ASSUME NEW es \in SUBSET Event, Disable(c, es)
          PROVE  ~epollOnly' => ~epollOnly
        BY <2>4, Zenon DEF Disable
    <2> QED BY <2>1, <2>2, <2>3, <2>4, <2>5
<1> QED BY <1>1, <1>2

(* PollerInv is inductive. *)
LEMMA PollerInvStep == PollerInv /\ [PollerNext]_pollerVars => PollerInv'
<1> SUFFICES ASSUME PollerInv, [PollerNext]_pollerVars
             PROVE  PollerInv'
    OBVIOUS
<1>1. CASE PollerNext
    <2>1. poller' = poller /\ (~epollOnly' => ~epollOnly) /\ poller \in {"epoll", "poll"}
        BY <1>1, PollerKept DEF PollerInv
    <2>2. CASE poller = "epoll"
        <3>1. (PollerTypeOK /\ OwnFd /\ FoundAt /\ HandedInv /\ EpollInv)'
            BY <1>1, <2>2, EpollStep, HandedStep DEF PollerInv
        <3>2. poller' = "epoll"
            BY <2>1, <2>2
        <3> QED BY <3>1, <3>2 DEF PollerInv
    <2>3. CASE poller = "poll"
        <3>1. ~epollOnly' => (PollerTypeOK /\ OwnFd /\ FoundAt /\ HandedInv /\ PollInv)'
            BY <1>1, <2>1, <2>3, PollStep, HandedStep DEF PollerInv
        <3>2. poller' = "poll"
            BY <2>1, <2>3
        <3> QED BY <3>1, <3>2 DEF PollerInv
    <2> QED BY <2>1, <2>2, <2>3
<1>2. CASE UNCHANGED pollerVars
    BY <1>2 DEF pollerVars, PollerInv, PollerTypeOK, OwnFd, FoundAt, HandedInv, EpollInv, PollInv
<1> QED BY <1>1, <1>2

(* With an EPollPoller the loop waits for what the Channels ask for. *)
LEMMA EpollWatches ==
    ASSUME PollerTypeOK, OwnFd, FoundAt, EpollInv, poller = "epoll"
    PROVE  WatchedAsAsked
<1>1. ~broken
    BY DEF PollerTypeOK
<1>2. ASSUME NEW f \in Fds, NEW c \in Channels, chan[c].fd = f
      PROVE  EpollOK(c, chan[c], channelAt[f], epollSet[f])
    BY <1>2, FieldTypes DEF EpollInv, IsDead
<1>3. \A f \in Fds : Waited(f) = Asked(f)
    <2> SUFFICES ASSUME NEW f \in Fds
                 PROVE  epollSet[f].events = Asked(f)
        BY DEF Waited
    <2>1. CASE \E c \in Channels : chan[c].fd = f
        <3>1. PICK c \in Channels : chan[c].fd = f
            BY <2>1
        <3>2. f # NoFd
            BY FieldTypes
        <3>3. {d \in Channels : chan[d].fd = f} = {c}
            BY <3>1, <3>2 DEF OwnFd
        <3>4. Asked(f) = chan[c].events
            BY <3>3 DEF Asked
        <3> QED BY <1>2, <3>1, <3>4 DEF EpollOK, IsOut
    <2>2. CASE \A c \in Channels : chan[c].fd # f
        <3>1. {d \in Channels : chan[d].fd = f} = {}
            BY <2>2
        <3>2. Asked(f) = {}
            BY <3>1 DEF Asked
        <3> QED BY <2>2, <3>2 DEF EpollInv
    <2> QED BY <2>1, <2>2
<1>4. \A c \in Channels : chan[c].events # {} => channelAt[chan[c].fd] = c
    BY DEF EpollInv, EpollOK, IsOut, IsDead
<1>5. \A f \in Fds : epollSet[f].watched => Live(epollSet[f].ptr) /\ chan[epollSet[f].ptr].fd = f
    <2> SUFFICES ASSUME NEW f \in Fds, epollSet[f].watched
                 PROVE  Live(epollSet[f].ptr) /\ chan[epollSet[f].ptr].fd = f
        OBVIOUS
    <2>1. PICK c \in Channels : chan[c].fd = f
        BY DEF EpollInv
    <2>2. epollSet[f].ptr = c /\ chan[c].fd # NoFd
        BY <1>2, <2>1 DEF EpollOK
    <2> QED BY <2>1, <2>2 DEF Live
<1> QED BY <1>1, <1>3, <1>4, <1>5 DEF WatchedAsAsked

(* With a PollPoller too. *)
LEMMA PollWatches ==
    ASSUME PollerTypeOK, OwnFd, FoundAt, PollInv, poller = "poll"
    PROVE  WatchedAsAsked
<1>1. ~broken
    BY DEF PollerTypeOK
<1>2. \A c \in Channels : chan[c].events # {} => chan[c].added
    BY NotAdded DEF IsDead, IsOut
<1>3. \A f \in Fds : Waited(f) = Asked(f)
    <2> SUFFICES ASSUME NEW f \in Fds
                 PROVE  UNION {pollfds[i].events : i \in {j \in DOMAIN pollfds : pollfds[j].fd = f}} = Asked(f)
        BY DEF Waited
    <2>1. ASSUME NEW j \in DOMAIN pollfds, pollfds[j].fd = f
          PROVE  \E c \in Channels : chan[c].fd = f /\ chan[c].events = pollfds[j].events
        <3>1. PICK c \in Channels : chan[c].added /\ chan[c].index + 1 = j
            BY DEF PollInv
        <3>2. chan[c].fd \in Fds /\ pollfds[j] = Entry(chan[c])
            BY <3>1, AddedPollfd
        <3>3. chan[c] \in ChannelFields
            BY FieldTypes
        <3>4. /\ pollfds[j].events = chan[c].events /\ Ignored(chan[c].fd) < 0
              /\ pollfds[j].fd = IF chan[c].events = {} THEN Ignored(chan[c].fd) ELSE chan[c].fd
            BY <3>2, <3>3, EntryFields
        <3>5. f >= 0 /\ f \in Int
            BY PollerAssumption
        <3>6. chan[c].events # {}
            BY <2>1, <3>4, <3>5
        <3> QED BY <2>1, <3>4, <3>6
    <2>2. ASSUME NEW c \in Channels, chan[c].fd = f, chan[c].events # {}
          PROVE  \E j \in DOMAIN pollfds : pollfds[j].fd = f /\ chan[c].events = pollfds[j].events
        <3>1. chan[c].added
            BY <1>2, <2>2
        <3>2. chan[c].index + 1 \in DOMAIN pollfds /\ pollfds[chan[c].index + 1] = Entry(chan[c])
            BY <3>1, AddedPollfd
        <3>3. chan[c] \in ChannelFields
            BY FieldTypes
        <3>4. Entry(chan[c]).fd = f /\ Entry(chan[c]).events = chan[c].events
            BY <2>2, <3>3, EntryFields
        <3> QED BY <3>2, <3>4
    <2>3. \A x : (\E j \in DOMAIN pollfds : pollfds[j].fd = f /\ x \in pollfds[j].events)
                 <=> (\E c \in Channels : chan[c].fd = f /\ x \in chan[c].events)
        BY <2>1, <2>2
    <2> QED BY <2>3 DEF Asked
<1>4. \A c \in Channels : chan[c].events # {} => channelAt[chan[c].fd] = c
    BY <1>2, AddedPollfd
<1>5. \A f \in Fds : ~epollSet[f].watched
    BY DEF PollInv
<1> QED BY <1>1, <1>3, <1>4, <1>5 DEF WatchedAsAsked

(* After any sequence of calls on any number of Channels the loop waits    *)
(* for what the Channels ask for, on their descriptors and no others, what *)
(* the kernel returns leads to the right Channel, and no assertion of      *)
(* EPollPoller or PollPoller fails; with PollPoller, as long as no Channel *)
(* is enabled after it had no events or disabled before it was enabled.    *)
THEOREM LoopWaitsAsAsked == PollerSpec => []WatchedAsAsked
<1>1. PollerInit => PollerInv
    BY PollerInvInit
<1>2. PollerInv /\ [PollerNext]_pollerVars => PollerInv'
    BY PollerInvStep
<1>3. PollerInv => WatchedAsAsked
    <2> SUFFICES ASSUME PollerInv, poller = "poll" => ~epollOnly
                 PROVE  WatchedAsAsked
        BY DEF WatchedAsAsked
    <2>1. CASE poller = "epoll"
        BY <2>1, EpollWatches DEF PollerInv
    <2>2. CASE poller = "poll"
        BY <2>2, PollWatches DEF PollerInv
    <2> QED BY <2>1, <2>2 DEF PollerInv
<1> QED BY <1>1, <1>2, <1>3, PTL DEF PollerSpec
=============================================================================

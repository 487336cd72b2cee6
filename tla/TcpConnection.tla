--------------------------- MODULE TcpConnection ---------------------------
(***************************************************************************)
(* One TcpConnection of a TcpServer whose I/O loop runs in a thread of its *)
(* own (muduo/net).  The server's user keeps the connection in a map while *)
(* it is up, and other threads take it from there to send, as the database *)
(* threads of LogonServer do: they copy the TcpConnectionPtr under a mutex *)
(* and use the copy after they have released it.                           *)
(*                                                                         *)
(* A message is MsgLen bytes, of which the socket takes any number.  The   *)
(* object lives as long as something refers to it with a TcpConnectionPtr; *)
(* the functors of send and shutdown only have a raw pointer to it.        *)
(***************************************************************************)
EXTENDS Integers, Sequences

CONSTANTS Senders,      \* threads other than the I/O loop's that send
          Shutters,     \* those of them that call shutdown
          LoopThread,   \* the thread of the I/O loop
          MsgLen,       \* the length of a message
          MaxMessages,  \* bound: messages each thread sends
          MaxForces     \* bound: calls of forceClose pending at a time

ASSUME ConnAssumption == /\ Shutters \subseteq Senders
                         /\ LoopThread \notin Senders
                         /\ MsgLen \in Nat \ {0}
                         /\ MaxMessages \in Nat
                         /\ MaxForces \in Nat

VARIABLES connState,     \* state_
          isReading,     \* the channel waits for input: enableReading
          isWriting,     \* channel_->isWriting()
          outputBuffer,  \* outputBuffer_
          ioFunctors,    \* functors pending in the I/O loop
          baseFunctors,  \* removeConnectionInLoop pending in the server's loop
          inServer,      \* the connection is in connections_
          inUserMap,     \* the connection is in the map of the server's user
          sender,        \* where each other thread is
          delayed,       \* the timer of forceCloseWithDelay is set
          peer,          \* the other side: open, closed or reset
          finSent,       \* shutdownWrite has been called
          wire,          \* history: bytes written to the socket
          sentMessages,  \* history: how many each thread has passed to send while connected
          failed,        \* history: an assertion has failed
          overwritten    \* history: shutdown has overwritten kDisconnected

connVars == <<connState, isReading, isWriting, outputBuffer, ioFunctors, baseFunctors, inServer,
              inUserMap, sender, delayed, peer, finSent, wire, sentMessages, failed, overwritten>>

(* TcpServer::newConnection *)
ConnInit == /\ connState = "connecting"
            /\ isReading = FALSE
            /\ isWriting = FALSE
            /\ outputBuffer = <<>>
            /\ ioFunctors = <<[op |-> "established"]>>
            /\ baseFunctors = <<>>
            /\ inServer = TRUE
            /\ inUserMap = FALSE
            /\ sender = [t \in Senders |-> "idle"]
            /\ delayed = FALSE
            /\ peer = "open"
            /\ finSent = FALSE
            /\ wire = <<>>
            /\ sentMessages = [t \in Senders \cup {LoopThread} |-> 0]
            /\ failed = FALSE
            /\ overwritten = FALSE

-----------------------------------------------------------------------------
(* The functors that keep the connection alive. *)
Owning == {"established", "forceClose", "destroyed"}

(* ~TcpConnection has run: the last TcpConnectionPtr is gone. *)
Gone == /\ ~inServer
        /\ ~inUserMap
        /\ \A t \in Senders : sender[t] = "idle"
        /\ baseFunctors = <<>>
        /\ \A i \in DOMAIN ioFunctors : ioFunctors[i].op \notin Owning

(* The bytes of the next message of t. *)
NextMessage(t) == [i \in 1..MsgLen |-> [from |-> t, msg |-> sentMessages[t] + 1, at |-> i]]

(* handleClose has run. *)
Closed == connState # "connecting" /\ ~isReading

(* A functor with a raw this; late if the connection is closed already. *)
RawFunctor(op, data) == [op |-> op, data |-> data, late |-> Closed]

(* write, external: the socket takes n bytes, or fails with EPIPE when the *)
(* connection is shut down or reset.                                       *)
BrokenPipe == finSent \/ peer = "reset"

(* Mutant: sendInLoop always tries to write directly. *)
WritesAlways == TRUE

(* if no thing in output queue, try writing directly *)
WritesDirectly == ~isWriting /\ outputBuffer = <<>>

(* sendInLoop *)
SendInLoop(data) ==
    \/ /\ connState = "disconnected"
       /\ UNCHANGED <<wire, outputBuffer, isWriting>>
    \/ /\ connState # "disconnected"
       /\ WritesDirectly
       /\ BrokenPipe
       /\ UNCHANGED <<wire, outputBuffer, isWriting>>
    \/ /\ connState # "disconnected"
       /\ \E n \in 0..Len(data) :
             /\ n > 0 => WritesDirectly /\ ~BrokenPipe
             /\ n = 0 => ~(WritesDirectly /\ BrokenPipe)
             /\ wire' = wire \o SubSeq(data, 1, n)
             /\ outputBuffer' = outputBuffer \o SubSeq(data, n + 1, Len(data))
             /\ isWriting' = (isWriting \/ n < Len(data))

(* Mutant: the write side is shut down although there is output left. *)
ShutsDownAlways(writing) == TRUE

(* shutdownInLoop: we are not writing *)
ShutsDown(writing) == ~writing

(* handleClose: down, out of the user's map, and removeConnection. *)
HandleClose ==
    /\ connState' = "disconnected"
    /\ isReading' = FALSE
    /\ isWriting' = FALSE
    /\ inUserMap' = FALSE
    /\ baseFunctors' = Append(baseFunctors, "remove")
    /\ failed' = (failed \/ connState \notin {"connected", "disconnecting"})

(* forceClose, in the loop thread. *)
ForceClose == /\ connState' = "disconnecting"
              /\ ioFunctors' = Append(ioFunctors, [op |-> "forceClose"])

(* Calls of forceClose that have not closed the connection yet. *)
ForcesPending ==
    Len(SelectSeq(ioFunctors, LAMBDA f : f.op = "forceClose")) + (IF delayed THEN 1 ELSE 0)

Open == connState \in {"connected", "disconnecting"}

-----------------------------------------------------------------------------
(* The I/O loop: functors. *)

(* connectEstablished: up, and the user puts the connection into its map. *)
RunEstablished ==
    /\ ioFunctors # <<>> /\ Head(ioFunctors).op = "established"
    /\ ioFunctors' = Tail(ioFunctors)
    /\ connState' = "connected"
    /\ isReading' = TRUE
    /\ inUserMap' = TRUE
    /\ failed' = (failed \/ connState # "connecting")
    /\ UNCHANGED <<isWriting, outputBuffer, baseFunctors, inServer, sender, delayed, peer, finSent,
                   wire, sentMessages, overwritten>>

RunSend ==
    /\ ioFunctors # <<>> /\ Head(ioFunctors).op = "send"
    /\ ioFunctors' = Tail(ioFunctors)
    /\ ~Gone
    /\ SendInLoop(Head(ioFunctors).data)
    /\ UNCHANGED <<connState, isReading, baseFunctors, inServer, inUserMap, sender, delayed, peer,
                   finSent, sentMessages, failed, overwritten>>

RunShutdown ==
    /\ ioFunctors # <<>> /\ Head(ioFunctors).op = "shutdown"
    /\ ioFunctors' = Tail(ioFunctors)
    /\ ~Gone
    /\ finSent' = (finSent \/ ShutsDown(isWriting))
    /\ UNCHANGED <<connState, isReading, isWriting, outputBuffer, baseFunctors, inServer, inUserMap,
                   sender, delayed, peer, wire, sentMessages, failed, overwritten>>

(* A functor that uses an object that is gone: a crash, or nothing, since  *)
(* what is left of the object says it is disconnected.                     *)
RunDangling ==
    /\ ioFunctors # <<>> /\ Head(ioFunctors).op \in {"send", "shutdown"}
    /\ Gone
    /\ ioFunctors' \in {Tail(ioFunctors), <<>>}
    /\ UNCHANGED <<connState, isReading, isWriting, outputBuffer, baseFunctors, inServer, inUserMap,
                   sender, delayed, peer, finSent, wire, sentMessages, failed, overwritten>>

(* Mutant: forceCloseInLoop does not test the state. *)
RunForceCloseAnyway ==
    /\ ioFunctors # <<>> /\ Head(ioFunctors).op = "forceClose"
    /\ ioFunctors' = Tail(ioFunctors)
    /\ HandleClose
    /\ UNCHANGED <<outputBuffer, inServer, sender, delayed, peer, finSent, wire, sentMessages,
                   overwritten>>

(* forceCloseInLoop *)
RunForceClose ==
    /\ ioFunctors # <<>> /\ Head(ioFunctors).op = "forceClose"
    /\ ioFunctors' = Tail(ioFunctors)
    /\ IF Open THEN HandleClose
       ELSE UNCHANGED <<connState, isReading, isWriting, inUserMap, baseFunctors, failed>>
    /\ UNCHANGED <<outputBuffer, inServer, sender, delayed, peer, finSent, wire, sentMessages,
                   overwritten>>

(* connectDestroyed: the channel is removed, which asserts that it has no  *)
(* events.                                                                 *)
RunDestroyed ==
    /\ ioFunctors # <<>> /\ Head(ioFunctors).op = "destroyed"
    /\ ioFunctors' = Tail(ioFunctors)
    /\ failed' = (failed \/ isReading \/ isWriting)
    /\ UNCHANGED <<connState, isReading, isWriting, outputBuffer, baseFunctors, inServer, inUserMap,
                   sender, delayed, peer, finSent, wire, sentMessages, overwritten>>

-----------------------------------------------------------------------------
(* The I/O loop: events of the channel, and what the user does in its      *)
(* callbacks, in the loop thread.                                          *)

(* handleRead, n = 0. *)
HandleReadEnd ==
    /\ isReading
    /\ peer # "open"
    /\ HandleClose
    /\ UNCHANGED <<outputBuffer, ioFunctors, inServer, sender, delayed, peer, finSent, wire,
                   sentMessages, overwritten>>

(* handleWrite: the socket takes some of the output, and the write side is *)
(* shut down after the last of it if somebody has called shutdown.         *)
HandleWrite ==
    /\ isWriting
    /\ ~BrokenPipe
    /\ \E n \in 1..Len(outputBuffer) :
          /\ wire' = wire \o SubSeq(outputBuffer, 1, n)
          /\ outputBuffer' = SubSeq(outputBuffer, n + 1, Len(outputBuffer))
          /\ isWriting' = (n < Len(outputBuffer))
          /\ finSent' = (finSent \/ (~isWriting' /\ connState = "disconnecting"))
    /\ UNCHANGED <<connState, isReading, ioFunctors, baseFunctors, inServer, inUserMap, sender,
                   delayed, peer, sentMessages, failed, overwritten>>

LoopSend ==
    /\ connState = "connected"
    /\ sentMessages[LoopThread] < MaxMessages
    /\ SendInLoop(NextMessage(LoopThread))
    /\ sentMessages' = [sentMessages EXCEPT ![LoopThread] = @ + 1]
    /\ UNCHANGED <<connState, isReading, ioFunctors, baseFunctors, inServer, inUserMap, sender,
                   delayed, peer, finSent, failed, overwritten>>

(* shutdown in the loop thread: shutdownInLoop at once. *)
LoopShutdown ==
    /\ connState = "connected"
    /\ connState' = "disconnecting"
    /\ finSent' = (finSent \/ ShutsDown(isWriting))
    /\ UNCHANGED <<isReading, isWriting, outputBuffer, ioFunctors, baseFunctors, inServer,
                   inUserMap, sender, delayed, peer, wire, sentMessages, failed, overwritten>>

LoopForceClose ==
    /\ Open
    /\ ForcesPending < MaxForces
    /\ ForceClose
    /\ UNCHANGED <<isReading, isWriting, outputBuffer, baseFunctors, inServer, inUserMap, sender,
                   delayed, peer, finSent, wire, sentMessages, failed, overwritten>>

LoopForceCloseWithDelay ==
    /\ Open
    /\ ~delayed
    /\ ForcesPending < MaxForces
    /\ connState' = "disconnecting"
    /\ delayed' = TRUE
    /\ UNCHANGED <<isReading, isWriting, outputBuffer, ioFunctors, baseFunctors, inServer,
                   inUserMap, sender, peer, finSent, wire, sentMessages, failed, overwritten>>

(* The timer has a weak pointer only. *)
DelayPasses ==
    /\ delayed
    /\ delayed' = FALSE
    /\ IF ~Gone /\ Open THEN ForceClose ELSE UNCHANGED <<connState, ioFunctors>>
    /\ UNCHANGED <<isReading, isWriting, outputBuffer, baseFunctors, inServer, inUserMap, sender,
                   peer, finSent, wire, sentMessages, failed, overwritten>>

-----------------------------------------------------------------------------
(* The server's loop. *)

(* Mutant: the connection is destroyed at once. *)
RemoveConnectionNow ==
    /\ baseFunctors # <<>>
    /\ baseFunctors' = Tail(baseFunctors)
    /\ inServer' = FALSE
    /\ failed' = (failed \/ ~inServer)
    /\ UNCHANGED <<connState, isReading, isWriting, outputBuffer, ioFunctors, inUserMap, sender,
                   delayed, peer, finSent, wire, sentMessages, overwritten>>

(* Mutant: the connection stays in connections_. *)
RemoveConnectionKeeps ==
    /\ baseFunctors # <<>>
    /\ baseFunctors' = Tail(baseFunctors)
    /\ ioFunctors' = Append(ioFunctors, [op |-> "destroyed"])
    /\ UNCHANGED <<connState, isReading, isWriting, outputBuffer, inServer, inUserMap, sender,
                   delayed, peer, finSent, wire, sentMessages, failed, overwritten>>

(* removeConnectionInLoop *)
RemoveConnection ==
    /\ baseFunctors # <<>>
    /\ baseFunctors' = Tail(baseFunctors)
    /\ inServer' = FALSE
    /\ failed' = (failed \/ ~inServer)
    /\ ioFunctors' = Append(ioFunctors, [op |-> "destroyed"])
    /\ UNCHANGED <<connState, isReading, isWriting, outputBuffer, inUserMap, sender, delayed, peer,
                   finSent, wire, sentMessages, overwritten>>

-----------------------------------------------------------------------------
(* Another thread: sendToClient and shutdownConn of LogonServer. *)

SenderGoes(t, from, to) == sender[t] = from /\ sender' = [sender EXCEPT ![t] = to]

(* The pointer is copied, under the user's mutex. *)
CopyPointer(t) ==
    /\ SenderGoes(t, "idle", "holding")
    /\ inUserMap
    /\ UNCHANGED <<connState, isReading, isWriting, outputBuffer, ioFunctors, baseFunctors,
                   inServer, inUserMap, delayed, peer, finSent, wire, sentMessages, failed,
                   overwritten>>

(* send: state_ == kConnected ... *)
SendTests(t) ==
    /\ SenderGoes(t, "holding", "sending")
    /\ connState = "connected"
    /\ sentMessages[t] < MaxMessages
    /\ UNCHANGED <<connState, isReading, isWriting, outputBuffer, ioFunctors, baseFunctors,
                   inServer, inUserMap, delayed, peer, finSent, wire, sentMessages, failed,
                   overwritten>>

(* ... and sendInLoop is queued. *)
SendQueues(t) ==
    /\ SenderGoes(t, "sending", "holding")
    /\ ioFunctors' = Append(ioFunctors, RawFunctor("send", NextMessage(t)))
    /\ sentMessages' = [sentMessages EXCEPT ![t] = @ + 1]
    /\ UNCHANGED <<connState, isReading, isWriting, outputBuffer, baseFunctors, inServer, inUserMap,
                   delayed, peer, finSent, wire, failed, overwritten>>

(* shutdown: state_ == kConnected ... *)
ShutdownTests(t) ==
    /\ SenderGoes(t, "holding", "shutting")
    /\ connState = "connected"
    /\ UNCHANGED <<connState, isReading, isWriting, outputBuffer, ioFunctors, baseFunctors,
                   inServer, inUserMap, delayed, peer, finSent, wire, sentMessages, failed,
                   overwritten>>

(* ... setState(kDisconnecting), without a compare and swap ... *)
ShutdownSets(t) ==
    /\ SenderGoes(t, "shutting", "queueing")
    /\ connState' = "disconnecting"
    /\ overwritten' = (overwritten \/ Closed)
    /\ UNCHANGED <<isReading, isWriting, outputBuffer, ioFunctors, baseFunctors, inServer,
                   inUserMap, delayed, peer, finSent, wire, sentMessages, failed>>

(* ... and shutdownInLoop is queued. *)
ShutdownQueues(t) ==
    /\ SenderGoes(t, "queueing", "holding")
    /\ ioFunctors' = Append(ioFunctors, RawFunctor("shutdown", <<>>))
    /\ UNCHANGED <<connState, isReading, isWriting, outputBuffer, baseFunctors, inServer, inUserMap,
                   delayed, peer, finSent, wire, sentMessages, failed, overwritten>>

DropPointer(t) ==
    /\ SenderGoes(t, "holding", "idle")
    /\ UNCHANGED <<connState, isReading, isWriting, outputBuffer, ioFunctors, baseFunctors,
                   inServer, inUserMap, delayed, peer, finSent, wire, sentMessages, failed,
                   overwritten>>

(* The other side closes the connection, or it breaks. *)
PeerCloses ==
    /\ peer = "open"
    /\ peer' \in {"closed", "reset"}
    /\ UNCHANGED <<connState, isReading, isWriting, outputBuffer, ioFunctors, baseFunctors,
                   inServer, inUserMap, sender, delayed, finSent, wire, sentMessages, failed,
                   overwritten>>

-----------------------------------------------------------------------------
RunIoFunctor == \/ RunEstablished
                \/ RunSend
                \/ RunShutdown
                \/ RunDangling
                \/ RunForceClose
                \/ RunDestroyed

(* What the threads do in any case once they have begun. *)
SenderStep(t) == SendQueues(t) \/ ShutdownSets(t) \/ ShutdownQueues(t) \/ DropPointer(t)

ConnNext == \/ RunIoFunctor
            \/ HandleReadEnd
            \/ HandleWrite
            \/ LoopSend
            \/ LoopShutdown
            \/ LoopForceClose
            \/ LoopForceCloseWithDelay
            \/ DelayPasses
            \/ RemoveConnection
            \/ PeerCloses
            \/ \E t \in Senders : CopyPointer(t) \/ SendTests(t) \/ SendQueues(t) \/ DropPointer(t)
            \/ \E t \in Shutters : ShutdownTests(t) \/ ShutdownSets(t) \/ ShutdownQueues(t)

ConnSpec == ConnInit /\ [][ConnNext]_connVars

(***************************************************************************)
(* Fairness: the loops run the functors that are queued, poll reports the  *)
(* end of the other side's data, and a thread finishes what it has begun.  *)
(* The other side need not close, and nobody has to send.                  *)
(***************************************************************************)
FairConnSpec == /\ ConnSpec
                /\ WF_connVars(RunIoFunctor)
                /\ WF_connVars(HandleReadEnd)
                /\ WF_connVars(RemoveConnection)
                /\ \A t \in Senders : WF_connVars(SenderStep(t))

-----------------------------------------------------------------------------
(* Of two bytes of one thread, x is sent before y. *)
Precedes(x, y) == x.msg < y.msg \/ (x.msg = y.msg /\ x.at < y.at)

(* What each thread sends goes out in the order in which it was sent, and  *)
(* in whole messages that are not mixed up with those of other threads,    *)
(* however little the socket takes at a time.  No message is left out      *)
(* between two others, unless a shutdown from another thread has           *)
(* overwritten kDisconnected, which opens the way for sends that come      *)
(* after others were given up.                                             *)
OrderOnWire ==
    LET out == wire \o outputBuffer
    IN /\ \A i, j \in DOMAIN out : i < j /\ out[i].from = out[j].from => Precedes(out[i], out[j])
       /\ \A i \in DOMAIN out :
             LET start == i - out[i].at
             IN  \A k \in 1..MsgLen : /\ start + k \in DOMAIN out
                                      /\ out[start + k] = [out[i] EXCEPT !.at = k]
       /\ ~overwritten => \A i \in DOMAIN out : out[i].msg > 1 =>
             \E j \in DOMAIN out : out[j] = [out[i] EXCEPT !.msg = @ - 1]

(* What the loop thread has sent before it calls shutdown is on the wire   *)
(* when the write side is shut down, unless the connection is closed.      *)
FlushedBeforeFin ==
    finSent /\ ~Closed /\ peer # "reset" =>
        \A m \in 1..sentMessages[LoopThread] : \A k \in 1..MsgLen :
            \E i \in DOMAIN wire : wire[i] = [from |-> LoopThread, msg |-> m, at |-> k]

(* assert(state_ == kDisconnected) in ~TcpConnection. *)
DestroyedDisconnected == Gone => connState = "disconnected"

(* The assertions of TcpConnection, TcpServer and Channel hold: the        *)
(* connection goes up and down once, is removed once and has no events     *)
(* left when it is, with forceClose and the end of the data in any order,  *)
(* and it is disconnected in the end, unless a shutdown from another       *)
(* thread has overwritten kDisconnected.                                   *)
ConnAssertions == failed \/ ~DestroyedDisconnected => overwritten

(* A functor with a raw pointer that was queued before the connection was  *)
(* closed never outlives it: connectDestroyed is queued behind it.         *)
LateSendsOnly == Gone => \A i \in DOMAIN ioFunctors : ioFunctors[i].late

(* Once the other side has closed, the connection is closed, removed and   *)
(* destroyed.                                                              *)
ClosedIsDestroyed == peer # "open" ~> Gone
=============================================================================

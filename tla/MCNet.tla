------------------------------- MODULE MCNet -------------------------------
(***************************************************************************)
(* The parts of muduo/net in one state space, side by side: Init chooses   *)
(* the part that moves, the others stand still.                            *)
(***************************************************************************)
EXTENDS TcpConnection, TcpClient, TimerQueue, BufferQueue, ProtobufCodec,
        Poller

CONSTANTS t1, loop

VARIABLE part

NetInit == /\ part \in {"connection", "client", "timers", "buffer", "codec", "poller"}
           /\ ConnInit
           /\ ClientInit
           /\ part # "client" => ~retry
           /\ TimerInit
           /\ BufInit
           /\ CodecInit
           /\ part # "codec" => ~aes
           /\ PollerInit
           /\ part # "poller" => poller = "epoll"

NetNext == \/ /\ part = "connection"
              /\ ConnNext
              /\ UNCHANGED <<part, clientVars, timerVars, bufVars, codecVars, pollerVars>>
           \/ /\ part = "client"
              /\ ClientNext
              /\ UNCHANGED <<part, connVars, timerVars, bufVars, codecVars, pollerVars>>
           \/ /\ part = "timers"
              /\ TimerNext
              /\ UNCHANGED <<part, connVars, clientVars, bufVars, codecVars, pollerVars>>
           \/ /\ part = "buffer"
              /\ BufNext
              /\ UNCHANGED <<part, connVars, clientVars, timerVars, codecVars, pollerVars>>
           \/ /\ part = "codec"
              /\ CodecNext
              /\ UNCHANGED <<part, connVars, clientVars, timerVars, bufVars, pollerVars>>
           \/ /\ part = "poller"
              /\ PollerNext
              /\ UNCHANGED <<part, connVars, clientVars, timerVars, bufVars, codecVars>>

netVars == <<part, connVars, clientVars, timerVars, bufVars, codecVars, pollerVars>>

(* The fairness of each part's specification, for the part that moves. *)
FairNetSpec ==
    /\ NetInit /\ [][NetNext]_netVars
    /\ WF_connVars(part = "connection" /\ RunIoFunctor)
    /\ WF_connVars(part = "connection" /\ HandleReadEnd)
    /\ WF_connVars(part = "connection" /\ RemoveConnection)
    /\ \A t \in Senders : WF_connVars(part = "connection" /\ SenderStep(t))
    /\ WF_timerVars(part = "timers" /\ TimerHandling)
    /\ WF_timerVars(part = "timers" /\ PollTimerfd)
    /\ WF_timerVars(part = "timers" /\ RunTimerFunctor)
    /\ WF_timerVars(part = "timers" /\ Tick)

-----------------------------------------------------------------------------
(* Two bytes for the Buffer, the first one what fresh memory holds. *)
TwoBytes == {Junk, PlainByte(1, 0)}
=============================================================================

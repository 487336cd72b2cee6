----------------------------- MODULE TcpClient -----------------------------
(***************************************************************************)
(* A TcpClient and its Connector (muduo/net): connection attempts that     *)
(* fail, are retried after a delay or given up, and stop, disconnect and   *)
(* the destructor between any two of the loop's steps.  All of it runs in  *)
(* the thread of the loop, except that start and stop may be called from   *)
(* any thread; what is queued in the loop runs after the handler that      *)
(* queued it.  The functors of the Connector hold a raw pointer to it, its *)
(* retry timers a shared one.  ~TcpClient in another thread is left out:   *)
(* its own FIXME ("not 100% safe, if we are in different thread") gives it *)
(* up.                                                                     *)
(***************************************************************************)
EXTENDS Integers, Sequences, FiniteSets

CONSTANTS MaxConnects,   \* bound: calls of connect
          MaxStops       \* bound: calls of stop and disconnect

ASSUME ClientAssumption == MaxConnects \in Nat /\ MaxStops \in Nat

VARIABLES retry,             \* retry_: enableRetry has been called
          clientConnect,     \* connect_ of the TcpClient
          connectorConnect,  \* connect_ of the Connector
          connectorState,    \* state_ of the Connector
          channel,           \* channel_ of the Connector: none, live, or removed from the loop
          clientFunctors,    \* functors pending in the loop
          retryTimers,       \* timers of retry that have not gone off
          connection,        \* connection_: none, up, or closing after shutdown
          clientGone,        \* ~TcpClient has run
          connectorHeld,     \* connector_ of the client, or of the timer ~TcpClient sets, holds the Connector
          sockets,           \* file descriptors the Connector or a connection owns
          connects,          \* history: calls of connect
          downs,             \* history: connections that have gone down, up to MaxConnects
          stops,             \* history: calls of stop and disconnect
          gaveUp,            \* history: connect failed with an error that is not retried
          destroyedEarly,    \* history: ~TcpClient found a connection, and functors of the Connector pending
          aborted            \* history: an assertion has failed, or what was freed has been used

clientVars == <<retry, clientConnect, connectorConnect, connectorState, channel, clientFunctors,
                retryTimers, connection, clientGone, connectorHeld, sockets, connects, downs, stops,
                gaveUp, destroyedEarly, aborted>>

ClientInit == /\ retry \in BOOLEAN
              /\ clientConnect = TRUE
              /\ connectorConnect = FALSE
              /\ connectorState = "disconnected"
              /\ channel = "none"
              /\ clientFunctors = <<>>
              /\ retryTimers = 0
              /\ connection = "none"
              /\ clientGone = FALSE
              /\ connectorHeld = TRUE
              /\ sockets = 0
              /\ connects = 0
              /\ downs = 0
              /\ stops = 0
              /\ gaveUp = FALSE
              /\ destroyedEarly = FALSE
              /\ aborted = FALSE

-----------------------------------------------------------------------------
(* ~Connector has run: the last shared pointer to it is gone. *)
Freed == ~connectorHeld /\ retryTimers = 0

(* Mutant: no timer is set for the next attempt. *)
RetryNever(n, wanted) ==
    /\ connectorState' = "disconnected"
    /\ retryTimers' = n

(* Connector::retry: try again later if connections are still wanted; n    *)
(* timers are set already.                                                 *)
RetryLater(n, wanted) ==
    /\ connectorState' = "disconnected"
    /\ retryTimers' = IF wanted THEN n + 1 ELSE n

(* startInLoop, in a state of the Connector, with a value of connect_, and *)
(* with n timers set and s sockets open: what connect(2) returns is that   *)
(* it is in progress, an error to retry after, or another one.             *)
StartInLoop(state, wanted, n, s) ==
    /\ \/ /\ ~wanted
          /\ connectorState' = state
          /\ retryTimers' = n
          /\ sockets' = s
          /\ UNCHANGED <<channel, gaveUp>>
       \/ /\ wanted
          /\ connectorState' = "connecting"
          /\ channel' = "live"
          /\ retryTimers' = n
          /\ sockets' = s + 1
          /\ UNCHANGED gaveUp
       \/ /\ wanted
          /\ RetryLater(n, wanted)
          /\ sockets' = s
          /\ UNCHANGED <<channel, gaveUp>>
       \/ /\ wanted
          /\ connectorState' = state
          /\ retryTimers' = n
          /\ sockets' = s
          /\ gaveUp' = TRUE
          /\ UNCHANGED channel
    /\ aborted' = \/ aborted
                  \/ Freed
                  \/ state # "disconnected"
                  \/ connectorState' = "connecting" /\ channel # "none"

(* removeAndResetChannel: the channel itself is reset by a functor. *)
RemoveAndResetChannel == /\ channel' = "removed"
                         /\ clientFunctors' = Append(clientFunctors, "resetChannel")

-----------------------------------------------------------------------------
(* The user. *)

(* The user calls connect first, and again only when the connection is     *)
(* down and the client does not restart it.                                *)
MayConnectAgain == /\ ~clientGone
                   /\ connects > 0 => downs >= connects /\ ~(retry /\ clientConnect)

(* connect, in another thread or before the loop: startInLoop is queued ... *)
Connect ==
    /\ MayConnectAgain
    /\ connects < MaxConnects
    /\ connects' = connects + 1
    /\ clientConnect' = TRUE
    /\ connectorConnect' = TRUE
    /\ clientFunctors' = Append(clientFunctors, "start")
    /\ UNCHANGED <<retry, connectorState, channel, retryTimers, connection, clientGone,
                   connectorHeld, sockets, downs, stops, gaveUp, destroyedEarly, aborted>>

(* ... and called at once in the loop thread. *)
ConnectInLoop ==
    /\ MayConnectAgain
    /\ connects < MaxConnects
    /\ connects' = connects + 1
    /\ clientConnect' = TRUE
    /\ connectorConnect' = TRUE
    /\ StartInLoop(connectorState, TRUE, retryTimers, sockets)
    /\ UNCHANGED <<retry, clientFunctors, connection, clientGone, connectorHeld, downs, stops,
                   destroyedEarly>>

ClientStop ==
    /\ ~clientGone
    /\ stops < MaxStops
    /\ stops' = stops + 1
    /\ clientConnect' = FALSE
    /\ connectorConnect' = FALSE
    /\ clientFunctors' = Append(clientFunctors, "stop")
    /\ UNCHANGED <<retry, connectorState, channel, retryTimers, connection, clientGone,
                   connectorHeld, sockets, connects, downs, gaveUp, destroyedEarly, aborted>>

(* disconnect: nothing more than connect_ is set if there is no connection. *)
Disconnect ==
    /\ ~clientGone
    /\ stops < MaxStops
    /\ stops' = stops + 1
    /\ clientConnect' = FALSE
    /\ connection' = IF connection = "up" THEN "closing" ELSE connection
    /\ UNCHANGED <<retry, connectorConnect, connectorState, channel, clientFunctors, retryTimers,
                   clientGone, connectorHeld, sockets, connects, downs, gaveUp, destroyedEarly,
                   aborted>>

(* ~TcpClient.  With a connection, its closeCallback_ does not go to the   *)
(* client any more, it is closed by forceClose if nobody else holds it,    *)
(* and connector_ is released at once, whatever is pending.  Without one   *)
(* the Connector is stopped and held for another second.                   *)
ClientDtor ==
    /\ ~clientGone
    /\ clientGone' = TRUE
    /\ \/ /\ connection # "none"
          /\ connection' \in {connection, "closing"}
          /\ connectorHeld' = FALSE
          /\ destroyedEarly' = (clientFunctors # <<>>)
          /\ UNCHANGED <<connectorConnect, clientFunctors>>
       \/ /\ connection = "none"
          /\ connectorConnect' = FALSE
          /\ clientFunctors' = Append(clientFunctors, "stop")
          /\ UNCHANGED <<connection, connectorHeld, destroyedEarly>>
    /\ UNCHANGED <<retry, clientConnect, connectorState, channel, retryTimers, sockets, connects,
                   downs, stops, gaveUp, aborted>>

-----------------------------------------------------------------------------
(* The loop: functors and timers. *)

RunStart ==
    /\ clientFunctors # <<>> /\ Head(clientFunctors) = "start"
    /\ clientFunctors' = Tail(clientFunctors)
    /\ StartInLoop(connectorState, connectorConnect, retryTimers, sockets)
    /\ UNCHANGED <<retry, clientConnect, connectorConnect, connection, clientGone, connectorHeld,
                   connects, downs, stops, destroyedEarly>>

(* Mutant: the socket of the attempt that is given up stays open. *)
RunStopLeaking ==
    /\ clientFunctors # <<>> /\ Head(clientFunctors) = "stop"
    /\ IF connectorState = "connecting"
       THEN /\ channel' = "removed"
            /\ clientFunctors' = Append(Tail(clientFunctors), "resetChannel")
            /\ RetryLater(retryTimers, connectorConnect)
            /\ UNCHANGED sockets
       ELSE /\ clientFunctors' = Tail(clientFunctors)
            /\ UNCHANGED <<connectorState, channel, retryTimers, sockets>>
    /\ aborted' = (aborted \/ Freed)
    /\ UNCHANGED <<retry, clientConnect, connectorConnect, connection, clientGone, connectorHeld,
                   connects, downs, stops, gaveUp, destroyedEarly>>

(* stopInLoop *)
RunStop ==
    /\ clientFunctors # <<>> /\ Head(clientFunctors) = "stop"
    /\ IF connectorState = "connecting"
       THEN /\ channel' = "removed"
            /\ clientFunctors' = Append(Tail(clientFunctors), "resetChannel")
            /\ RetryLater(retryTimers, connectorConnect)
            /\ sockets' = sockets - 1
       ELSE /\ clientFunctors' = Tail(clientFunctors)
            /\ UNCHANGED <<connectorState, channel, retryTimers, sockets>>
    /\ aborted' = (aborted \/ Freed)
    /\ UNCHANGED <<retry, clientConnect, connectorConnect, connection, clientGone, connectorHeld,
                   connects, downs, stops, gaveUp, destroyedEarly>>

RunResetChannel ==
    /\ clientFunctors # <<>> /\ Head(clientFunctors) = "resetChannel"
    /\ clientFunctors' = Tail(clientFunctors)
    /\ channel' = "none"
    /\ aborted' = (aborted \/ Freed)
    /\ UNCHANGED <<retry, clientConnect, connectorConnect, connectorState, retryTimers, connection,
                   clientGone, connectorHeld, sockets, connects, downs, stops, gaveUp, destroyedEarly>>

(* Handlers run before the functors of their round: when the event is one  *)
(* of a later round, resetChannel has been called.                         *)
NextRound == \A i \in DOMAIN clientFunctors : clientFunctors[i] # "resetChannel"

(* The timer of retry goes off. *)
RetryTimer ==
    /\ NextRound
    /\ retryTimers > 0
    /\ StartInLoop(connectorState, connectorConnect, retryTimers - 1, sockets)
    /\ UNCHANGED <<retry, clientConnect, connectorConnect, clientFunctors, connection, clientGone,
                   connectorHeld, connects, downs, stops, destroyedEarly>>

(* The timer that ~TcpClient has set goes off.  A second has gone by, and  *)
(* it is assumed, as the code does ("FIXME: HACK"), that a round of the    *)
(* loop takes less: the functors that were pending then have run, and what *)
(* they queued.  The Connector is freed unless a retry timer holds it.     *)
ConnectorReleased ==
    /\ clientGone
    /\ connectorHeld
    /\ clientFunctors = <<>>
    /\ connectorHeld' = FALSE
    /\ UNCHANGED <<retry, clientConnect, connectorConnect, connectorState, channel, clientFunctors,
                   retryTimers, connection, clientGone, sockets, connects, downs, stops, gaveUp,
                   destroyedEarly, aborted>>

-----------------------------------------------------------------------------
(* The loop: events. *)

(* handleWrite with an error or a connection to itself, and handleError. *)
ConnectFails ==
    /\ channel = "live"
    /\ connectorState = "connecting"
    /\ RemoveAndResetChannel
    /\ RetryLater(retryTimers, connectorConnect)
    /\ sockets' = sockets - 1
    /\ UNCHANGED <<retry, clientConnect, connectorConnect, connection, clientGone, connectorHeld,
                   connects, downs, stops, gaveUp, destroyedEarly, aborted>>

(* handleWrite: newConnection, unless stop has been called since. *)
ConnectSucceeds ==
    /\ channel = "live"
    /\ connectorState = "connecting"
    /\ RemoveAndResetChannel
    /\ connectorState' = "connected"
    /\ IF connectorConnect
       THEN /\ connection' = "up"
            /\ aborted' = (aborted \/ clientGone \/ connection # "none")
            /\ UNCHANGED sockets
       ELSE /\ sockets' = sockets - 1
            /\ UNCHANGED <<connection, aborted>>
    /\ UNCHANGED <<retry, clientConnect, connectorConnect, retryTimers, clientGone, connectorHeld,
                   connects, downs, stops, gaveUp, destroyedEarly>>

(* Mutant: restart leaves the state of the Connector alone. *)
RestartState == connectorState

(* restart: setState(kDisconnected) *)
RestartedState == "disconnected"

(* The connection closes: removeConnection, and restart if it is to be     *)
(* retried.                                                                *)
ConnectionCloses ==
    /\ connection # "none"
    /\ NextRound
    /\ connection' = "none"
    /\ downs' = IF downs < MaxConnects THEN downs + 1 ELSE downs
    /\ IF ~clientGone /\ retry /\ clientConnect
       THEN /\ connectorConnect' = TRUE
            /\ StartInLoop(RestartedState, TRUE, retryTimers, sockets - 1)
       ELSE /\ sockets' = sockets - 1
            /\ UNCHANGED <<connectorConnect, connectorState, channel, retryTimers, gaveUp, aborted>>
    /\ UNCHANGED <<retry, clientConnect, clientFunctors, clientGone, connectorHeld, connects,
                   stops, destroyedEarly>>

-----------------------------------------------------------------------------
ClientFunctor == RunStart \/ RunStop \/ RunResetChannel

ClientNext == \/ Connect
              \/ ConnectInLoop
              \/ ClientStop
              \/ Disconnect
              \/ ClientDtor
              \/ ClientFunctor
              \/ RetryTimer
              \/ ConnectorReleased
              \/ ConnectFails
              \/ ConnectSucceeds
              \/ ConnectionCloses

ClientSpec == ClientInit /\ [][ClientNext]_clientVars

-----------------------------------------------------------------------------
(* For a user who calls connect once: the assertions of Connector and      *)
(* TcpClient hold, ~Connector's that it has no Channel among them, and     *)
(* neither a destroyed client nor a freed Connector is called, whatever    *)
(* comes between the attempts: stop, disconnect, the destructor, retries   *)
(* and connections that close.  The one exception is a destructor that     *)
(* finds a connection while stopInLoop or resetChannel is pending, say in  *)
(* the connection callback: it frees a Connector they are yet to run on.   *)
ClientAssertions == connects <= 1 /\ ~destroyedEarly => /\ ~aborted
                                                        /\ Freed => channel = "none"

Pending(f) == Cardinality({i \in DOMAIN clientFunctors : clientFunctors[i] = f})

(* A client that was told to connect, and not to stop, is never forgotten: *)
(* it is connected or trying, or its next attempt is scheduled, and only   *)
(* one of them.                                                            *)
OneAttempt ==
    connects > 0 /\ stops = 0 /\ ~clientGone /\ ~gaveUp /\ retry =>
        1 = Pending("start") + retryTimers + (IF connectorState = "connecting" THEN 1 ELSE 0)
                             + (IF connection # "none" THEN 1 ELSE 0)

(* No file descriptor is leaked or closed twice: each one open belongs to  *)
(* an attempt or to the connection.                                        *)
NoSocketLeak == sockets = (IF connectorState = "connecting" THEN 1 ELSE 0)
                          + (IF connection # "none" THEN 1 ELSE 0)
=============================================================================

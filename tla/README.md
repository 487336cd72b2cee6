# A TLA+ development of the mmvx logon cluster

mmvx is a small game-server cluster written on top of a copy of the muduo network library.
Five kinds of processes log a client on: a **hub**, **keepers**, **forward servers**, a
**logon server** and **clients**. This directory models that cluster and the parts of muduo it
runs on as they are in the source, checks them with TLC on small instances, and proves
for every instance, with TLAPS, the properties listed in section 4: types, registration, routing,
ids, loads, sessions and the refinement of an abstract session table for the cluster; wakeups,
order, connections, clients, timers, pollers, buffers and logging for muduo.

## 1. The system

| Component | State | Operations | Talks to |
|---|---|---|---|
| Hub (`src/hubserver`) | `logonConn_`, `keeperConns_`, `forwardConns_` (per keeper a list of forward servers with a `uint16_t` load) | registration of servers, choice of the least loaded forward server, relaying of sessions, ADD/REMOVE/INC/DEC of the list | accepts keepers and the logon server |
| Keeper (`src/keeperserver`) | `serverStart_`, `conns_`, `hubConn_`; two threads | hands ids to forward processes (`onQuery`), reports them to the hub, relays sessions and loads | connects to the hub, accepts forward processes |
| Forward process (`src/forwardserver`) | `KeeperClient` (`conn_`, `forwardServer_`) and the `ForwardServer` it creates (`logonSessions_`); main loop and I/O threads | gets an id, listens on its port, issues sessions, checks and erases them, reports its load | connects to its keeper, accepts clients |
| Logon server (`src/logonserver`) | `clientConns_` by connection name, `hubConn_`, the tasks of the database threads | checks passwords in a pool of threads, asks the hub, answers the client | connects to the hub, accepts clients |
| Client (`src/logonclient`) | `LogonClient`, `ForwardClient` | logs on, then presents its session to the forward server | connects to the logon server, then to a forward server |
| Messages (`src/proto`) | | | |
| Event loop (`muduo/net/EventLoop`, `EventLoopThread`) | `pendingFunctors_`, `quit_`, `callingPendingFunctors_`, the wakeup eventfd, `loop_` | `loop`, `queueInLoop`, `wakeup`, `quit`, start and destruction of its thread | used by all |
| `TcpConnection`, `TcpServer` | `state_`, `outputBuffer_`, the socket, who refers to the object | `send`, `shutdown`, `forceClose`, `handleRead/Write/Close`, `connectDestroyed` | I/O loop, threads that send |
| `TcpClient`, `Connector` | `connect_`, `state_`, `retry_`, the attempt's socket | `connect`, `stop`, `disconnect`, retry, restart, destructor | loop and its timers |
| `TimerQueue` | `timers_`, `activeTimers_`, `cancelingTimers_`, the timerfd | add, cancel, expiry, restart | loop, callbacks, other threads |
| `Channel`, `Poller` | interest of each Channel, in the kernel (epoll) or in `pollfds_` (poll) | enable, disable, remove | loop |
| `Buffer`, `ProtobufCodec` | a vector with three indices; the frames in it | append, retrieve, prepend, `readFd`, `shrink`; `send`, `onMessage` with AES | `TcpConnection` |
| `ThreadPool`, `MysqlConnectionPool`, `BlockingQueue` | a queue, two condition variables; the unlocked `inUseConns_` | `run`, `take`, `stop`; `put`, `joinAll`, `grab`, `release` | database threads of the logon server |
| `AsyncLogging` | `currentBuffer_`, `nextBuffer_`, `buffers_` | `append`, `threadFunc`, `stop` | every thread, the logging thread |

A logon is eight messages through all five kinds of processes (see the header of `Mmvx.tla`),
each relay dropping what it cannot route, and a ninth to the forward server. What is hard:

* *Concurrency*: the keeper's two threads share `conns_` and `hubConn_`, and `onQuery`
  publishes a forward server before it can be reached; password checks finish in any order;
  session checks are queued from I/O threads into the main loop with a raw `this`; every queued
  functor depends on a wakeup written after the mutex is released; a database thread sends and
  shuts down on a connection that its I/O thread closes; timers are cancelled inside callbacks.
* *Identity*: a client is known by its connection's name across the whole trip, an id by its
  index in two different vectors (`KeeperServer.cc:142`), a session by `rand()`.
* *Failure*: connections are cut, processes restart, clients of a dead server find out late;
  registrations are repeated on reconnection, the list of forward servers is not.
* *Limits*: `uint16_t` loads wrap; a 64-bit uid is cut to 32 bits before the account is looked
  up; the pool of tasks is bounded and its producers wait; a logger that falls behind drops
  buffers; a `Buffer` moves, grows and overflows to the stack; `size_t` arithmetic on
  `decryptIndex_` wraps.

`PROJECT.json` lists the hazards one by one with the properties that cover them.

## 2. Modules

```
Config --- Net --+-- HubServer ------+
                 +-- KeeperServer ---+-- Mmvx --- MCMmvx (TLC)
                 +-- LogonServer ----+     |  \
                 +-- ForwardServer --+     |   SessionTable (INSTANCE, abstract)
                       +- LogonClient      |
                                           MmvxProofs --- RoutingProofs --+-- SessionProofs (TLAPS)
                                                                          +-- LoadProofs

EventLoop --------+
ThreadPool -------+-- MCBase (TLC)          BaseProofs (TLAPS): all four
MysqlConnectionPool
AsyncLogging -----+      Condition is shared by ThreadPool and MysqlConnectionPool

TcpConnection ----+
TcpClient --------+
TimerQueue -------+-- MCNet (TLC)           ConnectionProofs (TcpConnection, TcpClient, Poller),
Poller -----------+                         TimerProofs, BufferProofs (BufferQueue,
Buffer --+-- BufferQueue ---+               ProtobufCodec) (TLAPS)
         +-- ProtobufCodec -+      ByteQueue (INSTANCE of BufferQueue, abstract)

MCEventLoop, MCTcpConnection: the two runs in which muduo fails an expectation
```

* **Config**: the constants of a deployment: who runs, what `servers.lua` lists, the accounts.
  All servers share one ip, so an address is the server id whose port it is.
* **Net**: TCP connections as the servers see them. A connection is `<<kind, owner, n>>`, the
  n-th one its `TcpClient` opens; `cli` and `srv` are the states of its two `TcpConnection`s,
  `c2s` and `s2c` the messages in flight, a close is a `FIN` message. `Cut` loses a connection:
  each end may read what had arrived and find it closed at any later point, and nothing new
  arrives. `Die` removes the ends a process holds; no callback runs there. `send`, `shutdown`,
  `handleClose`, `connect` and the retry of `TcpClient` are operators that the handlers use.
* **HubServer, KeeperServer, ForwardServer, LogonServer, LogonClient**: one module per
  program; one variable per member of the class, one action per handler, named after it, plus
  a restart. A handler is one step, because a connection's callbacks run in one loop, with these
  exceptions: `KeeperServer::onQuery` is `KeeperOnQuery` (answer, ADD, `setStarted`) and
  `KeeperOnQueryDone` (`conns_`), since the main loop can route a session in between;
  `ForwardServer::onLogonForward` only queues, and `ForwardCheckLogonForwardSession` is the
  functor in the main loop; `LogonServer::onLogon` queues a task and three actions are its
  outcomes in a database thread. `KeeperClient::onAnswer` builds the new `ForwardServer` before
  the old one is destroyed: `ForwardOnAnswer` is the case where this works, with a
  choice of how many of the old connections still report DEC, and `ForwardOnAnswerAbort` the
  cases where `bindOrDie` or `Channel::remove` ends the process. Old
  connections vanish in `ForwardOnAnswer`, where in the code the assertion in `~TcpConnection` can
  end the process too; no property depends on which. A functor that outlives its
  `ForwardServer` (`ForwardDanglingCheck`) does nothing or aborts.
* **Mmvx**: composition, message and variable types, the properties and the fairness.
* **SessionTable**: what the cluster promises about sessions, without any of the machinery:
  verify, issue, admit, reject, forget.
* **EventLoop**: an `EventLoop` in the thread of an `EventLoopThread`. The loop thread walks
  through `loop()` (test `quit_`, `poll`, handlers, swap the functors out, run them); other
  threads do `queueInLoop` in two steps, the push under the mutex and the write to the eventfd;
  the owner starts the thread and destroys it, with `quit()` in two steps as well. Handlers and
  functors may queue functors and call `quit()`. It stands for what the cluster's model assumes
  of the loops: queued functors run, once and in order. Using the loop after its end is undefined
  in the code (its comments say so): the destructor's `loop_->quit()` then crashes or does nothing.
* **TcpConnection**: one connection of a `TcpServer` whose I/O loop has a thread of its own, from
  `newConnection` to the destructor, as the logon server uses it: other threads copy the
  `TcpConnectionPtr` under a mutex and send or shut down with the copy. Both test and set
  `state_` in separate steps; `shutdownInLoop` and `sendInLoop` are queued with a raw pointer. The socket
  takes any number of bytes of what is written. A functor that runs on a destroyed connection is
  `RunDangling`.
* **TcpClient**: a client with its `Connector`: attempts that fail at once or later, the retry
  timer (the delay is some time), `stop`, `disconnect` and the destructor in the loop thread between
  any two steps, and functors that run after the handler that queued them. The functors have a raw
  pointer to the `Connector`; who holds it is `connectorHeld` (the client, or after its destructor
  the timer of one second, `ConnectorReleased`) and the retry timers, and a functor that runs when
  it is `Freed` fails. It is assumed, as by the code, that a round of the loop takes less than that
  second. The destructor in another thread, which its own FIXME calls unsafe, is left out.
* **TimerQueue**: time is what is left, in ticks. A `Timer` is an object at an address that is
  given away again, so that a stale `TimerId` can meet a new `Timer` at the same place.
  `addTimer` from another thread returns a `TimerId` whose sequence number is read after the timer was
  handed over, from whatever is at its address by then.
* **Poller**: Channels with `EPollPoller` or `PollPoller`, file descriptors that are closed and
  given out again. When a connection is made, two Channels name one descriptor for a moment: that
  of the `Connector`, removed and waiting for `resetChannel` (`HandOver`, `ResetHanded`), and that
  of the new `TcpConnection`.
* **Buffer**, **BufferQueue**, **ByteQueue**: the operations of `Buffer` as operators on a record
  of the vector and its indices; a `Buffer` under any legal calls; and the queue of bytes that it
  promises to be. The last call and its argument are in `call`, which both specifications have, so
  that each call of the queue changes it by the bytes or the number it was given and nothing else.
* **ProtobufCodec**: frames of messages over a stream that arrives in any pieces, with and without
  encryption, on top of `Buffer`. The cipher is a bijection on whole blocks, and a block that was
  not encrypted as one decrypts to junk, which can look like any length.
* **Condition**, **ThreadPool**, **MysqlConnectionPool**: a critical section is one step up to a
  wait; `notify` wakes any one of those who wait; `ThreadPool` has spurious wakeups too.
  `inUseConns_` is read and written in two steps.
* **AsyncLogging**: lines are numbers, buffers sequences of them; the logging thread swaps
  (`LogSwap`), drops what is too much (`LogDrop`), writes the buffers one after the other
  (`LogWrite`) and keeps two of them as spare ones (`LogReset`); `stop` notifies without the mutex.
* **MCMmvx**, **MCEventLoop**, **MCTcpConnection** and the `.cfg` files: constants for the runs.
  **MCBase** and **MCNet** put several parts of muduo that do not share state side by side: the
  variable `part`, chosen in `Init`, says which one moves, and fairness is asked of that one.

History variables (in no program): `verified` (pairs of uid and connection name whose
password was found right), `issued` (numbers the sessions, so that two equal values of
`rand()` are told apart), `admitted` (every "LogonForward SUCCESS"). `peer` records which
process accepted a client connection. `cancelled` has the timers a `cancel` hit, `strays` those
whose `TimerId` hit another one and `misread` those deleted before `addTimer` read their number.
`destroyedEarly` records that `~TcpClient` found a connection and functors pending, `overwritten` that a `shutdown` has overwritten `kDisconnected`.

Data that no property tells apart is left out: ip addresses, log lines, message text,
passwords except for equality. Definitions marked "Mutant" in a comment are plausible mistakes
in a definition that follows; no action uses them.

## 3. Runs

| Run | Instance | Checks | States |
|---|---|---|---|
| `faults` | 1 forward process, 2 ids, 1 client, any 2 cuts or restarts of anything, 2 connections per link | `TypeOK`, `WellFormed`, `SessionAfterAnswer`, `RoutingSound`, `RegisteredAreOpen` | 911 k |
| `own_logon` | 2 clients, one with a wrong password, any 1 fault except a restart of the logon server | `Authenticated`, `OwnLogon`, `ImplementsSessionTable` | 430 k |
| `load` | 2 forward processes, 2 clients of one account (uids that differ by the modulus), `rand()` always the same, 1 client connection cut or restart of the logon server | `NoIdTwice`, `LoadExact`, `SingleUse` | 576 k |
| `decided` | 1 forward process, 2 clients of one account, no faults, fair | `LogonDecided` | 9 k |
| `admitted` | 2 forward processes, 2 clients of different accounts, no faults, fair | `LogonAdmitted` | 68 k |
| `hub_restart` | 2 hub restarts, 3 connections per link, fair | `Reregistered` | 11 k |
| `forward_gone` | 2 forward processes, 1 restart or cut of a keeper connection, fair | `GoneIsUnlisted` | 72 k |
| `refused` | 1 forward process, 1 cut | `RefusesOnlyDuplicates`: **violated** | |
| `base` | loop: 2 threads, 5 functors; pool: 2 workers, 3 producers, queue of 2; database: 2 threads, 1 connection, 3 queries; log: 6 lines, rounds of 2 buffers; fair | `AwakeForWork`, `InOrder`, `NoLostNotify`, `JoinDrains`, `NoLineLost`, `FunctorsRun`, `QuitEndsLoop`, `StopReturns`, `QueriesDone`, `LinesWritten` | 20 k |
| `net` | connection: 1 foreign thread, 2 messages of 2 bytes, 1 `forceClose`; client: 1 `connect`, 2 stops; 2 timers; 3 channels and fds; buffer of up to 4 bytes; 2 messages of 2 to 5 bytes, blocks of 4; fair | `OrderOnWire`, `FlushedBeforeFin`, `ConnAssertions`, `LateSendsOnly`, `ClientAssertions`, `OneAttempt`, `NoSocketLeak`, `TimerTypeOK`, `Armed`, `CancelExact`, `FramesInOrder`, `WatchedAsAsked`, `ClosedIsDestroyed`, `TimersRun`, `ImplementsByteQueue` | 422 k |
| `loop_quit` | 1 thread, 1 functor, fair | `QuitIsHeeded`: **violated** | |
| `late_shutdown` | 1 database thread | `DestroyedDisconnected`: **violated** | |

What the runs of the cluster show. Under any two faults messages stay meaningful, the
`assert(forwardServer_)` in `KeeperClient::onKeeperForwardLogonSession` holds although the
keeper sends the answer and the session request from different threads, a session is never
created at another server than the hub chose, and no server keeps a closed connection. Nobody
gets on with another's answer, as long as the logon server is not restarted. While the servers'
connections hold, the hub's load counts are exact up to reports in flight, and no id has two
owners. A session admits one connection, whatever `rand()` returns. A client that starts once
the cluster is ready is admitted or turned away, and admitted if its password is right and no
other client uses its account. The hub is found again after restarts. The hub does not go on
listing a forward server that died.

What the runs of muduo show.

* *Event loop*: it never sleeps on work without a wakeup on its way, its functors run once each in
  the order they were queued, and a loop that has been entered ends after `quit()`.
* *Thread pool, database threads*: no notification is lost, `stop` returns, and `joinAll` does
  not return before every query has run; that it returns is not stated. Every query runs, **unless** the counter has drifted
  (`Drifted`): an update of `inUseConns_` is lost between two threads, or a stale connection is
  dropped by `safe_grab` and not counted back, and `grab` can then sleep for ever,
  and `joinAll` with it.
* *Logging*: no line is lost, repeated or out of order between the buffers, except those the
  drop of all but two buffers takes (deliberately), and those appended after the last swap when
  `stop` is called; every line appended earlier is written although its buffer is not full.
* *Connections*: messages of each thread go out whole and in order, the loop thread's are flushed
  before the FIN, assertions hold and a closed connection is destroyed, all under any
  partial writes, resets and orders of `forceClose` and end of data. Excepted, by name, is what a
  foreign `shutdown` does when it overwrites `kDisconnected`. A send that begins after the
  close can leave a functor with a dangling pointer (`LateSendsOnly`: only those can).
* *Client*: at most one attempt, retry or connection at a time and never none while one is wanted,
  no socket leaked; no assertion fails and no freed `Connector` is used, the destructor included,
  **unless** the destructor finds a connection while `resetChannel` or `stopInLoop` is pending
  (`destroyedEarly`), for example in the connection callback: it frees the `Connector` at once and
  `assert(!channel_)` at `Connector.cc:39` fails. `MaxConnects` is 1: a second `connect()` after a close without retry
  aborts in `Connector::startInLoop`, since only `restart()` sets `kDisconnected`
  (`Connector.cc:51`).
* *Timers*: the timerfd is always set early enough, every timer runs, one that was cancelled is not
  started again, and `cancel` hits no other timer than the one its `TimerId` was returned for, even
  where its memory was given away again, **unless** an `addTimer` in another thread was overtaken
  and read the number of the `TimerId` after its `Timer` was deleted (`misread`): then it can name
  the `Timer` that has got the memory, and cancelling it kills that one.
* *Poller*: the loop waits for what the Channels ask for. Excepted for `PollPoller`: a
  Channel enabled again after it had no events stays ignored, because `updateChannel` does not
  reset `pfd.fd` (`PollPoller.cc:103`), `removeChannel` does not reset `index_`, and disabling a
  Channel that was never enabled (`~Acceptor` before `listen`) leaves `removeChannel` with a
  failing assertion. The servers use epoll.
* *Codec*: what is delivered is what was sent, once and in order, however the stream is cut, and
  without encryption every message up to the first bad one arrives. With encryption this needs
  that reads return whole frames, that the messages before had no padding, which stays in the
  buffer, and that the message itself has no unencrypted end (`Exposed`): the padding is the
  remainder and not what is missing to it, so a frame whose remainder is less than half a block
  ends in plain bytes, and these are destroyed when the next frame is in the same read.

**Bounds.** `MaxConn` bounds the connections of one `TcpClient` (one more than the faults on
its link lets it recover), `MaxFaults` the faults, `MaxNames` the connections one logon server
process accepts, `UidModulus` stands for 2^32. Two clients are enough for every interference
between clients that the code has (same account, same name, same forward server), two ids and
two processes for every confusion of ids, two faults for a second failure during recovery.
`MaxFunctors` bounds the functors
of a loop: with five, two threads, a handler and a functor can all queue during one round.
The sizes of `net` let two frames arrive in one read, a `Buffer` grow, move its content and overflow to the stack, a
write take nothing, part or all of a message, a timer be cancelled in its own callback, by another thread
and after its address was given away, and a frame end inside a block.
Every action fires in the runs. `CHECK_DEADLOCK FALSE`: clients log on once and connections
are bounded, so a run comes to rest.

**What is false under wider bounds**, and therefore not claimed: `GoneIsUnlisted` with two
faults (the index error at `KeeperServer.cc:142` frees an id whose entry keeps its first owner's
connection name, so the next DOWN matches nothing); `Reregistered` when hub-keeper connections
are cut rather than the hub restarted (a delayed `HubConnectionData` of the old connection
overwrites the new registration, and its DOWN removes it); `OwnLogon` when the logon server
restarts (names start over at 1); `LogonAdmitted` with two clients on one account (the
later session replaces the earlier one, and a mismatch erases it); `LogonDecided` for clients
that start before the cluster is ready (the window inside `onQuery`); anything that needs
`forwardConns_` after a hub restart (keepers announce a forward server once).

**Findings.** `refused` shows what line 142 does in practice: `onConnection` clears the start
flag of `serverConfig_[i].id` where `i` indexes `serverStart_`. A forward process that loses
its keeper connection once is turned away as "Server Start Duplicate" when it retries, although
it is the only one.

`loop_quit` answers the FIXME at `EventLoop.cc:107`: `threadFunc` publishes the loop before
`loop()` resets `quit_`, so when the `EventLoopThread` is destroyed right after `startLoop` its
`quit()` is overwritten, the wakeup ends one `poll` and the destructor stays in `join`.

`late_shutdown`: a database thread that refuses an account is inside `shutdown()`, between the
test and the assignment of `state_`, while the I/O thread handles the client's close. It sets
`kDisconnecting` over `kDisconnected`, and the assertion in `~TcpConnection` fails.

**Fairness.** `FairSpec` is weak fairness of each process's steps other than faults: event
loops keep serving ready sockets and queued functors, database threads their queue, and a
connector retries until it connects. Weak fairness of the whole process is weaker than
fairness of each handler and is enough, because every step uses up a message, task or
connection. Faults are never required. `FairLoopSpec` lets each thread go on with what it has
begun; `poll` is relied on to return only when the eventfd is readable, not for its timeout of ten
seconds, which would hide a lost wakeup. Nobody has to queue a functor or destroy the thread.
For the other parts of muduo: a thread that can go on does, a wait need not end by itself except
the logging thread's, which has a timeout, `poll` reports a readable timerfd and the end of a
connection's data, and time passes. Nobody has to call `run`, `put`, `stop`, `send` or `close`,
and the other side need not do anything.

## 4. Proofs

For any number of keepers, forward processes, clients, connections, faults and names, from the
assumptions of `Config`, `Net`, `ForwardServer`, `LogonServer` and `LogonClient` (types of the
constants, server ids are positive, at least one connection and one name), and for muduo from
those of each module (`PoolAssumption`, `MysqlAssumption`, `TimerAssumption`, `PollerAssumption`,
the sizes of `Buffer`, ...):

| Theorem | States |
|---|---|
| `TypeCorrect` | `Spec => []TypeOK` |
| `WellFormedData` | `Spec => []WellFormed` |
| `Refinement` | `Spec => ImplementsSessionTable` |
| `RegisteredOpen` | `Spec => []RegisteredAreOpen` |
| `RoutingIsSound` | `Spec => []RoutingSound` |
| `AnswerComesFirst` | `Spec => []SessionAfterAnswer` |
| `EveryLogonItsOwn` | `Spec => []OwnLogon`, if `"logon" \notin FaultKinds`: the logon server is not restarted |
| `AuthenticatedHolds` | `Spec => []Authenticated` |
| `SingleUseHolds` | `Spec => []SingleUse` |
| `NoIdIsGivenTwice` | `Spec => []NoIdTwice`, if `LinksHold` and `OneKeeperForAll` |
| `LoadsSettle` | `Spec /\ []FewClients => []LoadInv`, if `LinksHold`, `HubHolds`, `OneKeeperForAll` and the clients are finitely many |
| `LoadIsExact` | `Spec /\ []FewClients => []LoadExact`, likewise |
| `NoLostWakeup` | `LoopSpec => []AwakeForWork`, for any threads and number of functors |
| `FunctorsInOrder` | `LoopSpec => []InOrder`, likewise |
| `PoolLosesNoWakeup` | `PoolSpec => []NoLostNotify`, for any workers, producers and queue size |
| `JoinAllDrainsQueue` | `MysqlSpec => []JoinDrains`, for any threads and number of queries |
| `NoLineIsLost` | `LogSpec => []NoLineLost`, for any lines and buffers of any size |
| `ConnectionAssertionsHold` | `ConnSpec => []ConnAssertions`, for any threads |
| `OnlyLateSendsDangle` | `ConnSpec => []LateSendsOnly` |
| `WireInOrder` | `ConnSpec => []OrderOnWire`, for any threads and messages of any size |
| `FlushesBeforeFin` | `ConnSpec => []FlushedBeforeFin` |
| `ClientAssertionsHold` | `ClientSpec => []ClientAssertions`, for any number of calls |
| `ClientLeaksNoSocket` | `ClientSpec => []NoSocketLeak`, if `MaxConnects <= 1` |
| `ClientGoesOn` | `ClientSpec => []OneAttempt`, likewise |
| `LoopWaitsAsAsked` | `PollerSpec => []WatchedAsAsked`, for any Channels and descriptors |
| `TimerSetsAgree` | `TimerSpec => []TimerTypeOK`: `timers_` and `activeTimers_` hold the same live timers |
| `TimerfdArmed` | `TimerSpec => []Armed` |
| `CancelIsExact` | `TimerSpec => []CancelExact` |
| `BufferLayout` | `BufSpec => []BufTypeOK`: the indices stay in order and inside the vector |
| `BufferIsByteQueue` | `BufSpec => ImplementsByteQueue`, for any bytes and sizes |
| `FramesArriveInOrder` | `CodecSpec /\ []Held => []FramesInOrder`, for any lengths, block size, initial size and pieces, if a fresh byte is a byte of the codec (`Zero \in CodecByte`) |

*Types.* `TypeOK` is not inductive. An INC or DEC carries `server[p]`, which is an id only if
the process still has a `ForwardServer`; a task carries the name of a connection, which exists
only if open connections are in `clientConns_`; the keeper clears `serverConfig_[i].id` with an
index of `serverStart_`, which is in range only if `serverStart_` has no id twice (a pigeonhole
argument, `ServerStartIndex`). `TypeInv` adds these facts (`WellFormed`, which `faults` checks
too) and one more, `Mail`: a message that asks for a session carries a pair that is in
`verified`. It has one lemma per process, `XActions`, with a step per handler, and `XStepType`
combines it with the parts the process does not touch.

*Registration and routing.* `RegisteredAreOpen` says that a table holds open connections;
`RegInv` adds of which kind and whose they are, and that what is on its way to the hub introduces
its true sender (`Introduced`): otherwise a late `HubConnectionData` could enter a connection in
the wrong table. `RoutingSound` and `SessionAfterAnswer` follow from one invariant, `RouteInv`, on
the course of each connection of a forward process to its keeper: it asks for an id once, the
answer is in flight or read, a session request in flight is behind the answer, the id under which
the keeper has it is the one in the answer, and a process has one such connection at a time.
`onQuery` enters the connection in `conns_` as its last step, which is what makes the order of the
two threads harmless.

*Own logon.* `OwnInv` follows a uid and its password from the client's message over the task, the
pair in `verified` and the trip through hub, keeper and forward process back to the connection it
came from. `Mail` gives the trip; what is added is that the name in each of these belongs to a
connection of the client who sent them. The names begin again when the logon server restarts, and
`OwnLogon` is false then: hence the hypothesis, which the run `own_logon` has too.

*Sessions.* `SessionProofs` shows that each step of the cluster is one of the five steps of
`SessionTable` or leaves it alone; `Mail` is what makes issuing a session an `Issue` step. The
invariant `SessionInv` is then needed for those five only: a held session has a serial number
that has been issued, that no other held session and no admission has, and a verified uid.

*Ids and loads.* The index error at `KeeperServer.cc:142` frees the wrong id when a forward process
loses its keeper connection, so ids can be given twice and loads go wrong then. The hypotheses keep
to the runs where that cannot happen: `LinksHold`, no keeper or forward process restarts and no
connection between them is cut; `HubHolds`, the same for the hub and its keepers;
`OneKeeperForAll`, one keeper as in `run.sh`; `FewClients`, fewer clients than a `uint16_t` counts.
The logon server and the clients may fail at any time. `IdInv` says that an id is given for good:
who asks has asked once, and the flag in `serverStart_` stays set. `ListInv` follows the one ADD of
a server from the keeper's queue to `forwardConns_`. `Sorted` says that on both queues, from the
forward process to the keeper and from there to the hub, reports of a server come behind its ADD,
so `onHubKeeperUpdateForwardConns` always finds the entry. `LoadInv` does not sum: it says that
the count, followed step by step through the reports in the two queues, stays between 0 and 65535
and ends at the number of clients, so that an append to a queue only appends a step to such a walk
and a delivery takes the first one off.

*Event loop.* `AwakeForWork` speaks of `poll` only; the inductive `WakeupComing` extends it to
every place but the handlers, the one place where the eventfd is read and after which what is
pending is taken up. `InOrder` needs that the local vector of functors is empty outside
`doPendingFunctors` (`CallingOnly`).

*Thread pool.* `NoLostNotify` counts: while a worker sleeps, as many others are on their way as
there are tasks, and likewise for producers and free places. With the types this is inductive;
the steps are about sets whose cardinality changes by one.

*Database threads.* `DrainInv`: the queue holds queries and then stops; the stops in the queue and
the ended threads are together the stops that were put; every query is in the queue, with a thread
or done. When the last thread has ended no stop is left, and no query can be before one.

*Logging.* `LogInv`: the file, the buffers the logging thread has taken, those that are full and the
current one hold increasing line numbers, each below the next, and together with the dropped lines
they are exactly the lines appended (`Parts`); which spare buffers exist at which place of
`threadFunc` (`LogTurn`), so that `newBuffer1` and `newBuffer2` can be refilled and the assertions
on `buffersToWrite` hold.

*Connection.* `LifeInv` follows a connection from `newConnection` to its destructor: what it can
have queued before it is established, that an established one is in the server's map, that going
down happens once and leaves one `connectDestroyed`, and that a functor with a raw pointer has a
`connectDestroyed` behind it or was queued late. `WireInv` says where each message is: on the wire
or in `outputBuffer_` (whole, at its place), in a functor, in the hands of its thread, or given up
because the connection was closing or had an error (`Stuck`); once one is given up nothing later
goes out unless `kDisconnected` was overwritten. `shutdownInLoop` waits for an
empty `outputBuffer_` (`ShutFirst`, `OutputWatched`), which gives `FlushedBeforeFin`.

*Client.* As long as `connect` has been called at most once, `ClientCore` relates `state_`, the
channel, the timers, the functors and the connection:
at most one of them carries the next attempt (`AtMostOne`), a finished attempt has one
`resetChannel` to come (`ChannelReset`), after the destructor nothing starts again (`GoneStops`), and
while nobody stopped the client one is there (`GoesOn`). The `Connector` is held while the client
exists and, after a destructor without a connection, until the pending `stopInLoop` has ended the
attempt (`HeldWhile`); once it is held no more there is no attempt, and no functor unless the client
was destroyed early (`LeftAlone`); so `Unharmed` says that only an early destructor makes anything
fail. The user calls `connect` once, as all of mmvx does: with a second call after a close the
assertion in `Connector::startInLoop` fails (see section 3). `ClientAssertions` says so itself,
the other two theorems have it as their hypothesis.

*Pollers.* `PollerInv` says of each Channel what `channels_`, the kernel and `pollfds_` have for it.
With `EPollPoller` the three values of `index_` are the three cases. With `PollPoller` every
pollfd belongs to exactly one added Channel, whose `index_` it is at; so the descriptor in the last
pollfd, ignored or not, leads `removeChannel` to the Channel whose index it must change.
A Channel whose descriptor was handed over has none any more (`HandedInv`), so that its destructor
does not find it in `channels_`, whichever Channel has the descriptor by then.

*Timers.* `TimerInv` adds `PendingAdds` to the two properties: the `Timer` of a pending
`addTimerInLoop` is live, held by neither set, and has one such functor. Without it another
`Timer` could be made at its address. `Armed` leaves out the time inside `handleRead`,
which `reset` ends by setting the timerfd for the first timer. `CancelIsExact` needs in addition
`CancelInv`: live Timers have different sequence numbers, all of them given out before, and a
cancelled one that is still live is being called and is in `cancelingTimers_`, so `reset` deletes it.
For the other half, `StrayInv` says where each `TimerId` comes from: it has the number of its own
timer (`Names`), unless that was read late, and so has every pending cancel (`Aimed`).

*Buffer.* `BufTypeOK` orders the indices. One lemma per operation states exactly what is
readable afterwards (`AppendContent`, `ReadFdContent`, `PrependContent`, `EnsureContent`,
`ShrinkContent`, `RetrieveContent`, `UnwriteContent`), each from what a copy between two places
of the vector leaves (`CopiedBetween`). The refinement follows (`BufferStep`): each operation is
the step of `ByteQueue` that `call` names, with its bytes or its number.

*Codec.* `Arranged` takes what is readable and what is still on its way as one sequence and says
where in it, from the front of the buffer, the frame of each message begins (`Laid`): the next one
at the front, or behind the padding of the message before. Every byte of a frame is what was sent,
encrypted or decrypted, or junk (`Matches`). Content that `parse` accepts carries the name and place
of its bytes, so it can only be that of the next message, at the very front (`ParsedIsNext`); this
needs nothing about blocks. That no error comes early does: as long as the reads end with frames
and no message delivered had padding (`Orderly`), `decryptIndex_` and the frames are at borders of
blocks, and what is in front of it is decrypted and what is behind is not (`Neat`), so
`decryptBuffer` turns whole blocks of one frame (`ByteUnveiled`). `Blame` records for the first
error what it is due to; sending more does not change it. The hypothesis `Held`, that the vector is
smaller than 2^64 (`SizeModulus`), keeps `decryptIndex_` from wrapping around; it is true of any
`std::vector` and in the states of the run `net`.

Only model-checked are the liveness properties (`LogonDecided`, `LogonAdmitted`, `Reregistered`,
`GoneIsUnlisted`, `FunctorsRun`, `QuitEndsLoop`, `StopReturns`, `QueriesDone`, `LinesWritten`,
`ClosedIsDestroyed`, `TimersRun`): they need fairness and ENABLED, which are out of reach of
the prover.

## 5. Not modelled, and what is left

* The Lua interpreter and `lua_tinker` (`src/lua`, about 18,700 lines): third-party code that
  evaluates the configuration files; their result is the constants of `Config`.
* The examples (about 20,000 lines): demonstration programs of muduo, independent of the servers.
* HTTP, inspector and RPC: extras of muduo that no server of this repository links.
* `BoundedBlockingQueue`, `CountDownLatch`, `Thread` and the thread-local wrappers: the first is
  the queue of `ThreadPool` without `stop` and unused by the servers, the others are thin layers
  over pthreads.
* `LogFile`, `LogStream`, `Logging`, `Date`, `Timestamp`: file I/O and formatting.
* `Socket`, `SocketsOps`, `InetAddress`, `Acceptor::handleRead`: wrappers of system calls; what
  they do to the servers is in `Net` and `ForwardServer`.
* The database and mysql++ (a constant table; a connection that answers or does not), AES, the
  kernel's sockets, timerfd, eventfd and epoll: external, modelled from their use.

The first two make up most of the repository, which is why the definitions here map only about 6 %
of its lines: about three quarters of the five programs, and of muduo the parts with state that
the programs depend on.

Left: an abstract channel that `TcpConnection` implements and `Net` uses, so that `WireInOrder`
carries over to the cluster.

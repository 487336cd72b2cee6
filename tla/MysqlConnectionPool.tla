------------------------ MODULE MysqlConnectionPool ------------------------
(***************************************************************************)
(* MysqlConnectionPool (muduo/base), the database threads of the logon     *)
(* server: tasks come through a BlockingQueue, each holds a connection     *)
(* while it runs, and grab() limits how many are in use with a counter     *)
(* that the threads change without a lock.                                 *)
(*                                                                         *)
(* A task is queryLogonAccount: a ScopedConnection (external, mysql++)     *)
(* grabs a connection, pings it, drops it and grabs another one if it has  *)
(* gone stale, and releases it in the end.                                 *)
(***************************************************************************)
EXTENDS Integers, Sequences, FiniteSets, Condition

CONSTANTS DbThreads,     \* threads_
          MaxInUseConns, \* kMaxInUseConns_
          MaxCounter,    \* the largest value of inUseConns_, an unsigned int
          MaxQueries,    \* bound: tasks put in in one behaviour
          MaxStale       \* bound: connections that have gone stale when they are grabbed

ASSUME MysqlAssumption == /\ IsFiniteSet(DbThreads) /\ DbThreads # {}
                          /\ MaxInUseConns \in Nat
                          /\ MaxCounter \in Nat /\ MaxCounter > MaxInUseConns
                          /\ MaxQueries \in Nat
                          /\ MaxStale \in Nat

VARIABLES tasks,        \* queue_: numbered queries, and Stop
          dbThread,     \* where each thread is
          inUseConns,   \* inUseConns_
          loaded,       \* the value a thread in ++ or -- has read
          joiner,       \* how many stops joinAll has put in; Joined when it has returned
          putQueries,   \* history: queries put in so far
          doneQueries,  \* history: queries whose task has returned
          current,      \* history: the query each thread runs
          stale         \* history: connections dropped by safe_grab

mysqlVars == <<tasks, dbThread, inUseConns, loaded, joiner, putQueries, doneQueries, current, stale>>

StopTask == 0
NotJoining == -1

MysqlInit == /\ tasks = <<>>
             /\ dbThread = [t \in DbThreads |-> "taking"]
             /\ inUseConns = 0
             /\ loaded = [t \in DbThreads |-> 0]
             /\ joiner = NotJoining
             /\ putQueries = 0
             /\ doneQueries = {}
             /\ current = [t \in DbThreads |-> 0]
             /\ stale = 0

TakeWaiters == {t \in DbThreads : dbThread[t] = "waiting"}

(* Mutant: put wakes nobody. *)
PutTaskSilently(task) == /\ tasks' = Append(tasks, task)
                         /\ UNCHANGED dbThread

(* BlockingQueue::put *)
PutTask(task) ==
    /\ tasks' = Append(tasks, task)
    /\ \E woken \in Notify(TakeWaiters) :
          dbThread' = [t \in DbThreads |-> IF t \in woken THEN "taking" ELSE dbThread[t]]

(* put, by onLogon. *)
PutQuery ==
    /\ joiner = NotJoining
    /\ putQueries < MaxQueries
    /\ putQueries' = putQueries + 1
    /\ PutTask(putQueries + 1)
    /\ UNCHANGED <<inUseConns, loaded, joiner, doneQueries, current, stale>>

(* Mutant: the stops overtake the queries. *)
PutStopFirst ==
    /\ joiner < Cardinality(DbThreads)
    /\ joiner' = IF joiner = NotJoining THEN 1 ELSE joiner + 1
    /\ tasks' = <<StopTask>> \o tasks
    /\ \E woken \in Notify(TakeWaiters) :
          dbThread' = [t \in DbThreads |-> IF t \in woken THEN "taking" ELSE dbThread[t]]
    /\ UNCHANGED <<inUseConns, loaded, putQueries, doneQueries, current, stale>>

(* joinAll: one stop for each thread ... *)
PutStop ==
    /\ joiner < Cardinality(DbThreads)
    /\ joiner' = IF joiner = NotJoining THEN 1 ELSE joiner + 1
    /\ PutTask(StopTask)
    /\ UNCHANGED <<inUseConns, loaded, putQueries, doneQueries, current, stale>>

(* ... and then every thread is joined. *)
JoinAll ==
    /\ joiner = Cardinality(DbThreads)
    /\ \A t \in DbThreads : dbThread[t] = "ended"
    /\ joiner' = Cardinality(DbThreads) + 1
    /\ UNCHANGED <<tasks, dbThread, inUseConns, loaded, putQueries, doneQueries, current, stale>>

-----------------------------------------------------------------------------
(* A database thread: threadFunc. *)

(* BlockingQueue::take: while (queue_.empty()) notEmpty_.wait() *)
QueueWaits(t) ==
    /\ dbThread[t] = "taking"
    /\ tasks = <<>>
    /\ dbThread' = [dbThread EXCEPT ![t] = "waiting"]
    /\ UNCHANGED <<tasks, inUseConns, loaded, joiner, putQueries, doneQueries, current, stale>>

QueueSpurious(t) ==
    /\ t \in TakeWaiters
    /\ dbThread' = [dbThread EXCEPT ![t] = "taking"]
    /\ UNCHANGED <<tasks, inUseConns, loaded, joiner, putQueries, doneQueries, current, stale>>

(* take returns a task; stop() ends the thread that runs it. *)
QueueTakes(t) ==
    /\ dbThread[t] = "taking"
    /\ tasks # <<>>
    /\ tasks' = Tail(tasks)
    /\ dbThread' = [dbThread EXCEPT ![t] = IF Head(tasks) = StopTask THEN "ended" ELSE "grabbing"]
    /\ current' = [current EXCEPT ![t] = Head(tasks)]
    /\ UNCHANGED <<inUseConns, loaded, joiner, putQueries, doneQueries, stale>>

(* grab: while (inUseConns_ > kMaxInUseConns_) sleep(1) *)
GrabTests(t) ==
    /\ dbThread[t] = "grabbing"
    /\ inUseConns <= MaxInUseConns
    /\ dbThread' = [dbThread EXCEPT ![t] = "incrementing"]
    /\ UNCHANGED <<tasks, inUseConns, loaded, joiner, putQueries, doneQueries, current, stale>>

(* ++inUseConns_ reads the counter ... *)
IncrementLoads(t) ==
    /\ dbThread[t] = "incrementing"
    /\ loaded' = [loaded EXCEPT ![t] = inUseConns]
    /\ dbThread' = [dbThread EXCEPT ![t] = "incremented"]
    /\ UNCHANGED <<tasks, inUseConns, joiner, putQueries, doneQueries, current, stale>>

(* ... and writes it. *)
IncrementStores(t) ==
    /\ dbThread[t] = "incremented"
    /\ inUseConns' = (loaded[t] + 1) % (MaxCounter + 1)
    /\ loaded' = [loaded EXCEPT ![t] = 0]
    /\ dbThread' = [dbThread EXCEPT ![t] = "grabbed"]
    /\ UNCHANGED <<tasks, joiner, putQueries, doneQueries, current, stale>>

(* safe_grab: a connection that does not answer is removed, not released,  *)
(* and another one grabbed.                                                *)
PingFails(t) ==
    /\ dbThread[t] = "grabbed"
    /\ stale < MaxStale
    /\ stale' = stale + 1
    /\ dbThread' = [dbThread EXCEPT ![t] = "grabbing"]
    /\ UNCHANGED <<tasks, inUseConns, loaded, joiner, putQueries, doneQueries, current>>

(* The task runs, and ~ScopedConnection calls release: --inUseConns_ reads *)
(* the counter ...                                                         *)
ReleaseLoads(t) ==
    /\ dbThread[t] = "grabbed"
    /\ loaded' = [loaded EXCEPT ![t] = inUseConns]
    /\ dbThread' = [dbThread EXCEPT ![t] = "decremented"]
    /\ UNCHANGED <<tasks, inUseConns, joiner, putQueries, doneQueries, current, stale>>

(* ... and writes it, and the thread goes on to the next task. *)
ReleaseStores(t) ==
    /\ dbThread[t] = "decremented"
    /\ inUseConns' = (loaded[t] + MaxCounter) % (MaxCounter + 1)
    /\ loaded' = [loaded EXCEPT ![t] = 0]
    /\ dbThread' = [dbThread EXCEPT ![t] = "taking"]
    /\ doneQueries' = doneQueries \cup {current[t]}
    /\ current' = [current EXCEPT ![t] = 0]
    /\ UNCHANGED <<tasks, joiner, putQueries, stale>>

-----------------------------------------------------------------------------
DbThreadStep(t) == \/ QueueWaits(t)
                   \/ QueueTakes(t)
                   \/ GrabTests(t)
                   \/ IncrementLoads(t)
                   \/ IncrementStores(t)
                   \/ ReleaseLoads(t)
                   \/ ReleaseStores(t)

MysqlNext == \/ PutQuery
             \/ PutStop
             \/ JoinAll
             \/ \E t \in DbThreads : DbThreadStep(t) \/ QueueSpurious(t) \/ PingFails(t)

MysqlSpec == MysqlInit /\ [][MysqlNext]_mysqlVars

(***************************************************************************)
(* Fairness: a thread that can go on does; joinAll, once it has begun,     *)
(* puts in all its stops.                                                  *)
(***************************************************************************)
FairMysqlSpec == /\ MysqlSpec
                 /\ \A t \in DbThreads : WF_mysqlVars(DbThreadStep(t))
                 /\ WF_mysqlVars(joiner # NotJoining /\ PutStop)
                 /\ WF_mysqlVars(JoinAll)

-----------------------------------------------------------------------------
(* Threads that hold a connection, or are about to give one back. *)
Holders == {t \in DbThreads : dbThread[t] \in {"grabbed", "decremented"}}

(* The counter is wrong: an update of it was lost between two threads, or  *)
(* a stale connection was dropped and never counted back.                  *)
Drifted == /\ \A t \in DbThreads : dbThread[t] \notin {"incremented", "decremented"}
           /\ inUseConns # Cardinality(Holders)

(* Every query that was put in runs: no wakeup of a database thread is     *)
(* lost, and grab lets it through, unless the counter has drifted, after   *)
(* which grab may wait for ever.                                           *)
QueriesDone == \A n \in 1..MaxQueries : putQueries >= n ~> n \in doneQueries \/ Drifted

(* When joinAll returns every query put in before it has run: the stops    *)
(* come after them in the queue, and each thread takes one.                *)
JoinDrains == joiner > Cardinality(DbThreads) => tasks = <<>> /\ doneQueries = 1..putQueries
=============================================================================

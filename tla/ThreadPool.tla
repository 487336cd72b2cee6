----------------------------- MODULE ThreadPool -----------------------------
(***************************************************************************)
(* ThreadPool (muduo/base): producers put tasks into a queue that may be   *)
(* bounded, workers take them, and stop() ends the workers.  Tasks are     *)
(* numbered in the order in which they are put in.                         *)
(***************************************************************************)
EXTENDS Integers, Sequences, FiniteSets, Condition

CONSTANTS Workers,        \* threads_
          Producers,      \* threads that call run
          MaxQueueSize,   \* maxQueueSize_, 0 if the queue is not bounded
          MaxTasks        \* bound: run is not called any more once so many tasks are in

ASSUME PoolAssumption == /\ IsFiniteSet(Workers) /\ Workers # {}
                         /\ IsFiniteSet(Producers)
                         /\ MaxQueueSize \in Nat
                         /\ MaxTasks \in Nat

VARIABLES running,    \* running_
          queue,      \* queue_
          worker,     \* where each worker is
          producer,   \* where each producer is
          stopper,    \* where the thread that calls stop is
          put         \* history: tasks put in so far

poolVars == <<running, queue, worker, producer, stopper, put>>

(* start(numThreads) *)
PoolInit == /\ running = TRUE
            /\ queue = <<>>
            /\ worker = [w \in Workers |-> "testing"]
            /\ producer = [p \in Producers |-> "idle"]
            /\ stopper = "idle"
            /\ put = 0

(* The threads that wait for notEmpty_, and those that wait for notFull_. *)
NotEmptyWaiters == {w \in Workers : worker[w] = "waiting"}
NotFullWaiters == {p \in Producers : producer[p] = "waiting"}

IsFull == MaxQueueSize > 0 /\ Len(queue) >= MaxQueueSize

-----------------------------------------------------------------------------
(* A producer. *)

CallRun(p) ==
    /\ producer[p] = "idle"
    /\ put < MaxTasks
    /\ producer' = [producer EXCEPT ![p] = "running"]
    /\ UNCHANGED <<running, queue, worker, stopper, put>>

(* run: while (isFull()) notFull_.wait() *)
RunWaits(p) ==
    /\ producer[p] = "running"
    /\ IsFull
    /\ producer' = [producer EXCEPT ![p] = "waiting"]
    /\ UNCHANGED <<running, queue, worker, stopper, put>>

(* Mutant: a worker is woken only when the queue was empty. *)
WokenByFirst == IF queue = <<>> THEN Notify(NotEmptyWaiters) ELSE {{}}

(* notEmpty_.notify() *)
WokenByRun == Notify(NotEmptyWaiters)

(* run: queue_.push_back(task) *)
RunPuts(p) ==
    /\ producer[p] = "running"
    /\ ~IsFull
    /\ put' = put + 1
    /\ queue' = Append(queue, put + 1)
    /\ \E woken \in WokenByRun :
          worker' = [w \in Workers |-> IF w \in woken THEN "taking" ELSE worker[w]]
    /\ producer' = [producer EXCEPT ![p] = "idle"]
    /\ UNCHANGED <<running, stopper>>

-----------------------------------------------------------------------------
(* A worker: runInThread. *)

(* while (running_), which is read without the mutex. *)
TestRunning(w) ==
    /\ worker[w] = "testing"
    /\ worker' = [worker EXCEPT ![w] = IF running THEN "taking" ELSE "ended"]
    /\ UNCHANGED <<running, queue, producer, stopper, put>>

(* take: while (queue_.empty() && running_) notEmpty_.wait() *)
TakeWaits(w) ==
    /\ worker[w] = "taking"
    /\ queue = <<>>
    /\ running
    /\ worker' = [worker EXCEPT ![w] = "waiting"]
    /\ UNCHANGED <<running, queue, producer, stopper, put>>

(* take returns no task: stop() has been called. *)
TakeNone(w) ==
    /\ worker[w] = "taking"
    /\ queue = <<>>
    /\ ~running
    /\ worker' = [worker EXCEPT ![w] = "testing"]
    /\ UNCHANGED <<running, queue, producer, stopper, put>>

(* if (maxQueueSize_ > 0) notFull_.notify() *)
WokenByTake == IF MaxQueueSize > 0 THEN Notify(NotFullWaiters) ELSE {{}}

(* take: queue_.pop_front() *)
TakeTask(w) ==
    /\ worker[w] = "taking"
    /\ queue # <<>>
    /\ queue' = Tail(queue)
    /\ worker' = [worker EXCEPT ![w] = "working"]
    /\ \E woken \in WokenByTake :
          producer' = [p \in Producers |-> IF p \in woken THEN "running" ELSE producer[p]]
    /\ UNCHANGED <<running, stopper, put>>

(* task() returns. *)
TaskDone(w) ==
    /\ worker[w] = "working"
    /\ worker' = [worker EXCEPT ![w] = "testing"]
    /\ UNCHANGED <<running, queue, producer, stopper, put>>

(* A wait ends for no reason. *)
SpuriousWakeup ==
    \/ /\ \E w \in NotEmptyWaiters : worker' = [worker EXCEPT ![w] = "taking"]
       /\ UNCHANGED <<running, queue, producer, stopper, put>>
    \/ /\ \E p \in NotFullWaiters : producer' = [producer EXCEPT ![p] = "running"]
       /\ UNCHANGED <<running, queue, worker, stopper, put>>

-----------------------------------------------------------------------------
(* Mutant: stop() wakes one worker. *)
WokenByStopOne == Notify(NotEmptyWaiters)

(* notEmpty_.notifyAll() *)
WokenByStop == NotifyAll(NotEmptyWaiters)

(* stop: running_ = false ... *)
Stop ==
    /\ stopper = "idle"
    /\ stopper' = "joining"
    /\ running' = FALSE
    /\ \E woken \in WokenByStop :
          worker' = [w \in Workers |-> IF w \in woken THEN "taking" ELSE worker[w]]
    /\ UNCHANGED <<queue, producer, put>>

(* ... and joins every worker. *)
JoinWorkers ==
    /\ stopper = "joining"
    /\ \A w \in Workers : worker[w] = "ended"
    /\ stopper' = "stopped"
    /\ UNCHANGED <<running, queue, worker, producer, put>>

-----------------------------------------------------------------------------
RunStep(p) == RunWaits(p) \/ RunPuts(p)

WorkerStep(w) == TestRunning(w) \/ TakeWaits(w) \/ TakeNone(w) \/ TakeTask(w) \/ TaskDone(w)

PoolNext == \/ \E p \in Producers : CallRun(p) \/ RunStep(p)
            \/ \E w \in Workers : WorkerStep(w)
            \/ SpuriousWakeup
            \/ Stop
            \/ JoinWorkers

PoolSpec == PoolInit /\ [][PoolNext]_poolVars

(***************************************************************************)
(* Fairness: a thread that can go on does.  Nobody has to call run or      *)
(* stop, and no wait has to end by itself.                                 *)
(***************************************************************************)
FairPoolSpec == /\ PoolSpec
                /\ \A p \in Producers : WF_poolVars(RunStep(p))
                /\ \A w \in Workers : WF_poolVars(WorkerStep(w))
                /\ WF_poolVars(JoinWorkers)

-----------------------------------------------------------------------------
(* Every variable has its type. *)
PoolTypeOK == /\ running \in BOOLEAN
              /\ queue \in Seq(Nat)
              /\ worker \in [Workers -> {"testing", "taking", "waiting", "working", "ended"}]
              /\ producer \in [Producers -> {"idle", "running", "waiting"}]
              /\ stopper \in {"idle", "joining", "stopped"}
              /\ put \in Nat

(* No wakeup of a worker is lost: while a worker sleeps, as many others    *)
(* are on their way to the queue as there are tasks in it, although the    *)
(* one that run() woke may find its task taken by another.                 *)
NoIdleWorker ==
    NotEmptyWaiters # {} => Len(queue) <= Cardinality({w \in Workers : worker[w] = "taking"})

(* No wakeup of a producer is lost: while one waits for room, as many      *)
(* others are about to put a task in as there are free places.             *)
NoIdleProducer ==
    NotFullWaiters # {} =>
        MaxQueueSize - Len(queue) <= Cardinality({p \in Producers : producer[p] = "running"})

(* No wakeup is lost, of a worker or of a producer. *)
NoLostNotify == NoIdleWorker /\ NoIdleProducer

(* stop() returns: every worker ends, those asleep and those that were     *)
(* between their test of running_ and the wait too.                        *)
StopReturns == stopper = "joining" ~> stopper = "stopped"
=============================================================================

----------------------------- MODULE BaseProofs -----------------------------
(***************************************************************************)
(* For any number of threads, functors, workers, producers and queries:    *)
(* no wakeup of an EventLoop is lost and its functors run once each and in *)
(* order; no wakeup of a ThreadPool is lost; joinAll of a                  *)
(* MysqlConnectionPool returns only when every query has been run; and     *)
(* AsyncLogging loses no line but those it drops.                          *)
(***************************************************************************)
EXTENDS EventLoop, ThreadPool, MysqlConnectionPool, AsyncLogging, SequenceTheorems, FiniteSetTheorems, TLAPS

(* The EventLoop. *)

(* There is no loop before startLoop.  callingPendingFunctors_ and the     *)
(* local functors belong to doPendingFunctors.                             *)
CallingOnly == /\ owner = "new" => pc = "none"
               /\ calling <=> pc = "calling"
               /\ functors # <<>> => pc = "calling"

(* The eventfd is read only while the loop handles events, and what is     *)
(* pending is taken up right after: everywhere else somebody has written   *)
(* to it, or is about to.                                                  *)
WakeupComing == /\ pc # "handling" /\ pending # <<>> => eventfd \/ waking # {}
                /\ pc = "polling" /\ quit => eventfd \/ owner = "waking"

(* The inductive invariant. *)
LoopInv == LoopTypeOK /\ CallingOnly /\ WakeupComing /\ InOrder

-----------------------------------------------------------------------------
(* One more functor at the end of the pending ones continues the count. *)
LEMMA PushKeepsOrder ==
    ASSUME LoopTypeOK, InOrder, PushBack
    PROVE  /\ ran \o functors \o pending' = [i \in 1..queued' |-> i]
           /\ pending' \in Seq(Nat)
           /\ queued' \in Nat
<1> DEFINE done == ran \o functors
<1>1. done \in Seq(Nat) /\ pending \in Seq(Nat) /\ queued + 1 \in Nat
    BY ConcatProperties DEF LoopTypeOK
<1>2. done \o Append(pending, queued + 1) = Append(done \o pending, queued + 1)
    <2> HIDE DEF done
    <2> QED BY <1>1
<1>3. Append([i \in 1..queued |-> i], queued + 1) = [i \in 1..(queued + 1) |-> i]
    BY DEF LoopTypeOK
<1>4. done \o pending' = Append(done \o pending, queued') /\ queued' = queued + 1
    <2> HIDE DEF done
    <2> QED BY <1>2 DEF PushBack
<1>5. pending' \in Seq(Nat)
    BY <1>1, AppendProperties DEF PushBack
<1> QED BY <1>1, <1>3, <1>4, <1>5 DEF InOrder

(* Running the first of the functors moves it from one sequence to the     *)
(* next.                                                                   *)
LEMMA CallKeepsOrder ==
    ASSUME NEW r \in Seq(Nat), NEW f \in Seq(Nat), f # <<>>
    PROVE  /\ Append(r, Head(f)) \o Tail(f) = r \o f
           /\ Append(r, Head(f)) \in Seq(Nat)
           /\ Tail(f) \in Seq(Nat)
    BY SMTT(30)

(* The loop begins with nothing queued. *)
LEMMA LoopInvInit == LoopInit => LoopInv
<1> SUFFICES ASSUME LoopInit PROVE LoopInv
    OBVIOUS
<1>1. LoopTypeOK
    <2>1. <<>> \in Seq(Nat)
        OBVIOUS
    <2> QED BY <2>1, Zenon DEF LoopInit, LoopTypeOK, PlaceInLoop
<1>2. CallingOnly /\ WakeupComing
    BY DEF LoopInit, CallingOnly, WakeupComing
<1>3. InOrder
    BY DEF LoopInit, InOrder
<1> QED BY <1>1, <1>2, <1>3 DEF LoopInv

(* Every step keeps the types. *)
LEMMA LoopTypeStep == LoopInv /\ [LoopNext]_loopVars => LoopTypeOK'
<1> SUFFICES ASSUME LoopInv, [LoopNext]_loopVars PROVE LoopTypeOK'
    OBVIOUS
<1> USE DEF LoopInv, LoopTypeOK, PlaceInLoop
<1>1. ASSUME NEW t \in Threads, QueueInLoop(t) PROVE LoopTypeOK'
    BY <1>1, PushKeepsOrder DEF QueueInLoop
<1>2. ASSUME NEW t \in Threads, Wakeup(t) PROVE LoopTypeOK'
    BY <1>2 DEF Wakeup
<1>3. CASE Owner
    BY <1>3 DEF Owner, StartThread, StartLoop, DtorTest, DtorQuit, DtorWakeup, DtorJoin
<1>4. CASE Publish \/ EnterLoop \/ TestQuit \/ LeaveLoop
    BY <1>4 DEF Publish, EnterLoop, TestQuit, LeaveLoop
<1>5. CASE HandleRead \/ PollReturns \/ HandlerQuits
    BY <1>5 DEF HandleRead, PollReturns, HandlerQuits
<1>6. CASE DoPendingFunctors \/ FunctorsCalled
    <2>1. <<>> \in Seq(Nat)
        OBVIOUS
    <2> QED BY <1>6, <2>1 DEF DoPendingFunctors, FunctorsCalled
<1>7. CASE HandlerQueues
    BY <1>7, PushKeepsOrder DEF HandlerQueues, WakesItself
<1>8. CASE CallFunctor
    <2>1. ran' \in Seq(Nat) /\ functors' \in Seq(Nat)
        BY <1>8, CallKeepsOrder DEF CallFunctor
    <2>2. pending' \in Seq(Nat) /\ queued' \in Nat /\ quit' \in BOOLEAN /\ eventfd' \in BOOLEAN
        BY <1>8, PushKeepsOrder DEF CallFunctor, WakesItself
    <2> QED BY <1>8, <2>1, <2>2 DEF CallFunctor
<1>9. CASE UNCHANGED loopVars
    BY <1>9 DEF loopVars
<1> QED BY <1>1, <1>2, <1>3, <1>4, <1>5, <1>6, <1>7, <1>8, <1>9 DEF LoopNext, LoopStep

(* Every step keeps track of the call of doPendingFunctors and leaves no   *)
(* work behind without a wakeup.                                           *)
LEMMA LoopWakeupStep == LoopInv /\ [LoopNext]_loopVars => (CallingOnly /\ WakeupComing)'
<1> SUFFICES ASSUME LoopInv, [LoopNext]_loopVars PROVE (CallingOnly /\ WakeupComing)'
    OBVIOUS
<1> USE DEF LoopInv, CallingOnly, WakeupComing
<1>1. ASSUME NEW t \in Threads, QueueInLoop(t) PROVE (CallingOnly /\ WakeupComing)'
    BY <1>1 DEF QueueInLoop
<1>2. ASSUME NEW t \in Threads, Wakeup(t) PROVE (CallingOnly /\ WakeupComing)'
    BY <1>2 DEF Wakeup
<1>3. CASE Owner
    <2>1. CASE StartThread \/ StartLoop
        BY <1>3, <2>1 DEF StartThread, StartLoop
    <2>2. CASE DtorTest
        BY <2>2 DEF DtorTest
    <2>3. CASE DtorQuit
        BY <2>3 DEF DtorQuit
    <2>4. CASE DtorWakeup \/ DtorJoin
        BY <2>4 DEF DtorWakeup, DtorJoin
    <2> QED BY <1>3, <2>1, <2>2, <2>3, <2>4 DEF Owner
<1>4. CASE Publish \/ EnterLoop \/ TestQuit \/ LeaveLoop
    BY <1>4 DEF Publish, EnterLoop, TestQuit, LeaveLoop
<1>5. CASE HandleRead \/ PollReturns \/ HandlerQuits
    <2>1. CASE HandleRead
        BY <2>1 DEF HandleRead
    <2>2. CASE PollReturns
        BY <2>2 DEF PollReturns
    <2>3. CASE HandlerQuits
        BY <2>3 DEF HandlerQuits
    <2> QED BY <1>5, <2>1, <2>2, <2>3
<1>6. CASE DoPendingFunctors \/ FunctorsCalled
    BY <1>6 DEF DoPendingFunctors, FunctorsCalled
<1>7. CASE HandlerQueues
    BY <1>7 DEF HandlerQueues
<1>8. CASE CallFunctor
    <2>1. CallingOnly'
        BY <1>8 DEF CallFunctor
    <2>2. pending' # <<>> => eventfd' \/ waking' # {}
        <3>1. CASE pending' = pending /\ eventfd' = eventfd
            BY <1>8, <3>1 DEF CallFunctor
        <3>2. CASE eventfd' = (eventfd \/ WakesItself)
            <4>1. WakesItself
                BY <1>8 DEF CallFunctor, WakesItself
            <4> QED BY <3>2, <4>1, Zenon
        <3> QED BY <1>8, <3>1, <3>2 DEF CallFunctor
    <2> QED BY <1>8, <2>1, <2>2 DEF CallFunctor
<1>9. CASE UNCHANGED loopVars
    BY <1>9 DEF loopVars
<1> QED BY <1>1, <1>2, <1>3, <1>4, <1>5, <1>6, <1>7, <1>8, <1>9 DEF LoopNext, LoopStep

(* Every step keeps the functors in order. *)
LEMMA LoopOrderStep == LoopInv /\ [LoopNext]_loopVars => InOrder'
<1> SUFFICES ASSUME LoopInv, [LoopNext]_loopVars PROVE InOrder'
    OBVIOUS
<1> USE DEF LoopInv
<1>1. ASSUME NEW t \in Threads, QueueInLoop(t) PROVE InOrder'
    BY <1>1, PushKeepsOrder DEF QueueInLoop, InOrder
<1>2. CASE HandlerQueues
    BY <1>2, PushKeepsOrder DEF HandlerQueues, InOrder
<1>3. CASE DoPendingFunctors
    <2>1. functors = <<>>
        BY <1>3 DEF DoPendingFunctors, CallingOnly
    <2>2. ran \o functors \o pending = ran \o pending \o <<>>
        BY <2>1, ConcatEmptySeq, ConcatProperties DEF LoopTypeOK
    <2> QED BY <1>3, <2>2 DEF DoPendingFunctors, InOrder
<1>4. CASE CallFunctor
    <2>1. ran' \o functors' = ran \o functors
        BY <1>4, CallKeepsOrder DEF CallFunctor, LoopTypeOK
    <2>2. ran \o functors \o pending' = [i \in 1..queued' |-> i]
        BY <1>4, PushKeepsOrder DEF CallFunctor, InOrder
    <2> QED BY <2>1, <2>2 DEF InOrder
<1>5. ASSUME UNCHANGED <<ran, functors, pending, queued>> PROVE InOrder'
    BY <1>5 DEF InOrder
<1>6. ASSUME NEW t \in Threads, Wakeup(t) PROVE InOrder'
    BY <1>5, <1>6 DEF Wakeup
<1>7. CASE Owner
    BY <1>5, <1>7 DEF Owner, StartThread, StartLoop, DtorTest, DtorQuit, DtorWakeup, DtorJoin
<1>8. CASE Publish \/ EnterLoop \/ TestQuit \/ LeaveLoop
    BY <1>5, <1>8 DEF Publish, EnterLoop, TestQuit, LeaveLoop
<1>9. CASE HandleRead \/ PollReturns \/ HandlerQuits \/ FunctorsCalled
    BY <1>5, <1>9 DEF HandleRead, PollReturns, HandlerQuits, FunctorsCalled
<1>10. CASE UNCHANGED loopVars
    BY <1>5, <1>10 DEF loopVars
<1> QED BY <1>1, <1>2, <1>3, <1>4, <1>6, <1>7, <1>8, <1>9, <1>10 DEF LoopNext, LoopStep

-----------------------------------------------------------------------------
(* The invariant holds in every behaviour of the loop. *)
LEMMA LoopInvariant == LoopSpec => []LoopInv
<1>1. LoopInit => LoopInv
    BY LoopInvInit
<1>2. LoopInv /\ [LoopNext]_loopVars => LoopInv'
    BY LoopTypeStep, LoopWakeupStep, LoopOrderStep DEF LoopInv
<1> QED BY <1>1, <1>2, PTL DEF LoopSpec

(* No wakeup is lost: EventLoop::loop never sleeps in poll on a queued     *)
(* functor or after quit() without a readable eventfd, one that the        *)
(* queueing thread is about to write, or the owner in the midst of quit(). *)
THEOREM NoLostWakeup == LoopSpec => []AwakeForWork
<1>1. LoopInv => AwakeForWork
    BY DEF LoopInv, WakeupComing, AwakeForWork
<1> QED BY <1>1, LoopInvariant, PTL

(* queueInLoop and doPendingFunctors run each functor once and in the      *)
(* order in which the functors were queued.                                *)
THEOREM FunctorsInOrder == LoopSpec => []InOrder
<1>1. LoopInv => InOrder
    BY DEF LoopInv
<1> QED BY <1>1, LoopInvariant, PTL

-----------------------------------------------------------------------------
(* The ThreadPool. *)

(* The workers on their way to the queue, and the producers about to put   *)
(* a task in.                                                              *)
Taking == {w \in Workers : worker[w] = "taking"}
Putting == {p \in Producers : producer[p] = "running"}

(* The inductive invariant. *)
PoolInv == PoolTypeOK /\ NoIdleWorker /\ NoIdleProducer

-----------------------------------------------------------------------------
(* Whatever the workers and producers do, those on their way are finitely  *)
(* many.                                                                   *)
LEMMA FiniteCounts ==
    /\ IsFiniteSet(Taking) /\ Cardinality(Taking) \in Nat
    /\ IsFiniteSet(Putting) /\ Cardinality(Putting) \in Nat
<1>1. Taking \in SUBSET Workers /\ Putting \in SUBSET Producers
    BY DEF Taking, Putting
<1> QED BY <1>1, FS_Subset, FS_CardinalityType, PoolAssumption

(* A finite set with one element more counts one more. *)
LEMMA OneMore ==
    ASSUME NEW S, IsFiniteSet(S), NEW x, x \notin S, NEW T, T = S \cup {x}
    PROVE  IsFiniteSet(T) /\ Cardinality(T) = Cardinality(S) + 1
BY FS_AddElement

(* ... and with one element less one less. *)
LEMMA OneLess ==
    ASSUME NEW S, IsFiniteSet(S), NEW x \in S, NEW T, T = S \ {x}
    PROVE  IsFiniteSet(T) /\ Cardinality(T) = Cardinality(S) - 1
BY FS_RemoveElement

(* What notify may do: nothing if nobody waits, or wake one that waits. *)
LEMMA NotifyOne ==
    ASSUME NEW S, NEW roused \in Notify(S)
    PROVE  IF S = {} THEN roused = {} ELSE \E w \in S : roused = {w}
BY DEF Notify

-----------------------------------------------------------------------------
(* The pool starts with an empty queue and nobody asleep. *)
LEMMA PoolInvInit == PoolInit => PoolInv
<1> SUFFICES ASSUME PoolInit PROVE PoolInv
    OBVIOUS
<1>1. PoolTypeOK
    BY DEF PoolInit, PoolTypeOK
<1>2. NotEmptyWaiters = {} /\ NotFullWaiters = {}
    BY DEF PoolInit, NotEmptyWaiters, NotFullWaiters
<1> QED BY <1>1, <1>2 DEF PoolInv, NoIdleWorker, NoIdleProducer

(* Every step keeps the types. *)
LEMMA PoolTypeStep == PoolTypeOK /\ [PoolNext]_poolVars => PoolTypeOK'
<1> SUFFICES ASSUME PoolTypeOK, [PoolNext]_poolVars PROVE PoolTypeOK'
    OBVIOUS
<1> USE DEF PoolTypeOK
<1>1. ASSUME NEW p \in Producers, CallRun(p) PROVE PoolTypeOK'
    BY <1>1 DEF CallRun
<1>2. ASSUME NEW p \in Producers, RunWaits(p) PROVE PoolTypeOK'
    BY <1>2 DEF RunWaits
<1>3. ASSUME NEW p \in Producers, RunPuts(p) PROVE PoolTypeOK'
    BY <1>3 DEF RunPuts
<1>4. ASSUME NEW w \in Workers, WorkerStep(w) PROVE PoolTypeOK'
    <2>1. CASE TakeTask(w)
        BY <2>1 DEF TakeTask
    <2>2. CASE TestRunning(w)
        BY <2>2 DEF TestRunning
    <2>3. CASE TakeWaits(w) \/ TakeNone(w) \/ TaskDone(w)
        BY <2>3 DEF TakeWaits, TakeNone, TaskDone
    <2> QED BY <1>4, <2>1, <2>2, <2>3 DEF WorkerStep
<1>5. CASE SpuriousWakeup
    BY <1>5 DEF SpuriousWakeup, NotEmptyWaiters, NotFullWaiters
<1>6. CASE Stop
    BY <1>6 DEF Stop
<1>7. CASE JoinWorkers
    BY <1>7 DEF JoinWorkers
<1>8. CASE UNCHANGED poolVars
    BY <1>8 DEF poolVars
<1> QED BY <1>1, <1>2, <1>3, <1>4, <1>5, <1>6, <1>7, <1>8 DEF PoolNext, RunStep

(* A step keeps what is said of the workers. *)
LEMMA WorkersStep == PoolInv /\ [PoolNext]_poolVars => NoIdleWorker'
<1> SUFFICES ASSUME PoolInv, [PoolNext]_poolVars, NotEmptyWaiters' # {}
             PROVE  Len(queue') <= Cardinality(Taking')
    BY DEF NoIdleWorker, Taking
<1>0. /\ PoolTypeOK /\ PoolTypeOK'
      /\ NotEmptyWaiters # {} => Len(queue) <= Cardinality(Taking)
      /\ Len(queue) \in Nat
    BY PoolTypeStep DEF PoolInv, NoIdleWorker, PoolTypeOK, Taking
<1>n. Cardinality(Taking) \in Nat /\ IsFiniteSet(Taking)
    BY FiniteCounts
<1>n2. Cardinality(Taking') \in Nat
    <2>1. Taking' \in SUBSET Workers
        BY DEF Taking
    <2> QED BY <2>1, FS_Subset, FS_CardinalityType, PoolAssumption
<1>same. ASSUME UNCHANGED <<queue, worker>> PROVE Len(queue') <= Cardinality(Taking')
    BY <1>same, <1>0 DEF Taking, NotEmptyWaiters
<1>1. ASSUME NEW p \in Producers, RunPuts(p) PROVE Len(queue') <= Cardinality(Taking')
    <2> PICK roused \in WokenByRun :
            worker' = [w \in Workers |-> IF w \in roused THEN "taking" ELSE worker[w]]
        BY <1>1 DEF RunPuts
    <2>1. NotEmptyWaiters # {}
        <3>1. CASE NotEmptyWaiters = {}
            <4>1. roused = {}
                BY <3>1, NotifyOne DEF WokenByRun
            <4> QED BY <3>1, <4>1 DEF NotEmptyWaiters
        <3> QED BY <3>1
    <2>2. PICK v \in NotEmptyWaiters : roused = {v}
        BY <2>1, NotifyOne DEF WokenByRun
    <2>3. Taking' = Taking \cup {v} /\ v \notin Taking
        BY <2>2 DEF Taking, NotEmptyWaiters
    <2>4. Cardinality(Taking') = Cardinality(Taking) + 1
        BY <2>3, <1>n, OneMore
    <2>5. Len(queue') = Len(queue) + 1
        BY <1>1, <1>0 DEF RunPuts, PoolTypeOK
    <2> QED BY <2>1, <2>4, <2>5, <1>0, <1>n
<1>2. ASSUME NEW w \in Workers, TestRunning(w) PROVE Len(queue') <= Cardinality(Taking')
    <2>1. (Taking' = Taking \cup {w} /\ w \notin Taking) \/ Taking' = Taking
        BY <1>2, <1>0 DEF TestRunning, Taking, PoolTypeOK
    <2>2. Cardinality(Taking') >= Cardinality(Taking)
        BY <2>1, <1>n, OneMore
    <2>3. NotEmptyWaiters # {} /\ queue' = queue
        BY <1>2, <1>0 DEF TestRunning, NotEmptyWaiters, PoolTypeOK
    <2> QED BY <2>2, <2>3, <1>0, <1>n, <1>n2
<1>3. ASSUME NEW w \in Workers, TakeWaits(w) \/ TakeNone(w)
      PROVE  Len(queue') <= Cardinality(Taking')
    <2>1. queue' = <<>>
        BY <1>3 DEF TakeWaits, TakeNone
    <2> QED BY <2>1, <1>n2
<1>4. ASSUME NEW w \in Workers, TakeTask(w) PROVE Len(queue') <= Cardinality(Taking')
    <2>1. Taking' = Taking \ {w} /\ w \in Taking
        BY <1>4, <1>0 DEF TakeTask, Taking, PoolTypeOK
    <2>2. Cardinality(Taking') = Cardinality(Taking) - 1
        BY <2>1, <1>n, OneLess
    <2>3. NotEmptyWaiters # {}
        BY <1>4, <1>0 DEF TakeTask, NotEmptyWaiters, PoolTypeOK
    <2>4. Len(queue') = Len(queue) - 1
        BY <1>4, <1>0 DEF TakeTask, PoolTypeOK
    <2> QED BY <2>2, <2>3, <2>4, <1>0, <1>n
<1>5. ASSUME NEW w \in Workers, TaskDone(w) PROVE Len(queue') <= Cardinality(Taking')
    <2>1. Taking' = Taking /\ queue' = queue /\ NotEmptyWaiters' = NotEmptyWaiters
        BY <1>5, <1>0 DEF TaskDone, Taking, NotEmptyWaiters, PoolTypeOK
    <2> QED BY <2>1, <1>0
<1>6. CASE SpuriousWakeup
    <2>1. ASSUME NEW w \in NotEmptyWaiters, worker' = [worker EXCEPT ![w] = "taking"],
                 queue' = queue
          PROVE  Len(queue') <= Cardinality(Taking')
        <3>1. Taking' = Taking \cup {w} /\ w \notin Taking
            BY <2>1, <1>0 DEF Taking, NotEmptyWaiters, PoolTypeOK
        <3>2. Cardinality(Taking') = Cardinality(Taking) + 1
            BY <3>1, <1>n, OneMore
        <3> QED BY <3>2, <2>1, <1>0, <1>n
    <2> QED BY <2>1, <1>6, <1>same DEF SpuriousWakeup
<1>7. CASE Stop
    <2>1. worker' = [w \in Workers |-> IF w \in NotEmptyWaiters THEN "taking" ELSE worker[w]]
        BY <1>7 DEF Stop, WokenByStop, NotifyAll
    <2>2. NotEmptyWaiters' = {}
        BY <2>1 DEF NotEmptyWaiters
    <2> QED BY <2>2
<1>8. CASE JoinWorkers
    BY <1>8, <1>same DEF JoinWorkers
<1>9. CASE UNCHANGED poolVars
    BY <1>9, <1>same DEF poolVars
<1>10. ASSUME NEW p \in Producers, CallRun(p) \/ RunWaits(p)
       PROVE  Len(queue') <= Cardinality(Taking')
    BY <1>10, <1>same DEF CallRun, RunWaits
<1> QED BY <1>1, <1>2, <1>3, <1>4, <1>5, <1>6, <1>7, <1>8, <1>9, <1>10
        DEF PoolNext, RunStep, WorkerStep

(* A step keeps what is said of the producers. *)
LEMMA ProducersStep == PoolInv /\ [PoolNext]_poolVars => NoIdleProducer'
<1> SUFFICES ASSUME PoolInv, [PoolNext]_poolVars, NotFullWaiters' # {}
             PROVE  MaxQueueSize - Len(queue') <= Cardinality(Putting')
    BY DEF NoIdleProducer, Putting
<1>0. /\ PoolTypeOK /\ PoolTypeOK'
      /\ NotFullWaiters # {} => MaxQueueSize - Len(queue) <= Cardinality(Putting)
      /\ Len(queue) \in Nat /\ MaxQueueSize \in Nat
    BY PoolTypeStep, PoolAssumption DEF PoolInv, NoIdleProducer, PoolTypeOK, Putting
<1>n. Cardinality(Putting) \in Nat /\ IsFiniteSet(Putting)
    BY FiniteCounts
<1>n2. Cardinality(Putting') \in Nat
    <2>1. Putting' \in SUBSET Producers
        BY DEF Putting
    <2> QED BY <2>1, FS_Subset, FS_CardinalityType, PoolAssumption
<1>same. ASSUME UNCHANGED <<queue, producer>>
         PROVE  MaxQueueSize - Len(queue') <= Cardinality(Putting')
    BY <1>same, <1>0 DEF Putting, NotFullWaiters
<1>1. ASSUME NEW p \in Producers, CallRun(p)
      PROVE  MaxQueueSize - Len(queue') <= Cardinality(Putting')
    <2>1. Putting' = Putting \cup {p} /\ p \notin Putting
        BY <1>1, <1>0 DEF CallRun, Putting, PoolTypeOK
    <2>2. Cardinality(Putting') = Cardinality(Putting) + 1
        BY <2>1, <1>n, OneMore
    <2>3. NotFullWaiters # {} /\ queue' = queue
        BY <1>1, <1>0 DEF CallRun, NotFullWaiters, PoolTypeOK
    <2> QED BY <2>2, <2>3, <1>0, <1>n
<1>2. ASSUME NEW p \in Producers, RunWaits(p)
      PROVE  MaxQueueSize - Len(queue') <= Cardinality(Putting')
    <2>1. Len(queue') >= MaxQueueSize /\ Len(queue') \in Nat
        BY <1>2, <1>0 DEF RunWaits, IsFull
    <2> QED BY <2>1, <1>0, <1>n2
<1>3. ASSUME NEW p \in Producers, RunPuts(p)
      PROVE  MaxQueueSize - Len(queue') <= Cardinality(Putting')
    <2>1. Putting' = Putting \ {p} /\ p \in Putting
        BY <1>3, <1>0 DEF RunPuts, Putting, PoolTypeOK
    <2>2. Cardinality(Putting') = Cardinality(Putting) - 1
        BY <2>1, <1>n, OneLess
    <2>3. NotFullWaiters # {}
        BY <1>3, <1>0 DEF RunPuts, NotFullWaiters, PoolTypeOK
    <2>4. Len(queue') = Len(queue) + 1
        BY <1>3, <1>0 DEF RunPuts, PoolTypeOK
    <2> QED BY <2>2, <2>3, <2>4, <1>0, <1>n
<1>4. ASSUME NEW w \in Workers, TakeTask(w)
      PROVE  MaxQueueSize - Len(queue') <= Cardinality(Putting')
    <2> PICK roused \in WokenByTake :
            producer' = [p \in Producers |-> IF p \in roused THEN "running" ELSE producer[p]]
        BY <1>4 DEF TakeTask
    <2>1. Len(queue') = Len(queue) - 1 /\ Len(queue) > 0
        BY <1>4, <1>0 DEF TakeTask, PoolTypeOK
    <2>2. CASE MaxQueueSize = 0
        BY <2>1, <2>2, <1>0, <1>n2
    <2>3. CASE MaxQueueSize > 0
        <3>1. NotFullWaiters # {}
            <4>1. CASE NotFullWaiters = {}
                <5>1. roused = {}
                    BY <2>3, <4>1, NotifyOne DEF WokenByTake
                <5> QED BY <4>1, <5>1 DEF NotFullWaiters
            <4> QED BY <4>1
        <3>2. PICK v \in NotFullWaiters : roused = {v}
            BY <2>3, <3>1, NotifyOne DEF WokenByTake
        <3>3. Putting' = Putting \cup {v} /\ v \notin Putting
            BY <3>2 DEF Putting, NotFullWaiters
        <3>4. Cardinality(Putting') = Cardinality(Putting) + 1
            BY <3>3, <1>n, OneMore
        <3> QED BY <3>1, <3>4, <2>1, <1>0, <1>n
    <2> QED BY <2>2, <2>3, <1>0
<1>5. ASSUME NEW w \in Workers, TestRunning(w) \/ TakeWaits(w) \/ TakeNone(w) \/ TaskDone(w)
      PROVE  MaxQueueSize - Len(queue') <= Cardinality(Putting')
    BY <1>5, <1>same DEF TestRunning, TakeWaits, TakeNone, TaskDone
<1>6. CASE SpuriousWakeup
    <2>1. ASSUME NEW p \in NotFullWaiters, producer' = [producer EXCEPT ![p] = "running"],
                 queue' = queue
          PROVE  MaxQueueSize - Len(queue') <= Cardinality(Putting')
        <3>1. Putting' = Putting \cup {p} /\ p \notin Putting
            BY <2>1, <1>0 DEF Putting, NotFullWaiters, PoolTypeOK
        <3>2. Cardinality(Putting') = Cardinality(Putting) + 1
            BY <3>1, <1>n, OneMore
        <3> QED BY <3>2, <2>1, <1>0, <1>n
    <2> QED BY <2>1, <1>6, <1>same DEF SpuriousWakeup
<1>7. CASE Stop \/ JoinWorkers \/ UNCHANGED poolVars
    BY <1>7, <1>same DEF Stop, JoinWorkers, poolVars
<1> QED BY <1>1, <1>2, <1>3, <1>4, <1>5, <1>6, <1>7 DEF PoolNext, RunStep, WorkerStep

-----------------------------------------------------------------------------
(* ThreadPool::run and take lose no wakeup: while a worker sleeps on       *)
(* notEmpty_ there are as many on their way to the queue as tasks in it,   *)
(* and while a producer sleeps on notFull_ as many about to fill the free  *)
(* places.                                                                 *)
THEOREM PoolLosesNoWakeup == PoolSpec => []NoLostNotify
<1>1. PoolInv /\ [PoolNext]_poolVars => PoolInv'
    BY PoolTypeStep, WorkersStep, ProducersStep DEF PoolInv
<1>2. PoolInv => NoLostNotify
    BY DEF PoolInv, NoLostNotify
<1> QED BY PoolInvInit, <1>1, <1>2, PTL DEF PoolSpec

-----------------------------------------------------------------------------
(* The threads that have taken a stop, and those that run a query. *)
Ended == {t \in DbThreads : dbThread[t] = "ended"}
Querying == {"grabbing", "incrementing", "incremented", "grabbed", "decremented"}

(* The stops that joinAll has put in. *)
StopsPut == IF joiner = NotJoining THEN 0
            ELSE IF joiner > Cardinality(DbThreads) THEN Cardinality(DbThreads) ELSE joiner

MysqlTypeOK == /\ tasks \in Seq(Nat)
               /\ dbThread \in [DbThreads -> Querying \cup {"taking", "waiting", "ended"}]
               /\ joiner \in NotJoining..(Cardinality(DbThreads) + 1)
               /\ putQueries \in Nat
               /\ current \in [DbThreads -> Nat]

(* The first n tasks are queries and the rest are stops; each stop is in   *)
(* the queue or has ended a thread, the first only after the last query.   *)
StopsFollow(n) == /\ \A i \in DOMAIN tasks : tasks[i] = StopTask <=> i > n
                  /\ Len(tasks) - n + Cardinality(Ended) = StopsPut
                  /\ n > 0 => Ended = {}

(* A query is done, or a thread runs it, or it is in the queue; and there  *)
(* are no others.                                                          *)
QueriesKept ==
    /\ \A q \in 1..putQueries : \/ q \in doneQueries
                                \/ \E t \in DbThreads : dbThread[t] \in Querying /\ current[t] = q
                                \/ \E i \in DOMAIN tasks : tasks[i] = q
    /\ doneQueries \subseteq 1..putQueries
    /\ \A t \in DbThreads : dbThread[t] \in Querying => current[t] \in 1..putQueries
    /\ \A i \in DOMAIN tasks : tasks[i] \in 0..putQueries

(* The inductive invariant. *)
DrainInv == /\ MysqlTypeOK
            /\ \E n \in 0..Len(tasks) : StopsFollow(n)
            /\ QueriesKept
            /\ joiner > Cardinality(DbThreads) => Ended = DbThreads

(* Whatever the threads do, there are finitely many. *)
LEMMA EndedCount ==
    /\ IsFiniteSet(Ended) /\ Cardinality(Ended) \in Nat
    /\ Cardinality(DbThreads) \in Nat /\ Cardinality(DbThreads) > 0
    /\ Cardinality(Ended) = 0 <=> Ended = {}
<1>1. Ended \in SUBSET DbThreads
    BY DEF Ended
<1>2. IsFiniteSet(Ended)
    BY <1>1, FS_Subset, MysqlAssumption
<1>3. Cardinality(DbThreads) # 0
    BY FS_EmptySet, MysqlAssumption
<1> QED BY <1>2, <1>3, FS_CardinalityType, FS_EmptySet, MysqlAssumption

(* Nothing has been put in at the beginning. *)
LEMMA DrainInvInit == MysqlInit => DrainInv
<1> SUFFICES ASSUME MysqlInit PROVE DrainInv
    OBVIOUS
<1>1. MysqlTypeOK
    <2>1. tasks \in Seq(Nat)
        BY DEF MysqlInit
    <2> QED BY <2>1, EndedCount DEF MysqlInit, MysqlTypeOK, NotJoining
<1>2. Len(tasks) = 0 /\ Ended = {} /\ DOMAIN tasks = {}
    BY DEF MysqlInit, Ended
<1>3. StopsFollow(0)
    BY <1>2, EndedCount DEF MysqlInit, StopsFollow, StopsPut
<1>4. QueriesKept
    BY <1>2 DEF MysqlInit, QueriesKept, Querying
<1> QED BY <1>1, <1>2, <1>3, <1>4, EndedCount DEF MysqlInit, DrainInv, NotJoining

(* put adds one task and changes no thread but one that waits. *)
LEMMA PutEffect ==
    ASSUME MysqlTypeOK, NEW task \in Nat, PutTask(task)
    PROVE  /\ tasks' \in Seq(Nat) /\ Len(tasks') = Len(tasks) + 1
           /\ DOMAIN tasks = 1..Len(tasks) /\ DOMAIN tasks' = 1..(Len(tasks) + 1)
           /\ \A i \in 1..Len(tasks) : tasks'[i] = tasks[i]
           /\ tasks'[Len(tasks) + 1] = task
           /\ dbThread' \in [DbThreads -> Querying \cup {"taking", "waiting", "ended"}]
           /\ Ended' = Ended
           /\ \A t \in DbThreads : dbThread'[t] = dbThread[t] \/ (dbThread[t] = "waiting" /\ dbThread'[t] = "taking")
<1>1. tasks' = Append(tasks, task) /\ tasks \in Seq(Nat)
    BY DEF PutTask, MysqlTypeOK
<1>2. PICK roused \in Notify(TakeWaiters) :
            dbThread' = [t \in DbThreads |-> IF t \in roused THEN "taking" ELSE dbThread[t]]
    BY DEF PutTask
<1>3. \A t \in roused : dbThread[t] = "waiting"
    BY NotifyOne DEF TakeWaiters
<1>4. \A t \in DbThreads : dbThread'[t] = dbThread[t] \/ (dbThread[t] = "waiting" /\ dbThread'[t] = "taking")
    <2> SUFFICES ASSUME NEW t \in DbThreads
                 PROVE  dbThread'[t] = dbThread[t] \/ (dbThread[t] = "waiting" /\ dbThread'[t] = "taking")
        OBVIOUS
    <2>1. dbThread'[t] = IF t \in roused THEN "taking" ELSE dbThread[t]
        BY <1>2
    <2> QED BY <1>3, <2>1
<1>5. dbThread' \in [DbThreads -> Querying \cup {"taking", "waiting", "ended"}]
    BY <1>2 DEF MysqlTypeOK
<1>6. Ended' = Ended
    BY <1>4 DEF Ended
<1> QED BY <1>1, <1>4, <1>5, <1>6

(* A query is put in before joinAll, so there is no stop ahead of it. *)
LEMMA PutQueryDrains == DrainInv /\ PutQuery => DrainInv'
<1> SUFFICES ASSUME DrainInv, PutQuery PROVE DrainInv'
    OBVIOUS
<1> DEFINE k == Len(tasks)
<1>1. MysqlTypeOK /\ QueriesKept /\ joiner = NotJoining /\ putQueries \in Nat
    BY DEF DrainInv, PutQuery, MysqlTypeOK
<1>2. /\ tasks' \in Seq(Nat) /\ Len(tasks') = k + 1
      /\ DOMAIN tasks = 1..k /\ DOMAIN tasks' = 1..(k + 1)
      /\ \A i \in 1..k : tasks'[i] = tasks[i]
      /\ tasks'[k + 1] = putQueries + 1
      /\ dbThread' \in [DbThreads -> Querying \cup {"taking", "waiting", "ended"}]
      /\ Ended' = Ended
      /\ \A t \in DbThreads : dbThread'[t] = dbThread[t] \/ (dbThread[t] = "waiting" /\ dbThread'[t] = "taking")
    BY <1>1, PutEffect DEF PutQuery
<1>3. putQueries' = putQueries + 1 /\ UNCHANGED <<joiner, doneQueries, current>> /\ k \in Nat
    BY <1>1 DEF PutQuery, MysqlTypeOK
<1> HIDE DEF k
<1>4. PICK n \in 0..k : StopsFollow(n)
    BY DEF DrainInv, k
<1>a. k - n + Cardinality(Ended) = 0 /\ StopsPut' = 0
    BY <1>1, <1>3, <1>4 DEF StopsFollow, StopsPut, k
<1>5. n = k /\ Ended = {} /\ Cardinality(Ended) = 0
    <2>1. n \in Nat /\ n <= k /\ k \in Nat
        BY <1>3, <1>4
    <2>2. n = k /\ Cardinality(Ended) = 0
        BY <1>a, <2>1, EndedCount
    <2> QED BY <2>2, EndedCount
<1>b. \A i \in 1..k : tasks[i] # StopTask
    BY <1>2, <1>3, <1>4, <1>5 DEF StopsFollow
<1>6. \A i \in 1..(k + 1) : tasks'[i] # StopTask
    BY <1>1, <1>2, <1>3, <1>b DEF StopTask
<1>c. \A i \in DOMAIN tasks' : tasks'[i] = StopTask <=> i > k + 1
    BY <1>2, <1>3, <1>6
<1>d. Len(tasks') - (k + 1) + Cardinality(Ended') = StopsPut'
    BY <1>2, <1>3, <1>5, <1>a
<1>e. PICK m \in 0..Len(tasks') : m = k + 1
    BY <1>2, <1>3
<1>7. StopsFollow(m)'
    BY <1>2, <1>5, <1>c, <1>d, <1>e DEF StopsFollow
<1>8. QueriesKept'
    <2>1. ASSUME NEW q \in 1..putQueries
          PROVE  \/ q \in doneQueries
                 \/ \E t \in DbThreads : dbThread'[t] \in Querying /\ current[t] = q
                 \/ \E i \in 1..(k + 1) : tasks'[i] = q
        <3>1. CASE q \in doneQueries
            BY <3>1
        <3>2. CASE \E t \in DbThreads : dbThread[t] \in Querying /\ current[t] = q
            <4>1. PICK t \in DbThreads : dbThread[t] \in Querying /\ current[t] = q
                BY <3>2
            <4>2. dbThread[t] # "waiting"
                BY <4>1 DEF Querying
            <4>3. dbThread'[t] \in Querying
                BY <1>2, <4>1, <4>2
            <4> QED BY <4>1, <4>3
        <3>3. CASE \E i \in 1..k : tasks[i] = q
            <4>1. PICK i \in 1..k : tasks[i] = q
                BY <3>3
            <4>2. i \in 1..(k + 1) /\ tasks'[i] = q
                BY <1>2, <1>3, <4>1
            <4> QED BY <4>2
        <3> QED BY <1>1, <1>2, <3>1, <3>2, <3>3 DEF QueriesKept
    <2>0. \A i \in 1..k : tasks[i] \in 0..putQueries
        BY <1>1, <1>2 DEF QueriesKept
    <2>2. \A i \in 1..(k + 1) : tasks'[i] \in 0..putQueries'
        BY <1>1, <1>2, <1>3, <2>0
    <2>3. \A t \in DbThreads : dbThread'[t] \in Querying => current[t] \in 1..putQueries'
        BY <1>1, <1>2, <1>3 DEF QueriesKept, Querying
    <2>4. 1..putQueries' = 1..putQueries \cup {putQueries + 1} /\ k + 1 \in 1..(k + 1)
        BY <1>1, <1>3
    <2> QED BY <1>1, <1>2, <1>3, <2>1, <2>2, <2>3, <2>4 DEF QueriesKept
<1>9. MysqlTypeOK'
    BY <1>1, <1>2, <1>3 DEF MysqlTypeOK
<1> QED BY <1>1, <1>3, <1>7, <1>8, <1>9, <1>e, EndedCount DEF DrainInv, NotJoining

(* A stop goes to the end. *)
LEMMA PutStopDrains == DrainInv /\ PutStop => DrainInv'
<1> SUFFICES ASSUME DrainInv, PutStop PROVE DrainInv'
    OBVIOUS
<1> DEFINE k == Len(tasks)
<1>1. MysqlTypeOK /\ QueriesKept /\ joiner < Cardinality(DbThreads) /\ putQueries \in Nat
    BY DEF DrainInv, PutStop, MysqlTypeOK
<1>2. /\ tasks' \in Seq(Nat) /\ Len(tasks') = k + 1
      /\ DOMAIN tasks = 1..k /\ DOMAIN tasks' = 1..(k + 1)
      /\ \A i \in 1..k : tasks'[i] = tasks[i]
      /\ tasks'[k + 1] = StopTask
      /\ dbThread' \in [DbThreads -> Querying \cup {"taking", "waiting", "ended"}]
      /\ Ended' = Ended
      /\ \A t \in DbThreads : dbThread'[t] = dbThread[t] \/ (dbThread[t] = "waiting" /\ dbThread'[t] = "taking")
    BY <1>1, PutEffect DEF PutStop, StopTask
<1>3. UNCHANGED <<putQueries, doneQueries, current>> /\ k \in Nat
    BY <1>1 DEF PutStop, MysqlTypeOK
<1>a. /\ joiner' \in 1..Cardinality(DbThreads)
      /\ StopsPut' = StopsPut + 1 /\ StopsPut \in Nat
    BY <1>1, EndedCount DEF PutStop, MysqlTypeOK, StopsPut, NotJoining
<1> HIDE DEF k
<1>4. PICK n \in 0..k : StopsFollow(n)
    BY DEF DrainInv, k
<1>6. \A i \in 1..(k + 1) : tasks'[i] = StopTask <=> i > n
    BY <1>2, <1>3, <1>4 DEF StopsFollow
<1>7. StopsFollow(n)'
    <2>1. k - n + Cardinality(Ended) = StopsPut /\ (n > 0 => Ended = {})
        BY <1>4 DEF StopsFollow, k
    <2>2. Len(tasks') - n + Cardinality(Ended') = StopsPut'
        BY <1>2, <1>3, <1>4, <1>a, <2>1, EndedCount, SMTT(30)
    <2> QED BY <1>2, <1>6, <2>1, <2>2 DEF StopsFollow
<1>8. QueriesKept'
    <2>1. ASSUME NEW q \in 1..putQueries
          PROVE  \/ q \in doneQueries
                 \/ \E t \in DbThreads : dbThread'[t] \in Querying /\ current[t] = q
                 \/ \E i \in 1..(k + 1) : tasks'[i] = q
        <3>1. CASE q \in doneQueries
            BY <3>1
        <3>2. CASE \E t \in DbThreads : dbThread[t] \in Querying /\ current[t] = q
            <4>1. PICK t \in DbThreads : dbThread[t] \in Querying /\ current[t] = q
                BY <3>2
            <4>2. dbThread[t] # "waiting"
                BY <4>1 DEF Querying
            <4>3. dbThread'[t] \in Querying
                BY <1>2, <4>1, <4>2
            <4> QED BY <4>1, <4>3
        <3>3. CASE \E i \in 1..k : tasks[i] = q
            <4>1. PICK i \in 1..k : tasks[i] = q
                BY <3>3
            <4>2. i \in 1..(k + 1) /\ tasks'[i] = q
                BY <1>2, <1>3, <4>1
            <4> QED BY <4>2
        <3> QED BY <1>1, <1>2, <3>1, <3>2, <3>3 DEF QueriesKept
    <2>2. \A i \in 1..(k + 1) : tasks'[i] \in 0..putQueries
        BY <1>1, <1>2, <1>3, SMTT(30) DEF QueriesKept, StopTask
    <2>3. \A t \in DbThreads : dbThread'[t] \in Querying => current[t] \in 1..putQueries
        BY <1>1, <1>2, <1>3 DEF QueriesKept, Querying
    <2> QED BY <1>1, <1>2, <1>3, <2>1, <2>2, <2>3 DEF QueriesKept
<1>9. MysqlTypeOK'
    BY <1>1, <1>2, <1>3, <1>a, EndedCount DEF MysqlTypeOK, NotJoining
<1> QED BY <1>2, <1>3, <1>4, <1>7, <1>8, <1>9, <1>a, EndedCount DEF DrainInv

(* A thread takes the first task; only if there is no query left is it a   *)
(* stop.                                                                   *)
LEMMA TakeDrains ==
    ASSUME DrainInv, NEW t \in DbThreads, QueueTakes(t)
    PROVE  DrainInv'
<1> DEFINE k == Len(tasks)
<1> DEFINE now == IF Head(tasks) = StopTask THEN "ended" ELSE "grabbing"
<1>1. MysqlTypeOK /\ QueriesKept /\ tasks # <<>> /\ dbThread[t] = "taking"
    BY DEF DrainInv, QueueTakes
<1>2. /\ tasks' \in Seq(Nat) /\ Len(tasks') = k - 1 /\ k \in Nat /\ k > 0 /\ Head(tasks) = tasks[1]
      /\ DOMAIN tasks = 1..k /\ DOMAIN tasks' = 1..(k - 1)
      /\ \A i \in 1..(k - 1) : tasks'[i] = tasks[i + 1]
    BY <1>1 DEF MysqlTypeOK, QueueTakes
<1>3. /\ dbThread' = [dbThread EXCEPT ![t] = now]
      /\ current' = [current EXCEPT ![t] = Head(tasks)]
      /\ UNCHANGED <<joiner, putQueries, doneQueries>> /\ putQueries \in Nat
    BY <1>1 DEF QueueTakes, MysqlTypeOK
<1>4. PICK n \in 0..k : StopsFollow(n)
    BY DEF DrainInv
<1>0. \A i \in 1..k : tasks[i] \in 0..putQueries
    BY <1>1, <1>2 DEF QueriesKept
<1>a. Head(tasks) \in 0..putQueries /\ Head(tasks) \in Nat
    BY <1>0, <1>2, <1>3
<1>b. Ended' = IF Head(tasks) = StopTask THEN Ended \cup {t} ELSE Ended
    BY <1>1, <1>3 DEF Ended, MysqlTypeOK
<1>c. t \notin Ended
    BY <1>1 DEF Ended
<1>d. joiner <= Cardinality(DbThreads)
    BY <1>c, EndedCount DEF DrainInv, MysqlTypeOK, NotJoining
<1> HIDE DEF k
<1>5. ASSUME Head(tasks) = StopTask PROVE \E m \in 0..Len(tasks') : StopsFollow(m)'
    <2>1. n = 0
        BY <1>2, <1>4, <1>5 DEF StopsFollow
    <2>2. Cardinality(Ended') = Cardinality(Ended) + 1
        BY <1>5, <1>b, <1>c, EndedCount, OneMore
    <2>0. \A i \in 1..k : tasks[i] = StopTask
        BY <1>2, <1>4, <2>1, SMTT(30) DEF StopsFollow
    <2>3. \A i \in 1..(k - 1) : tasks'[i] = StopTask
        BY <1>2, <2>0
    <2>4. StopsPut' = StopsPut /\ k + Cardinality(Ended) = StopsPut
        BY <1>2, <1>3, <1>4, <2>1, EndedCount DEF StopsFollow, StopsPut, k
    <2>a. Len(tasks') - 0 + Cardinality(Ended') = StopsPut'
        BY <1>2, <2>2, <2>4, EndedCount
    <2>b. \A i \in DOMAIN tasks' : tasks'[i] = StopTask <=> i > 0
        <3>1. ASSUME NEW i \in DOMAIN tasks' PROVE tasks'[i] = StopTask <=> i > 0
            <4>1. i \in 1..(k - 1) /\ i > 0
                BY <1>2
            <4> QED BY <2>3, <4>1
        <3> QED BY <3>1
    <2>5. StopsFollow(0)'
        BY <2>a, <2>b DEF StopsFollow
    <2> QED BY <1>2, <2>5
<1>6. ASSUME Head(tasks) # StopTask PROVE \E m \in 0..Len(tasks') : StopsFollow(m)'
    <2>1. n > 0
        BY <1>2, <1>4, <1>6 DEF StopsFollow
    <2>0. \A i \in 1..k : tasks[i] = StopTask <=> i > n
        BY <1>2, <1>4 DEF StopsFollow
    <2>a. \A i \in 1..(k - 1) : i + 1 \in 1..k /\ (i + 1 > n <=> i > n - 1)
        BY <1>2, <1>4
    <2>2. \A i \in 1..(k - 1) : tasks'[i] = StopTask <=> i > n - 1
        BY <1>2, <2>0, <2>a
    <2>3. StopsPut' = StopsPut /\ k - n + Cardinality(Ended) = StopsPut /\ Ended = {}
        BY <1>2, <1>3, <1>4, <2>1 DEF StopsFollow, StopsPut, k
    <2>4. Len(tasks') - (n - 1) + Cardinality(Ended') = StopsPut'
        BY <1>2, <1>4, <1>6, <1>b, <2>3, EndedCount
    <2>5. StopsFollow(n - 1)'
        BY <1>2, <1>6, <1>b, <2>2, <2>3, <2>4 DEF StopsFollow
    <2> QED BY <1>2, <1>4, <2>1, <2>5
<1>7. QueriesKept'
    <2>1. ASSUME NEW q \in 1..putQueries
          PROVE  \/ q \in doneQueries
                 \/ \E u \in DbThreads : dbThread'[u] \in Querying /\ current'[u] = q
                 \/ \E i \in 1..(k - 1) : tasks'[i] = q
        <3>1. CASE q \in doneQueries
            BY <3>1
        <3>2. CASE \E u \in DbThreads : dbThread[u] \in Querying /\ current[u] = q
            <4>1. PICK u \in DbThreads : dbThread[u] \in Querying /\ current[u] = q
                BY <3>2
            <4>2. u # t
                BY <1>1, <4>1 DEF Querying
            <4> QED BY <1>1, <1>3, <4>1, <4>2 DEF MysqlTypeOK
        <3>3. CASE \E i \in 1..k : tasks[i] = q
            <4>1. PICK i \in 1..k : tasks[i] = q
                BY <3>3
            <4>2. CASE i = 1
                <5>1. Head(tasks) = q /\ q # StopTask
                    BY <1>2, <4>1, <4>2 DEF StopTask
                <5>2. dbThread'[t] = "grabbing" /\ current'[t] = q
                    BY <1>1, <1>3, <5>1 DEF MysqlTypeOK
                <5> QED BY <5>2 DEF Querying
            <4>3. CASE i # 1
                <5>1. i - 1 \in 1..(k - 1) /\ tasks'[i - 1] = tasks[(i - 1) + 1] /\ (i - 1) + 1 = i
                    BY <1>2, <4>3
                <5> QED BY <4>1, <5>1
            <4> QED BY <4>2, <4>3
        <3> QED BY <1>1, <1>2, <3>1, <3>2, <3>3 DEF QueriesKept
    <2>2. \A u \in DbThreads : dbThread'[u] \in Querying => current'[u] \in 1..putQueries
        BY <1>1, <1>3, <1>a DEF QueriesKept, MysqlTypeOK, Querying, StopTask
    <2>3. \A i \in 1..(k - 1) : tasks'[i] \in 0..putQueries
        BY <1>0, <1>2
    <2> QED BY <1>1, <1>2, <1>3, <2>1, <2>2, <2>3 DEF QueriesKept
<1>8. MysqlTypeOK'
    BY <1>1, <1>2, <1>3, <1>a DEF MysqlTypeOK, Querying
<1> QED BY <1>3, <1>5, <1>6, <1>7, <1>8, <1>d, EndedCount DEF DrainInv, MysqlTypeOK, NotJoining

(* Between taking a query and having done it a thread only moves on. *)
LEMMA MovesOn ==
    ASSUME DrainInv, NEW t \in DbThreads, NEW to \in Querying \cup {"taking", "waiting"},
           dbThread[t] # "ended", dbThread[t] \in Querying <=> to \in Querying,
           dbThread' = [dbThread EXCEPT ![t] = to],
           UNCHANGED <<tasks, joiner, putQueries, doneQueries, current>>
    PROVE  DrainInv'
<1>1. MysqlTypeOK'
    BY DEF DrainInv, MysqlTypeOK
<1>2. Ended' = Ended
    BY DEF DrainInv, MysqlTypeOK, Ended, Querying
<1>3. \A u \in DbThreads : dbThread'[u] \in Querying <=> dbThread[u] \in Querying
    BY DEF DrainInv, MysqlTypeOK
<1>4. QueriesKept'
    BY <1>3 DEF DrainInv, QueriesKept
<1>5. \A n : StopsFollow(n)' <=> StopsFollow(n)
    BY <1>2 DEF StopsFollow, StopsPut
<1> QED BY <1>1, <1>2, <1>4, <1>5 DEF DrainInv

(* A query is done when its task has returned. *)
LEMMA ReleaseDrains ==
    ASSUME DrainInv, NEW t \in DbThreads, ReleaseStores(t)
    PROVE  DrainInv'
<1>0. MysqlTypeOK /\ QueriesKept /\ dbThread[t] = "decremented" /\ putQueries \in Nat
    BY DEF DrainInv, MysqlTypeOK, ReleaseStores
<1>1. /\ dbThread' = [dbThread EXCEPT ![t] = "taking"]
      /\ doneQueries' = doneQueries \cup {current[t]}
      /\ current' = [current EXCEPT ![t] = 0]
      /\ UNCHANGED <<tasks, joiner, putQueries>>
    BY DEF ReleaseStores
<1>2. MysqlTypeOK'
    BY <1>0, <1>1 DEF MysqlTypeOK
<1>3. Ended' = Ended
    BY <1>0, <1>1 DEF MysqlTypeOK, Ended
<1>4. QueriesKept'
    <2>1. current[t] \in 1..putQueries
        BY <1>0 DEF QueriesKept, Querying
    <2>2. \A u \in DbThreads : u # t => dbThread'[u] = dbThread[u] /\ current'[u] = current[u]
        BY <1>0, <1>1 DEF MysqlTypeOK
    <2>3. dbThread'[t] \notin Querying
        BY <1>0, <1>1 DEF MysqlTypeOK, Querying
    <2>4. \A q \in 1..putQueries : \/ q \in doneQueries'
                                   \/ \E u \in DbThreads : dbThread'[u] \in Querying /\ current'[u] = q
                                   \/ \E i \in DOMAIN tasks : tasks[i] = q
        BY <1>0, <1>1, <2>2 DEF QueriesKept
    <2>5. \A u \in DbThreads : dbThread'[u] \in Querying => current'[u] \in 1..putQueries
        BY <1>0, <2>2, <2>3 DEF QueriesKept
    <2> QED BY <1>0, <1>1, <2>1, <2>4, <2>5 DEF QueriesKept
<1>5. \A n : StopsFollow(n)' <=> StopsFollow(n)
    BY <1>1, <1>3 DEF StopsFollow, StopsPut
<1> QED BY <1>1, <1>2, <1>3, <1>4, <1>5 DEF DrainInv

(* joinAll returns when every thread has ended. *)
LEMMA JoinAllDrains == DrainInv /\ JoinAll => DrainInv'
<1> SUFFICES ASSUME DrainInv, JoinAll PROVE DrainInv'
    OBVIOUS
<1>1. /\ joiner = Cardinality(DbThreads) /\ joiner' = Cardinality(DbThreads) + 1
      /\ UNCHANGED <<tasks, dbThread, putQueries, doneQueries, current>>
    BY DEF JoinAll
<1>2. Ended = DbThreads /\ Ended' = Ended
    BY <1>1 DEF JoinAll, Ended
<1>3. StopsPut' = StopsPut
    BY <1>1, EndedCount DEF StopsPut, NotJoining
<1>4. \A n : StopsFollow(n)' <=> StopsFollow(n)
    BY <1>1, <1>2, <1>3 DEF StopsFollow
<1>5. QueriesKept'
    BY <1>1 DEF DrainInv, QueriesKept
<1>6. MysqlTypeOK'
    BY <1>1, EndedCount DEF DrainInv, MysqlTypeOK, NotJoining
<1> QED BY <1>1, <1>2, <1>4, <1>5, <1>6 DEF DrainInv

(* The invariant is inductive. *)
LEMMA DrainInvStep == DrainInv /\ [MysqlNext]_mysqlVars => DrainInv'
<1> SUFFICES ASSUME DrainInv, [MysqlNext]_mysqlVars PROVE DrainInv'
    OBVIOUS
<1>1. ASSUME NEW t \in DbThreads, DbThreadStep(t) \/ QueueSpurious(t) \/ PingFails(t)
      PROVE  DrainInv'
    <2>1. CASE QueueTakes(t)
        BY <2>1, TakeDrains
    <2>2. CASE ReleaseStores(t)
        BY <2>2, ReleaseDrains
    <2>3. CASE QueueWaits(t)
        BY <2>3, MovesOn DEF QueueWaits, Querying
    <2>4. CASE QueueSpurious(t)
        BY <2>4, MovesOn DEF QueueSpurious, TakeWaiters, Querying
    <2>5. CASE GrabTests(t)
        BY <2>5, MovesOn DEF GrabTests, Querying
    <2>6. CASE IncrementLoads(t)
        BY <2>6, MovesOn DEF IncrementLoads, Querying
    <2>7. CASE IncrementStores(t)
        BY <2>7, MovesOn DEF IncrementStores, Querying
    <2>8. CASE ReleaseLoads(t)
        BY <2>8, MovesOn DEF ReleaseLoads, Querying
    <2>9. CASE PingFails(t)
        BY <2>9, MovesOn DEF PingFails, Querying
    <2> QED BY <1>1, <2>1, <2>2, <2>3, <2>4, <2>5, <2>6, <2>7, <2>8, <2>9 DEF DbThreadStep
<1>2. CASE UNCHANGED mysqlVars
    <2>1. Ended' = Ended /\ (\A n : StopsFollow(n)' <=> StopsFollow(n))
        BY <1>2 DEF mysqlVars, StopsFollow, StopsPut, Ended
    <2> QED BY <1>2, <2>1 DEF mysqlVars, DrainInv, MysqlTypeOK, QueriesKept
<1> QED BY <1>1, <1>2, PutQueryDrains, PutStopDrains, JoinAllDrains DEF MysqlNext

(* Each thread has taken one stop, so none is left, and there is no query  *)
(* ahead of a stop that has been taken.                                    *)
LEMMA DrainInvDrains == DrainInv => JoinDrains
<1> SUFFICES ASSUME DrainInv, joiner > Cardinality(DbThreads)
             PROVE  tasks = <<>> /\ doneQueries = 1..putQueries
    BY DEF JoinDrains
<1>1. Ended = DbThreads /\ DbThreads # {} /\ tasks \in Seq(Nat)
    BY MysqlAssumption DEF DrainInv, MysqlTypeOK
<1>2. PICK n \in 0..Len(tasks) : StopsFollow(n)
    BY DEF DrainInv
<1>3. n = 0 /\ StopsPut = Cardinality(DbThreads)
    BY <1>1, <1>2, EndedCount DEF StopsFollow, StopsPut, NotJoining
<1>4. Len(tasks) = 0
    BY <1>1, <1>2, <1>3, EndedCount DEF StopsFollow
<1>5. tasks = <<>>
    BY <1>1, <1>4
<1>6. \A t \in DbThreads : dbThread[t] \notin Querying
    BY <1>1 DEF Ended, Querying
<1>7. DOMAIN tasks = {}
    BY <1>5
<1> QED BY <1>5, <1>6, <1>7 DEF DrainInv, QueriesKept

(* When joinAll returns, every query put in before has been run, for any   *)
(* number of database threads and queries and however the threads and the  *)
(* counter of connections in use interleave.                               *)
THEOREM JoinAllDrainsQueue == MysqlSpec => []JoinDrains
BY DrainInvInit, DrainInvStep, DrainInvDrains, PTL DEF MysqlSpec

-----------------------------------------------------------------------------
(* AsyncLogging. *)

(* Every line of the one set was appended before every line of the other. *)
Below(X, Y) == \A x \in X : \A y \in Y : x < y

(* And line by line, for those in two sequences of buffers. *)
Before(bs, cs) ==
    \A a \in DOMAIN bs : \A b \in DOMAIN cs :
        \A i \in DOMAIN bs[a] : \A j \in DOMAIN cs[b] : bs[a][i] < cs[b][j]

(* Any buffers. *)
Buffers == Seq(Seq(Nat))

(* What is in buffers that follow one another. *)
LEMMA ConcatContent ==
    ASSUME NEW bs \in Buffers, NEW cs \in Buffers
    PROVE  Content(bs \o cs) = Content(bs) \cup Content(cs)
<1> DEFINE ds == bs \o cs
<1>1. /\ Len(bs) \in Nat /\ Len(cs) \in Nat /\ DOMAIN bs = 1..Len(bs) /\ DOMAIN cs = 1..Len(cs)
      /\ DOMAIN ds = 1..(Len(bs) + Len(cs))
      /\ \A a \in DOMAIN bs : ds[a] = bs[a]
      /\ \A b \in DOMAIN cs : ds[Len(bs) + b] = cs[b]
    BY DEF Buffers
<1> HIDE DEF ds
<1>2. \A a \in DOMAIN bs : a \in DOMAIN ds
    BY <1>1
<1>3. \A b \in DOMAIN cs : Len(bs) + b \in DOMAIN ds
    BY <1>1
<1>4. \A d \in DOMAIN ds : d \in DOMAIN bs \/ \E b \in DOMAIN cs : d = Len(bs) + b
    <2> TAKE d \in DOMAIN ds
    <2>1. CASE d <= Len(bs)
        BY <1>1, <2>1
    <2>2. CASE d > Len(bs)
        <3>1. d - Len(bs) \in DOMAIN cs /\ d = Len(bs) + (d - Len(bs))
            BY <1>1, <2>2
        <3> QED
            BY <3>1
    <2> QED
        BY <1>1, <2>1, <2>2
<1>5. \A x : (\E d \in DOMAIN ds : x \in Range(ds[d])) <=>
             (\E a \in DOMAIN bs : x \in Range(bs[a])) \/ (\E b \in DOMAIN cs : x \in Range(cs[b]))
    BY <1>1, <1>2, <1>3, <1>4
<1>6. Content(ds) = Content(bs) \cup Content(cs)
    BY <1>5 DEF Content
<1> QED
    BY <1>6 DEF ds

(* And when they are in order. *)
LEMMA ConcatBefore ==
    ASSUME NEW bs \in Buffers, NEW cs \in Buffers
    PROVE  InAppendOrder(bs \o cs) <=> InAppendOrder(bs) /\ InAppendOrder(cs) /\ Before(bs, cs)
<1> DEFINE ds == bs \o cs
           l  == Len(bs)
<1>1. /\ l \in Nat /\ Len(cs) \in Nat /\ DOMAIN bs = 1..l /\ DOMAIN cs = 1..Len(cs)
      /\ DOMAIN ds = 1..(l + Len(cs))
      /\ \A a \in DOMAIN bs : ds[a] = bs[a]
      /\ \A b \in DOMAIN cs : ds[l + b] = cs[b]
    BY DEF Buffers
<1> HIDE DEF ds, l
<1>2. \A a \in DOMAIN bs : a \in DOMAIN ds /\ a \in Int /\ a <= l
    BY <1>1
<1>3. \A b \in DOMAIN cs : l + b \in DOMAIN ds /\ b \in Int /\ b > 0
    BY <1>1
<1>4. \A d \in DOMAIN ds : d \in DOMAIN bs \/ \E b \in DOMAIN cs : d = l + b
    <2> TAKE d \in DOMAIN ds
    <2>1. CASE d <= l
        BY <1>1, <2>1
    <2>2. CASE d > l
        <3>1. d - l \in DOMAIN cs /\ d = l + (d - l)
            BY <1>1, <2>2
        <3> QED
            BY <3>1
    <2> QED
        BY <1>1, <2>1, <2>2
<1>5. ASSUME InAppendOrder(ds) PROVE InAppendOrder(bs)
    BY <1>1, <1>2, <1>5 DEF InAppendOrder
<1>6. ASSUME InAppendOrder(ds) PROVE InAppendOrder(cs)
    <2> SUFFICES ASSUME NEW a \in DOMAIN cs, NEW b \in DOMAIN cs, NEW i \in DOMAIN cs[a], NEW j \in DOMAIN cs[b],
                        a < b \/ (a = b /\ i < j)
                 PROVE  cs[a][i] < cs[b][j]
        BY DEF InAppendOrder
    <2>1. /\ l + a \in DOMAIN ds /\ l + b \in DOMAIN ds /\ ds[l + a] = cs[a] /\ ds[l + b] = cs[b]
          /\ l + a < l + b \/ (l + a = l + b /\ i < j)
        BY <1>1, <1>3
    <2> QED
        BY <1>6, <2>1 DEF InAppendOrder
<1>7. ASSUME InAppendOrder(ds) PROVE Before(bs, cs)
    <2> SUFFICES ASSUME NEW a \in DOMAIN bs, NEW b \in DOMAIN cs, NEW i \in DOMAIN bs[a], NEW j \in DOMAIN cs[b]
                 PROVE  bs[a][i] < cs[b][j]
        BY DEF Before
    <2>1. a \in DOMAIN ds /\ l + b \in DOMAIN ds /\ ds[a] = bs[a] /\ ds[l + b] = cs[b] /\ a < l + b
        BY <1>1, <1>2, <1>3
    <2> QED
        BY <1>7, <2>1 DEF InAppendOrder
<1>8. ASSUME InAppendOrder(bs), InAppendOrder(cs), Before(bs, cs) PROVE InAppendOrder(ds)
    <2> SUFFICES ASSUME NEW a \in DOMAIN ds, NEW b \in DOMAIN ds, NEW i \in DOMAIN ds[a], NEW j \in DOMAIN ds[b],
                        a < b \/ (a = b /\ i < j)
                 PROVE  ds[a][i] < ds[b][j]
        BY DEF InAppendOrder
    <2>1. CASE a \in DOMAIN bs /\ b \in DOMAIN bs
        BY <1>1, <1>8, <2>1 DEF InAppendOrder
    <2>2. ASSUME a \in DOMAIN bs, NEW e \in DOMAIN cs, b = l + e PROVE ds[a][i] < ds[b][j]
        BY <1>1, <1>8, <2>2 DEF Before
    <2>3. ASSUME NEW d \in DOMAIN cs, a = l + d, b \in DOMAIN bs PROVE FALSE
        BY <1>1, <1>2, <1>3, <2>3
    <2>4. ASSUME NEW d \in DOMAIN cs, a = l + d, NEW e \in DOMAIN cs, b = l + e PROVE ds[a][i] < ds[b][j]
        <3>1. d < e \/ (d = e /\ i < j)
            BY <1>1, <1>3, <2>4
        <3>2. ds[a] = cs[d] /\ ds[b] = cs[e]
            BY <1>1, <2>4
        <3> QED
            BY <1>8, <3>1, <3>2 DEF InAppendOrder
    <2> QED
        BY <1>4, <2>1, <2>2, <2>3, <2>4
<1>9. InAppendOrder(ds) <=> InAppendOrder(bs) /\ InAppendOrder(cs) /\ Before(bs, cs)
    BY <1>5, <1>6, <1>7, <1>8
<1> QED
    BY <1>9 DEF ds

(* Before, in terms of content. *)
LEMMA BeforeContent ==
    ASSUME NEW bs, NEW cs
    PROVE  Before(bs, cs) <=> Below(Content(bs), Content(cs))
<1>1. \A x : x \in Content(bs) <=> \E a \in DOMAIN bs : \E i \in DOMAIN bs[a] : x = bs[a][i]
    BY DEF Content, Range
<1>2. \A y : y \in Content(cs) <=> \E b \in DOMAIN cs : \E j \in DOMAIN cs[b] : y = cs[b][j]
    BY DEF Content, Range
<1> QED
    BY <1>1, <1>2 DEF Before, Below

(* Buffers that follow one another are in order. *)
LEMMA ConcatOrder ==
    ASSUME NEW bs \in Buffers, NEW cs \in Buffers
    PROVE  InAppendOrder(bs \o cs) <=> /\ InAppendOrder(bs) /\ InAppendOrder(cs)
                                       /\ Below(Content(bs), Content(cs))
    BY ConcatBefore, BeforeContent

(* A single buffer, and one that is empty. *)
LEMMA OneBuffer ==
    ASSUME NEW s \in Seq(Nat)
    PROVE  /\ Content(<<s>>) = Range(s) /\ <<s>> \in Buffers
           /\ InAppendOrder(<<s>>) <=> \A i, j \in DOMAIN s : i < j => s[i] < s[j]
           /\ Content(<< <<>> >>) = {} /\ InAppendOrder(<< <<>> >>) /\ << <<>> >> \in Buffers
<1>1. DOMAIN <<s>> = {1} /\ <<s>>[1] = s
    OBVIOUS
<1>2. Content(<<s>>) = Range(s)
    BY <1>1 DEF Content
<1>3. InAppendOrder(<<s>>) <=> \A i, j \in DOMAIN s : i < j => s[i] < s[j]
    BY <1>1 DEF InAppendOrder
<1>4. DOMAIN << <<>> >> = {1} /\ << <<>> >>[1] = <<>> /\ DOMAIN <<>> = {} /\ <<>> \in Seq(Nat)
    OBVIOUS
<1>5. Content(<< <<>> >>) = {}
    BY <1>4 DEF Content, Range
<1>6. InAppendOrder(<< <<>> >>)
    BY <1>4 DEF InAppendOrder
<1> QED
    BY <1>2, <1>3, <1>4, <1>5, <1>6 DEF Buffers

(* One buffer written after the other in one file. *)
LEMMA OneFile ==
    ASSUME NEW s \in Seq(Nat), NEW t \in Seq(Nat), InAppendOrder(<<s>>), InAppendOrder(<<t>>),
           Below(Content(<<s>>), Content(<<t>>))
    PROVE  /\ s \o t \in Seq(Nat) /\ InAppendOrder(<<s \o t>>)
           /\ Content(<<s \o t>>) = Content(<<s>>) \cup Content(<<t>>)
<1> DEFINE u == s \o t
<1>0. u \in Seq(Nat)
    OBVIOUS
<1>1. /\ Len(s) \in Nat /\ Len(t) \in Nat /\ DOMAIN s = 1..Len(s) /\ DOMAIN t = 1..Len(t)
      /\ DOMAIN u = 1..(Len(s) + Len(t))
      /\ \A i \in DOMAIN s : u[i] = s[i]
      /\ \A i \in DOMAIN t : u[Len(s) + i] = t[i]
    OBVIOUS
<1> HIDE DEF u
<1>2. \A i \in DOMAIN u : i \in DOMAIN s \/ \E j \in DOMAIN t : i = Len(s) + j
    <2> TAKE i \in DOMAIN u
    <2>1. CASE i <= Len(s)
        BY <1>1, <2>1
    <2>2. CASE i > Len(s)
        <3>1. i - Len(s) \in DOMAIN t /\ i = Len(s) + (i - Len(s))
            BY <1>1, <2>2
        <3> QED
            BY <3>1
    <2> QED
        BY <1>1, <2>1, <2>2
<1>3. Range(u) = Range(s) \cup Range(t)
    <2>1. (\A i \in DOMAIN s : i \in DOMAIN u) /\ (\A j \in DOMAIN t : Len(s) + j \in DOMAIN u)
        BY <1>1
    <2>2. \A x : (\E i \in DOMAIN u : x = u[i]) <=> (\E i \in DOMAIN s : x = s[i]) \/ (\E j \in DOMAIN t : x = t[j])
        BY <1>1, <1>2, <2>1
    <2> QED
        BY <2>2 DEF Range
<1>4. Content(<<s>>) = Range(s) /\ Content(<<t>>) = Range(t) /\ Content(<<u>>) = Range(u)
    BY <1>0, OneBuffer
<1>5. \A x \in Range(s) : \A y \in Range(t) : x < y
    BY <1>4 DEF Below
<1>6. /\ \A i, j \in DOMAIN s : i < j => s[i] < s[j]
      /\ \A i, j \in DOMAIN t : i < j => t[i] < t[j]
    BY OneBuffer
<1>7. \A i, j \in DOMAIN u : i < j => u[i] < u[j]
    <2> SUFFICES ASSUME NEW i \in DOMAIN u, NEW j \in DOMAIN u, i < j PROVE u[i] < u[j]
        OBVIOUS
    <2>1. CASE i \in DOMAIN s /\ j \in DOMAIN s
        BY <1>1, <1>6, <2>1
    <2>2. ASSUME i \in DOMAIN s, NEW b \in DOMAIN t, j = Len(s) + b PROVE u[i] < u[j]
        <3>1. s[i] \in Range(s) /\ t[b] \in Range(t) /\ u[i] = s[i] /\ u[j] = t[b]
            BY <1>1, <2>2 DEF Range
        <3> QED
            BY <1>5, <3>1
    <2>3. ASSUME NEW a \in DOMAIN t, i = Len(s) + a, j \in DOMAIN s PROVE FALSE
        BY <1>1, <2>3
    <2>4. ASSUME NEW a \in DOMAIN t, i = Len(s) + a, NEW b \in DOMAIN t, j = Len(s) + b PROVE u[i] < u[j]
        <3>1. a < b
            BY <1>1, <2>4
        <3> QED
            BY <1>1, <1>6, <2>4, <3>1
    <2> QED
        BY <1>2, <2>1, <2>2, <2>3, <2>4
<1>8. InAppendOrder(<<u>>)
    BY <1>0, <1>7, OneBuffer
<1>9. u \in Seq(Nat) /\ InAppendOrder(<<u>>) /\ Content(<<u>>) = Content(<<s>>) \cup Content(<<t>>)
    BY <1>0, <1>3, <1>4, <1>8
<1> QED
    BY <1>9 DEF u

(* A buffer with a single line. *)
LEMMA OneLine ==
    ASSUME NEW n \in Nat
    PROVE  <<n>> \in Seq(Nat) /\ InAppendOrder(<< <<n>> >>) /\ Content(<< <<n>> >>) = {n}
<1>1. PICK s : s = <<n>>
    BY Zenon
<1>2. s \in Seq(Nat) /\ DOMAIN s = {1} /\ s[1] = n
    BY <1>1
<1>3. Range(s) = {n}
    BY <1>2 DEF Range
<1>4. InAppendOrder(<<s>>) /\ Content(<<s>>) = {n}
    BY <1>2, <1>3, OneBuffer
<1> QED
    BY <1>1, <1>2, <1>4

(* One more line in a buffer. *)
LEMMA OneMoreLine ==
    ASSUME NEW s \in Seq(Nat), NEW n \in Nat, InAppendOrder(<<s>>), Below(Content(<<s>>), {n})
    PROVE  /\ Append(s, n) \in Seq(Nat) /\ InAppendOrder(<<Append(s, n)>>)
           /\ Content(<<Append(s, n)>>) = Content(<<s>>) \cup {n}
<1>1. PICK t : t = <<n>>
    BY Zenon
<1>2. t \in Seq(Nat) /\ InAppendOrder(<<t>>) /\ Content(<<t>>) = {n}
    BY <1>1, OneLine
<1>3. s \o t \in Seq(Nat) /\ InAppendOrder(<<s \o t>>) /\ Content(<<s \o t>>) = Content(<<s>>) \cup {n}
    BY <1>2, OneFile
<1>4. Append(s, n) = s \o t
    BY <1>1
<1> QED
    BY <1>3, <1>4

(* The file, what is to be written, the full buffers and the current one,  *)
(* each in order and one after the other, are together the lines 1 to n    *)
(* without those in D.                                                     *)
Parts(as, bs, cs, ds, n, D) ==
    /\ InAppendOrder(as) /\ InAppendOrder(bs) /\ InAppendOrder(cs) /\ InAppendOrder(ds)
    /\ Below(Content(as), Content(bs)) /\ Below(Content(as), Content(cs)) /\ Below(Content(as), Content(ds))
    /\ Below(Content(bs), Content(cs)) /\ Below(Content(bs), Content(ds)) /\ Below(Content(cs), Content(ds))
    /\ Content(as) \cup Content(bs) \cup Content(cs) \cup Content(ds) = (1..n) \ D

(* The four in one sequence. *)
Joined(as, bs, cs, ds) == as \o bs \o cs \o ds

(* The lines 1 to n without those in D, in order. *)
Exactly(bs, n, D) == InAppendOrder(bs) /\ Content(bs) = (1..n) \ D

(* And so they are in one sequence. *)
LEMMA PartsOrder ==
    ASSUME NEW as \in Buffers, NEW bs \in Buffers, NEW cs \in Buffers, NEW ds \in Buffers, NEW n, NEW D,
           Parts(as, bs, cs, ds, n, D)
    PROVE  Exactly(Joined(as, bs, cs, ds), n, D)
<1>1. PICK es, fs : es = as \o bs /\ fs = es \o cs
    BY Zenon
<1>2. es \in Buffers /\ fs \in Buffers
    <2>1. \A x, y \in Buffers : x \o y \in Buffers
        BY DEF Buffers
    <2> QED
        BY <1>1, <2>1
<1>3. InAppendOrder(es) /\ Content(es) = Content(as) \cup Content(bs)
    BY <1>1, ConcatOrder, ConcatContent DEF Parts
<1>4. Below(Content(es), Content(cs)) /\ Below(Content(es), Content(ds))
    BY <1>3 DEF Parts, Below
<1>5. InAppendOrder(fs) /\ Content(fs) = Content(es) \cup Content(cs)
    BY <1>1, <1>2, <1>3, <1>4, ConcatOrder, ConcatContent DEF Parts
<1>6. Below(Content(fs), Content(ds))
    BY <1>4, <1>5 DEF Parts, Below
<1>7. InAppendOrder(fs \o ds) /\ Content(fs \o ds) = Content(fs) \cup Content(ds)
    BY <1>2, <1>5, <1>6, ConcatOrder, ConcatContent DEF Parts
<1> QED
    BY <1>1, <1>3, <1>5, <1>7 DEF Parts, Joined, Exactly

(* No buffers. *)
LEMMA NoBuffers == <<>> \in Buffers /\ InAppendOrder(<<>>) /\ Content(<<>>) = {}
<1>1. DOMAIN <<>> = {}
    OBVIOUS
<1> QED
    BY <1>1 DEF Buffers, InAppendOrder, Content

(* append, when there is room in the current buffer ... *)
LEMMA PartsAppend ==
    ASSUME NEW as, NEW bs, NEW cs, NEW s \in Seq(Nat), NEW n \in Nat, NEW D, D \subseteq 1..n,
           Parts(as, bs, cs, <<s>>, n, D)
    PROVE  Parts(as, bs, cs, <<Append(s, n + 1)>>, n + 1, D)
<1>1. ASSUME NEW x \in Content(as) \cup Content(bs) \cup Content(cs) \cup Content(<<s>>)
      PROVE  x < n + 1
    <2>1. x \in 1..n
        BY DEF Parts
    <2> QED
        BY <2>1
<1>2. /\ Below(Content(as), {n + 1}) /\ Below(Content(bs), {n + 1}) /\ Below(Content(cs), {n + 1})
      /\ Below(Content(<<s>>), {n + 1})
    BY <1>1 DEF Below
<1>3. InAppendOrder(<<Append(s, n + 1)>>) /\ Content(<<Append(s, n + 1)>>) = Content(<<s>>) \cup {n + 1}
    <2>1. n + 1 \in Nat /\ InAppendOrder(<<s>>)
        BY DEF Parts
    <2> QED
        BY <1>2, <2>1, OneMoreLine
<1>4. (1..(n + 1)) \ D = ((1..n) \ D) \cup {n + 1}
    OBVIOUS
<1>5. PICK ds : ds = <<Append(s, n + 1)>>
    BY Zenon
<1> QED
    BY <1>2, <1>3, <1>4, <1>5 DEF Parts, Below

(* ... and when there is not. *)
LEMMA PartsNext ==
    ASSUME NEW as, NEW bs, NEW cs \in Buffers, NEW s \in Seq(Nat), NEW n \in Nat, NEW D, D \subseteq 1..n,
           Parts(as, bs, cs, <<s>>, n, D)
    PROVE  Append(cs, s) \in Buffers /\ Parts(as, bs, Append(cs, s), << <<n + 1>> >>, n + 1, D)
<1>1. PICK es, ds, fs : es = Append(cs, s) /\ ds = << <<n + 1>> >> /\ fs = <<s>>
    BY Zenon
<1>2. es = cs \o fs /\ fs \in Buffers /\ es \in Buffers
    BY <1>1 DEF Buffers
<1>3. InAppendOrder(es) /\ Content(es) = Content(cs) \cup Content(fs)
    BY <1>1, <1>2, ConcatOrder, ConcatContent DEF Parts
<1>4. InAppendOrder(ds) /\ Content(ds) = {n + 1}
    <2>1. n + 1 \in Nat
        OBVIOUS
    <2> QED
        BY <1>1, <2>1, OneLine
<1>5. ASSUME NEW x \in Content(as) \cup Content(bs) \cup Content(es) PROVE x < n + 1
    <2>1. x \in 1..n
        BY <1>1, <1>3 DEF Parts
    <2> QED
        BY <2>1
<1>6. Below(Content(as), Content(ds)) /\ Below(Content(bs), Content(ds)) /\ Below(Content(es), Content(ds))
    BY <1>4, <1>5 DEF Below
<1>7. Below(Content(as), Content(es)) /\ Below(Content(bs), Content(es))
    BY <1>1, <1>3 DEF Parts, Below
<1>8. (1..(n + 1)) \ D = ((1..n) \ D) \cup {n + 1}
    OBVIOUS
<1>9. Content(as) \cup Content(bs) \cup Content(es) \cup Content(ds) = (1..(n + 1)) \ D
    BY <1>1, <1>3, <1>4, <1>8 DEF Parts
<1>10. Parts(as, bs, es, ds, n + 1, D)
    BY <1>3, <1>4, <1>6, <1>7, <1>9 DEF Parts
<1> QED
    BY <1>1, <1>2, <1>10

(* The buffers are swapped: the logging thread has nothing to write. *)
LEMMA PartsSwap ==
    ASSUME NEW as, NEW cs \in Buffers, NEW s \in Seq(Nat), NEW n, NEW D, Parts(as, <<>>, cs, <<s>>, n, D)
    PROVE  Append(cs, s) \in Buffers /\ Parts(as, Append(cs, s), <<>>, << <<>> >>, n, D)
<1>1. PICK es, fs : es = Append(cs, s) /\ fs = <<s>>
    BY Zenon
<1>2. es = cs \o fs /\ fs \in Buffers /\ es \in Buffers
    BY <1>1 DEF Buffers
<1>3. InAppendOrder(es) /\ Content(es) = Content(cs) \cup Content(fs)
    BY <1>1, <1>2, ConcatOrder, ConcatContent DEF Parts
<1>4. PICK os, us : os = <<>> /\ us = << <<>> >>
    BY Zenon
<1>5. InAppendOrder(os) /\ InAppendOrder(us) /\ Content(os) = {} /\ Content(us) = {}
    BY <1>4, NoBuffers, OneBuffer
<1>6. Parts(as, os, cs, fs, n, D)
    BY <1>1, <1>4
<1>7. Below(Content(as), Content(es))
    BY <1>3, <1>6 DEF Parts, Below
<1>8. Content(as) \cup Content(es) \cup Content(os) \cup Content(us) = (1..n) \ D
    BY <1>3, <1>5, <1>6 DEF Parts
<1>9. Parts(as, es, os, us, n, D)
    BY <1>3, <1>5, <1>6, <1>7, <1>8 DEF Parts, Below
<1> QED
    BY <1>1, <1>2, <1>4, <1>9

(* The last of the buffers to write are dropped, with their lines. *)
LEMMA PartsDrop ==
    ASSUME NEW as, NEW ps \in Buffers, NEW qs \in Buffers, NEW cs, NEW ds, NEW n \in Nat, NEW D,
           Parts(as, ps \o qs, cs, ds, n, D)
    PROVE  Content(qs) \subseteq 1..n /\ Parts(as, ps, cs, ds, n, D \cup Content(qs))
<1>1. PICK bs : bs = ps \o qs
    BY Zenon
<1>2. InAppendOrder(ps) /\ InAppendOrder(qs) /\ Below(Content(ps), Content(qs)) /\ Content(bs) = Content(ps) \cup Content(qs)
    BY <1>1, ConcatOrder, ConcatContent DEF Parts
<1>3. Parts(as, bs, cs, ds, n, D)
    BY <1>1
<1>4. /\ Below(Content(as), Content(ps)) /\ Below(Content(ps), Content(cs)) /\ Below(Content(ps), Content(ds))
      /\ Below(Content(as), Content(qs)) /\ Below(Content(qs), Content(cs)) /\ Below(Content(qs), Content(ds))
      /\ Below(Content(ps), Content(qs))
    BY <1>2, <1>3 DEF Parts, Below
<1>5. ASSUME NEW x \in Content(qs)
      PROVE  x \notin Content(as) /\ x \notin Content(ps) /\ x \notin Content(cs) /\ x \notin Content(ds)
    <2>1. x \in 1..n
        BY <1>2, <1>3 DEF Parts
    <2>2. ~(x < x)
        BY <2>1
    <2> QED
        BY <1>4, <2>2 DEF Below
<1>6. \A x : x \in Content(as) \cup Content(ps) \cup Content(qs) \cup Content(cs) \cup Content(ds) <=> x \in (1..n) \ D
    BY <1>2, <1>3 DEF Parts
<1>7. Content(qs) \subseteq 1..n
    BY <1>6
<1>8. Content(as) \cup Content(ps) \cup Content(cs) \cup Content(ds) = (1..n) \ (D \cup Content(qs))
    BY <1>5, <1>6
<1> QED
    BY <1>2, <1>3, <1>4, <1>7, <1>8 DEF Parts

(* The first of the buffers to write is written. *)
LEMMA PartsWrite ==
    ASSUME NEW w \in Seq(Nat), NEW t \in Seq(Nat), NEW ps \in Buffers, NEW cs, NEW ds, NEW n, NEW D,
           Parts(<<w>>, <<t>> \o ps, cs, ds, n, D)
    PROVE  w \o t \in Seq(Nat) /\ Parts(<<w \o t>>, ps, cs, ds, n, D)
<1>1. PICK as, bs, ts, us : as = <<w>> /\ bs = ts \o ps /\ ts = <<t>> /\ us = <<w \o t>>
    BY Zenon
<1>2. ts \in Buffers
    BY <1>1, OneBuffer
<1>3. Parts(as, bs, cs, ds, n, D)
    BY <1>1
<1>4. InAppendOrder(ts) /\ InAppendOrder(ps) /\ Below(Content(ts), Content(ps)) /\ Content(bs) = Content(ts) \cup Content(ps)
    BY <1>1, <1>2, <1>3, ConcatOrder, ConcatContent DEF Parts
<1>5. /\ Below(Content(as), Content(ts)) /\ Below(Content(ts), Content(cs)) /\ Below(Content(ts), Content(ds))
      /\ Below(Content(as), Content(ps)) /\ Below(Content(ps), Content(cs)) /\ Below(Content(ps), Content(ds))
      /\ Below(Content(ts), Content(ps))
    BY <1>3, <1>4 DEF Parts, Below
<1>6. w \o t \in Seq(Nat) /\ InAppendOrder(us) /\ Content(us) = Content(as) \cup Content(ts)
    BY <1>1, <1>3, <1>4, <1>5, OneFile DEF Parts
<1>7. /\ Below(Content(us), Content(ps)) /\ Below(Content(us), Content(cs)) /\ Below(Content(us), Content(ds))
    BY <1>3, <1>5, <1>6 DEF Parts, Below
<1>8. Content(us) \cup Content(ps) \cup Content(cs) \cup Content(ds) = (1..n) \ D
    BY <1>3, <1>4, <1>6 DEF Parts
<1>9. Parts(us, ps, cs, ds, n, D)
    BY <1>3, <1>4, <1>5, <1>6, <1>7, <1>8 DEF Parts
<1> QED
    BY <1>1, <1>6, <1>9

(* A sequence of buffers cut in two. *)
LEMMA CutBuffers ==
    ASSUME NEW q \in Buffers, NEW k \in 0..Len(q)
    PROVE  /\ SubSeq(q, 1, k) \in Buffers /\ Len(SubSeq(q, 1, k)) = k
           /\ SubSeq(q, k + 1, Len(q)) \in Buffers
           /\ q = SubSeq(q, 1, k) \o SubSeq(q, k + 1, Len(q))
           /\ Content(SubSeq(q, k + 1, Len(q))) = UNION {Range(q[i]) : i \in (k + 1)..Len(q)}
<1> DEFINE ps == SubSeq(q, 1, k)
           qs == SubSeq(q, k + 1, Len(q))
           rs == ps \o qs
<1>1. PICK S : S = Seq(Nat)
    BY Zenon
<1>2. q \in Seq(S) /\ Len(q) \in Nat /\ k \in Nat /\ k <= Len(q)
    BY <1>1 DEF Buffers
<1>3. ps \in Seq(S) /\ Len(ps) = k /\ \A i \in 1..k : ps[i] = q[i]
    BY <1>2
<1>4. qs \in Seq(S) /\ Len(qs) = Len(q) - k /\ \A i \in 1..(Len(q) - k) : qs[i] = q[k + i]
    BY <1>2
<1> HIDE DEF ps, qs
<1>5. rs \in Seq(S) /\ Len(rs) = Len(q)
    BY <1>2, <1>3, <1>4
<1>6. \A i \in 1..Len(q) : rs[i] = q[i]
    <2> TAKE i \in 1..Len(q)
    <2>1. CASE i <= k
        BY <1>2, <1>3, <1>4, <2>1
    <2>2. CASE i > k
        <3>1. rs[i] = qs[i - k] /\ i - k \in 1..(Len(q) - k) /\ k + (i - k) = i
            BY <1>2, <1>3, <1>4, <2>2
        <3> QED
            BY <1>4, <3>1
    <2>3. i <= k \/ i > k
        BY <1>2
    <2> HIDE DEF rs
    <2> QED
        BY <2>1, <2>2, <2>3
<1> HIDE DEF rs
<1>7. q = rs
    BY <1>2, <1>5, <1>6
<1>8. Content(qs) = UNION {Range(q[i]) : i \in (k + 1)..Len(q)}
    <2>1. DOMAIN qs = 1..(Len(q) - k)
        BY <1>4
    <2>2. \A j \in 1..(Len(q) - k) : k + j \in (k + 1)..Len(q) /\ qs[j] = q[k + j]
        BY <1>2, <1>4
    <2>3. \A i \in (k + 1)..Len(q) : i - k \in 1..(Len(q) - k) /\ qs[i - k] = q[i]
        <3> TAKE i \in (k + 1)..Len(q)
        <3>1. i - k \in 1..(Len(q) - k) /\ k + (i - k) = i
            BY <1>2
        <3> QED
            BY <2>2, <3>1
    <2>4. \A x : (\E j \in DOMAIN qs : x \in Range(qs[j])) <=> (\E i \in (k + 1)..Len(q) : x \in Range(q[i]))
        BY <2>1, <2>2, <2>3
    <2> QED
        BY <2>4 DEF Content
<1> QED
    BY <1>1, <1>3, <1>4, <1>7, <1>8 DEF ps, qs, rs, Buffers

(* The first buffer of those left. *)
LEMMA FirstLeft ==
    ASSUME NEW q \in Buffers, NEW k \in Nat, k < Len(q)
    PROVE  /\ q[k + 1] \in Seq(Nat) /\ SubSeq(q, k + 2, Len(q)) \in Buffers
           /\ SubSeq(q, k + 1, Len(q)) = <<q[k + 1]>> \o SubSeq(q, k + 2, Len(q))
<1>1. PICK S : S = Seq(Nat)
    BY Zenon
<1>2. q \in Seq(S) /\ Len(q) \in Nat
    BY <1>1 DEF Buffers
<1>3. q[k + 1] \in S /\ SubSeq(q, k + 2, Len(q)) \in Seq(S)
    BY <1>2
<1>4. SubSeq(q, k + 1, Len(q)) = <<q[k + 1]>> \o SubSeq(q, k + 2, Len(q))
    BY <1>2
<1> QED
    BY <1>1, <1>3, <1>4 DEF Buffers

(* All of them, and none. *)
LEMMA AllLeft ==
    ASSUME NEW q \in Buffers
    PROVE  SubSeq(q, 1, Len(q)) = q /\ SubSeq(q, Len(q) + 1, Len(q)) = <<>>
<1>1. PICK S : S = Seq(Nat)
    BY Zenon
<1>2. q \in Seq(S) /\ Len(q) \in Nat
    BY <1>1 DEF Buffers
<1>3. SubSeq(q, 1, Len(q)) = q
    BY <1>2
<1>4. SubSeq(q, Len(q) + 1, Len(q)) = <<>>
    BY <1>2
<1> QED
    BY <1>3, <1>4

-----------------------------------------------------------------------------
(* The type invariant. *)
LogShape == /\ currentBuffer \in Seq(Nat) /\ written \in Seq(Nat)
            /\ buffers \in Buffers /\ toWrite \in Buffers
            /\ wrote \in Nat /\ wrote <= Len(toWrite)
            /\ newBuffer1 \in BOOLEAN /\ newBuffer2 \in BOOLEAN /\ nextBuffer \in BOOLEAN
            /\ appended \in Nat
            /\ dropped \subseteq 1..appended

(* What the logging thread holds: its two spare buffers outside of a round *)
(* of writing and, inside, as many to write as it has given away.  When    *)
(* nextBuffer_ is used up there is a full buffer.                          *)
LogTurn == /\ writer # "aborted"
           /\ writer \notin {"dropping", "writing"} => newBuffer1 /\ newBuffer2 /\ toWrite = <<>>
           /\ writer \in {"dropping", "writing"} => toWrite # <<>>
           /\ writer # "writing" => wrote = 0
           /\ ~newBuffer2 => Len(toWrite) >= 2
           /\ ~nextBuffer => buffers # <<>>

(* Those of the buffers taken that are not in the file yet. *)
Left == SubSeq(toWrite, wrote + 1, Len(toWrite))

LogInv == LogShape /\ LogTurn /\ Parts(<<written>>, Left, buffers, <<currentBuffer>>, appended, dropped)

(* Nothing is logged when start() returns. *)
LEMMA LogInvInit == LogInit => LogInv
<1> SUFFICES ASSUME LogInit PROVE LogInv
    OBVIOUS
<1>1. LogShape /\ LogTurn
    BY NoBuffers DEF LogInit, LogShape, LogTurn
<1>2. PICK os, us : os = <<>> /\ us = << <<>> >>
    BY Zenon
<1>3. InAppendOrder(os) /\ InAppendOrder(us) /\ Content(os) = {} /\ Content(us) = {}
    <2>1. <<>> \in Seq(Nat)
        OBVIOUS
    <2> QED
        BY <1>2, <2>1, NoBuffers, OneBuffer
<1>4. (1..0) \ {} = {}
    OBVIOUS
<1>5. Parts(us, os, os, us, 0, {})
    BY <1>3, <1>4 DEF Parts, Below
<1>6. Left = <<>>
    BY DEF LogInit, Left
<1> QED
    BY <1>1, <1>2, <1>5, <1>6 DEF LogInv, LogInit

(* append. *)
LEMMA LogInvAppend == LogInv /\ AppendLine => LogInv'
<1> SUFFICES ASSUME LogInv, AppendLine PROVE LogInv'
    OBVIOUS
<1>1. LogShape' /\ LogTurn'
    <2>1. currentBuffer' \in Seq(Nat) /\ appended' \in Nat /\ dropped' \subseteq 1..appended'
        BY DEF LogInv, LogShape, AppendLine
    <2> QED
        BY <2>1 DEF LogInv, LogShape, LogTurn, AppendLine
<1>2. PICK as, bs : as = <<written>> /\ bs = Left
    BY Zenon
<1>3. Parts(as, bs, buffers, <<currentBuffer>>, appended, dropped)
    BY <1>2 DEF LogInv
<1>4. Parts(as, bs, buffers, <<Append(currentBuffer, appended + 1)>>, appended + 1, dropped)
    BY <1>3, PartsAppend DEF LogInv, LogShape
<1>5. as = <<written'>> /\ bs = Left'
    BY <1>2 DEF AppendLine, Left
<1> QED
    BY <1>1, <1>4, <1>5 DEF LogInv, AppendLine

(* append, when the current buffer is full. *)
LEMMA LogInvNext == LogInv /\ AppendToNextBuffer => LogInv'
<1> SUFFICES ASSUME LogInv, AppendToNextBuffer PROVE LogInv'
    OBVIOUS
<1>1. PICK as, bs : as = <<written>> /\ bs = Left
    BY Zenon
<1>2. Parts(as, bs, buffers, <<currentBuffer>>, appended, dropped)
    BY <1>1 DEF LogInv
<1>3. /\ Append(buffers, currentBuffer) \in Buffers
      /\ Parts(as, bs, Append(buffers, currentBuffer), << <<appended + 1>> >>, appended + 1, dropped)
    BY <1>2, PartsNext DEF LogInv, LogShape
<1>4. as = <<written'>> /\ bs = Left'
    BY <1>1 DEF AppendToNextBuffer, Left
<1>5. LogShape'
    <2>1. currentBuffer' \in Seq(Nat) /\ appended' \in Nat /\ dropped' \subseteq 1..appended'
        BY DEF LogInv, LogShape, AppendToNextBuffer
    <2> QED
        BY <1>3, <2>1 DEF LogInv, LogShape, AppendToNextBuffer
<1>6. LogTurn'
    <2>1. Append(buffers, currentBuffer) # <<>>
        <3>1. PICK S, q, s : S = Seq(Nat) /\ q = buffers /\ s = currentBuffer
            BY Zenon
        <3>2. q \in Seq(S) /\ s \in S
            BY <3>1 DEF LogInv, LogShape, Buffers
        <3>3. Append(q, s) # <<>>
            <4>1. Len(Append(q, s)) = Len(q) + 1 /\ Len(q) \in Nat
                BY <3>2
            <4>2. Len(<<>>) = 0
                OBVIOUS
            <4> QED
                BY <4>1, <4>2
        <3> QED
            BY <3>1, <3>3
    <2> QED
        BY <2>1 DEF LogInv, LogTurn, AppendToNextBuffer
<1> QED
    BY <1>3, <1>4, <1>5, <1>6 DEF LogInv, AppendToNextBuffer

(* The logging thread takes the buffers. *)
LEMMA LogInvSwap == LogInv /\ LogSwap => LogInv'
<1> SUFFICES ASSUME LogInv, LogSwap PROVE LogInv'
    OBVIOUS
<1>1. toWrite = <<>> /\ wrote = 0 /\ newBuffer1 /\ newBuffer2
    BY DEF LogInv, LogTurn, LogSwap, Swaps
<1>2. Left = <<>>
    BY <1>1 DEF Left
<1>3. PICK as : as = <<written>>
    BY Zenon
<1>4. Parts(as, <<>>, buffers, <<currentBuffer>>, appended, dropped)
    BY <1>2, <1>3 DEF LogInv
<1>5. PICK bs : bs = Append(buffers, currentBuffer)
    BY Zenon
<1>6. bs \in Buffers /\ Parts(as, bs, <<>>, << <<>> >>, appended, dropped)
    BY <1>4, <1>5, PartsSwap DEF LogInv, LogShape
<1>7. toWrite' = bs /\ wrote' = 0
    BY <1>1, <1>5 DEF LogSwap
<1>8. Left' = bs
    BY <1>6, <1>7, AllLeft DEF Left
<1>9. Len(bs) = Len(buffers) + 1 /\ Len(buffers) \in Nat /\ (buffers # <<>> => Len(buffers) > 0)
    BY <1>5 DEF LogInv, LogShape, Buffers
<1>10. LogShape'
    <2>1. <<>> \in Seq(Nat) /\ 0 \in Nat /\ 0 <= Len(bs) /\ <<>> \in Buffers
        BY <1>9, NoBuffers
    <2> QED
        BY <1>6, <1>7, <2>1 DEF LogInv, LogShape, LogSwap
<1>11. LogTurn'
    <2>1. bs # <<>>
        BY <1>9
    <2>2. ~nextBuffer => Len(bs) >= 2
        BY <1>9 DEF LogInv, LogTurn
    <2>3. writer' = "dropping" /\ nextBuffer' = TRUE /\ newBuffer2' = (newBuffer2 /\ nextBuffer)
        BY DEF LogSwap
    <2>4. ~newBuffer2' => Len(bs) >= 2
        BY <1>1, <2>2, <2>3
    <2> QED
        BY <1>7, <2>1, <2>3, <2>4 DEF LogTurn
<1> QED
    BY <1>3, <1>6, <1>8, <1>10, <1>11 DEF LogInv, LogSwap

(* It drops all but the first two when there are too many. *)
LEMMA LogInvDrop == LogInv /\ LogDrop => LogInv'
<1> SUFFICES ASSUME LogInv, LogDrop PROVE LogInv'
    OBVIOUS
<1>1. PICK q, n, k : q = toWrite /\ n = Len(q) /\ k = IF n > MaxBuffers THEN 2 ELSE n
    BY Zenon
<1>2. /\ writer = "dropping" /\ writer' = "writing" /\ toWrite' = SubSeq(q, 1, k)
      /\ dropped' = dropped \cup UNION {Range(q[i]) : i \in (k + 1)..n}
      /\ UNCHANGED <<currentBuffer, nextBuffer, buffers, newBuffer1, newBuffer2, wrote, appended, written>>
    BY <1>1 DEF LogDrop
<1>3. /\ q \in Buffers /\ n \in Nat /\ n > 0 /\ k \in 0..Len(q) /\ k > 0 /\ (n >= 2 => k >= 2) /\ wrote = 0
    <2>1. q \in Buffers /\ wrote = 0 /\ q # <<>>
        BY <1>1, <1>2 DEF LogInv, LogShape, LogTurn
    <2>2. n \in Nat /\ n > 0
        BY <1>1, <2>1 DEF Buffers
    <2> QED
        BY <1>1, <2>1, <2>2, LoggingAssumption
<1>4. PICK ps, qs : ps = SubSeq(q, 1, k) /\ qs = SubSeq(q, k + 1, Len(q))
    BY Zenon
<1>5. /\ ps \in Buffers /\ Len(ps) = k /\ qs \in Buffers /\ q = ps \o qs
      /\ Content(qs) = UNION {Range(q[i]) : i \in (k + 1)..Len(q)}
    BY <1>3, <1>4, CutBuffers
<1>6. dropped' = dropped \cup Content(qs)
    BY <1>1, <1>2, <1>5
<1>7. Left = q /\ Left' = ps
    <2>1. Left = SubSeq(q, 1, Len(q)) /\ Left' = SubSeq(ps, 1, Len(ps))
        BY <1>1, <1>2, <1>3, <1>4 DEF Left
    <2> QED
        BY <1>3, <1>5, <2>1, AllLeft
<1>8. PICK as, ds : as = <<written>> /\ ds = <<currentBuffer>>
    BY Zenon
<1>9. Parts(as, ps \o qs, buffers, ds, appended, dropped)
    BY <1>5, <1>7, <1>8 DEF LogInv
<1>10. Content(qs) \subseteq 1..appended /\ Parts(as, ps, buffers, ds, appended, dropped \cup Content(qs))
    BY <1>5, <1>9, PartsDrop DEF LogInv, LogShape
<1>11. LogShape'
    <2>1. toWrite' \in Buffers /\ wrote' \in Nat /\ wrote' <= Len(toWrite')
        BY <1>2, <1>3, <1>4, <1>5
    <2>2. dropped' \subseteq 1..appended'
        BY <1>2, <1>6, <1>10 DEF LogInv, LogShape
    <2> QED
        BY <1>2, <2>1, <2>2 DEF LogInv, LogShape
<1>12. LogTurn'
    <2>1. ps # <<>>
        BY <1>3, <1>5
    <2>2. ~newBuffer2' => Len(ps) >= 2
        BY <1>1, <1>2, <1>3, <1>5 DEF LogInv, LogTurn
    <2> QED
        BY <1>2, <1>4, <2>1, <2>2 DEF LogInv, LogTurn
<1> QED
    BY <1>2, <1>6, <1>7, <1>8, <1>10, <1>11, <1>12 DEF LogInv

(* It writes the next buffer. *)
LEMMA LogInvWrite == LogInv /\ LogWrite => LogInv'
<1> SUFFICES ASSUME LogInv, LogWrite PROVE LogInv'
    OBVIOUS
<1>1. PICK q, k, w, t, ps : q = toWrite /\ k = wrote /\ w = written /\ t = q[k + 1] /\ ps = SubSeq(q, k + 2, Len(q))
    BY Zenon
<1>2. q \in Buffers /\ k \in Nat /\ k < Len(q) /\ w \in Seq(Nat) /\ Len(q) \in Nat
    BY <1>1 DEF LogInv, LogShape, LogWrite, Buffers
<1>3. t \in Seq(Nat) /\ ps \in Buffers /\ SubSeq(q, k + 1, Len(q)) = <<t>> \o ps
    BY <1>1, <1>2, FirstLeft
<1>4. PICK ds : ds = <<currentBuffer>>
    BY Zenon
<1>5. Left = <<t>> \o ps
    BY <1>1, <1>3 DEF Left
<1>6. Parts(<<w>>, <<t>> \o ps, buffers, ds, appended, dropped)
    BY <1>1, <1>4, <1>5 DEF LogInv
<1>7. w \o t \in Seq(Nat) /\ Parts(<<w \o t>>, ps, buffers, ds, appended, dropped)
    BY <1>2, <1>3, <1>6, PartsWrite
<1>8. /\ wrote' = k + 1 /\ written' = w \o t /\ toWrite' = q
      /\ UNCHANGED <<writer, currentBuffer, nextBuffer, buffers, newBuffer1, newBuffer2, appended, dropped>>
    BY <1>1 DEF LogWrite
<1>9. Left' = ps
    <2>1. (k + 1) + 1 = k + 2
        BY <1>2
    <2> QED
        BY <1>1, <1>8, <2>1 DEF Left
<1>10. LogShape'
    BY <1>2, <1>7, <1>8 DEF LogInv, LogShape
<1>11. LogTurn'
    BY <1>1, <1>8 DEF LogInv, LogTurn, LogWrite
<1> QED
    BY <1>4, <1>7, <1>8, <1>9, <1>10, <1>11 DEF LogInv

(* All are written: it takes two of them back. *)
LEMMA LogInvReset == LogInv /\ LogReset => LogInv'
<1> SUFFICES ASSUME LogInv, LogReset PROVE LogInv'
    OBVIOUS
<1>1. toWrite \in Buffers /\ Len(toWrite) \in Nat /\ Len(toWrite) > 0 /\ (~newBuffer2 => Len(toWrite) >= 2)
    <2>1. toWrite \in Buffers /\ toWrite # <<>> /\ (~newBuffer2 => Len(toWrite) >= 2)
        BY DEF LogInv, LogShape, LogTurn, LogReset
    <2> QED
        BY <2>1 DEF Buffers
<1>2. /\ wrote = Len(toWrite) /\ newBuffer1' = TRUE /\ newBuffer2' = TRUE /\ toWrite' = <<>> /\ wrote' = 0
      /\ UNCHANGED <<currentBuffer, nextBuffer, buffers, appended, written, dropped>>
    BY DEF LogReset
<1>3. writer' = "testing"
    <2> DEFINE spare  == IF Len(toWrite) > 2 THEN 2 ELSE Len(toWrite)
               needed == (IF newBuffer1 THEN 0 ELSE 1) + (IF newBuffer2 THEN 0 ELSE 1)
    <2>1. writer' = IF needed > spare THEN "aborted" ELSE "testing"
        BY DEF LogReset
    <2>2. CASE newBuffer2
        <3>1. needed <= 1 /\ needed \in Nat /\ spare \in Nat /\ spare >= 1
            BY <1>1, <2>2
        <3> QED
            BY <2>1, <3>1
    <2>3. CASE ~newBuffer2
        <3>1. needed <= 2 /\ needed \in Nat
            OBVIOUS
        <3>2. spare = 2
            <4>1. PICK l : l = Len(toWrite)
                BY Zenon
            <4>2. l \in Nat /\ l >= 2
                BY <1>1, <2>3, <4>1
            <4>3. (IF l > 2 THEN 2 ELSE l) = 2
                BY <4>2
            <4> QED
                BY <4>1, <4>3
        <3> QED
            BY <2>1, <3>1, <3>2
    <2> QED
        BY <2>2, <2>3
<1>4. Left = <<>>
    BY <1>1, <1>2, AllLeft DEF Left
<1>5. Left' = <<>>
    BY <1>2 DEF Left
<1>6. LogShape'
    <2>1. 0 \in Nat /\ 0 <= Len(<<>>) /\ <<>> \in Buffers
        BY NoBuffers
    <2> QED
        BY <1>2, <2>1 DEF LogInv, LogShape
<1>7. LogTurn'
    BY <1>2, <1>3 DEF LogInv, LogTurn
<1> QED
    BY <1>2, <1>4, <1>5, <1>6, <1>7 DEF LogInv

(* Every step keeps the invariant. *)
LEMMA LogInvStep == LogInv /\ [LogNext]_logVars => LogInv'
<1> SUFFICES ASSUME LogInv, [LogNext]_logVars PROVE LogInv'
    OBVIOUS
<1>1. ASSUME UNCHANGED <<currentBuffer, nextBuffer, buffers, newBuffer1, newBuffer2, toWrite, wrote, appended,
                         written, dropped>>, LogTurn'
      PROVE  LogInv'
    <2>1. Left' = Left
        BY <1>1 DEF Left
    <2>2. LogShape'
        BY <1>1 DEF LogInv, LogShape
    <2> QED
        BY <1>1, <2>1, <2>2 DEF LogInv
<1>2. CASE LogTest
    BY <1>1, <1>2 DEF LogInv, LogTurn, LogTest
<1>3. CASE LogLock
    BY <1>1, <1>3 DEF LogInv, LogTurn, LogLock
<1>4. CASE LogTimeout
    BY <1>1, <1>4 DEF LogInv, LogTurn, LogTimeout
<1>5. CASE LogStop
    BY <1>1, <1>5 DEF LogInv, LogTurn, LogStop
<1>6. CASE LogStopNotifies
    BY <1>1, <1>6 DEF LogInv, LogTurn, LogStopNotifies
<1>7. CASE LogJoin
    BY <1>1, <1>7 DEF LogInv, LogTurn, LogJoin
<1>8. CASE UNCHANGED logVars
    BY <1>1, <1>8 DEF LogInv, LogTurn, logVars
<1> QED
    BY <1>2, <1>3, <1>4, <1>5, <1>6, <1>7, <1>8, LogInvAppend, LogInvNext, LogInvSwap, LogInvDrop, LogInvWrite,
       LogInvReset DEF LogNext, LogWriterStep

(* Whatever threads append, however the logging thread is woken and        *)
(* stopped, and however many buffers are full when it comes to them: what  *)
(* is in the file, in its hands and in the buffers is every line appended, *)
(* in order and once, without those it drops; and the assertions of        *)
(* threadFunc never fail.                                                  *)
THEOREM NoLineIsLost == LogSpec => []NoLineLost
<1>1. LogInv => NoLineLost
    <2> SUFFICES ASSUME LogInv PROVE NoLineLost
        OBVIOUS
    <2>1. PICK as, ds, bs : as = <<written>> /\ ds = <<currentBuffer>> /\ bs = Left
        BY Zenon
    <2>2. as \in Buffers /\ ds \in Buffers
        BY <2>1, OneBuffer DEF LogInv, LogShape
    <2>3. bs \in Buffers
        <3>1. PICK q, k : q = toWrite /\ k = wrote
            BY Zenon
        <3>2. q \in Buffers /\ k \in Nat /\ k <= Len(q)
            BY <3>1 DEF LogInv, LogShape
        <3>3. k \in 0..Len(q)
            BY <3>2 DEF Buffers
        <3> QED
            BY <2>1, <3>1, <3>2, <3>3, CutBuffers DEF Left
    <2>4. Parts(as, bs, buffers, ds, appended, dropped)
        BY <2>1 DEF LogInv
    <2>5. Exactly(Joined(as, bs, buffers, ds), appended, dropped)
        <3>1. PICK cs, n, D : cs = buffers /\ n = appended /\ D = dropped
            BY Zenon
        <3>2. cs \in Buffers /\ Parts(as, bs, cs, ds, n, D)
            BY <2>4, <3>1 DEF LogInv, LogShape
        <3>3. Exactly(Joined(as, bs, cs, ds), n, D)
            BY <2>2, <2>3, <3>2, PartsOrder, Zenon
        <3> QED
            BY <3>1, <3>3
    <2>6. Stream = Joined(as, bs, buffers, ds)
        BY <2>1 DEF Stream, Joined, Left
    <2> QED
        BY <2>5, <2>6 DEF NoLineLost, Exactly, LogInv, LogTurn
<1> QED
    BY <1>1, LogInvInit, LogInvStep, PTL DEF LogSpec
=============================================================================

----------------------------- MODULE EventLoop -----------------------------
(***************************************************************************)
(* An EventLoop in the thread of an EventLoopThread (muduo/net), and the   *)
(* other threads that use it: they queue functors, and the owner of the    *)
(* EventLoopThread starts the loop and ends it from its destructor.        *)
(*                                                                         *)
(* The loop thread sleeps in poll.  A functor is put into pendingFunctors_ *)
(* under a mutex and the loop is woken afterwards through an eventfd, so   *)
(* the loop may be anywhere in between.  Functors are numbered in the      *)
(* order in which they are put in.  Other threads begin to use the loop    *)
(* after startLoop has returned it and while it exists.                    *)
(***************************************************************************)
EXTENDS Integers, Sequences

CONSTANTS Threads,       \* threads other than the loop's own and its owner's
          MaxFunctors    \* bound: functors queued in one behaviour

ASSUME LoopAssumption == MaxFunctors \in Nat

VARIABLES pc,        \* where the loop thread is
          loopPtr,   \* loop_ # NULL in the EventLoopThread
          quit,      \* quit_
          calling,   \* callingPendingFunctors_
          woken,     \* the wakeup channel is among activeChannels_
          eventfd,   \* the counter behind wakeupFd_ is not 0
          pending,   \* pendingFunctors_
          functors,  \* the local variable of doPendingFunctors, from the next one to run on
          waking,    \* threads that have queued a functor and are about to call wakeup()
          owner,     \* where the owner of the EventLoopThread is
          queued,    \* history: functors queued so far
          ran        \* history: functors run so far, in order

loopVars == <<pc, loopPtr, quit, calling, woken, eventfd, pending, functors, waking, owner, queued, ran>>

LoopInit == /\ pc = "none"
            /\ loopPtr = FALSE
            /\ quit = FALSE
            /\ calling = FALSE
            /\ woken = FALSE
            /\ eventfd = FALSE
            /\ pending = <<>>
            /\ functors = <<>>
            /\ waking = {}
            /\ owner = "new"
            /\ queued = 0
            /\ ran = <<>>

(* pendingFunctors_.push_back(cb), under mutex_. *)
PushBack == /\ queued < MaxFunctors
            /\ queued' = queued + 1
            /\ pending' = Append(pending, queued + 1)

(* Mutant: only other threads wake the loop. *)
WakesItselfNever == FALSE

(* queueInLoop, in the loop thread: the loop goes on to poll after the     *)
(* functors it is calling, so it has to wake itself.                       *)
WakesItself == calling

-----------------------------------------------------------------------------
(* Another thread. *)

(* queueInLoop, and runInLoop from another thread. *)
QueueInLoop(t) ==
    /\ loopPtr
    /\ owner # "starting"
    /\ t \notin waking
    /\ PushBack
    /\ waking' = waking \cup {t}
    /\ UNCHANGED <<pc, loopPtr, quit, calling, woken, eventfd, functors, owner, ran>>

(* Mutant: the functor is queued and the loop not woken. *)
WakeupForgotten(t) ==
    /\ t \in waking
    /\ waking' = waking \ {t}
    /\ UNCHANGED <<pc, loopPtr, quit, calling, woken, eventfd, pending, functors, owner, queued, ran>>

Wakeup(t) ==
    /\ t \in waking
    /\ waking' = waking \ {t}
    /\ eventfd' = TRUE
    /\ UNCHANGED <<pc, loopPtr, quit, calling, woken, pending, functors, owner, queued, ran>>

-----------------------------------------------------------------------------
(* The owner of the EventLoopThread. *)

(* startLoop: the thread is started ... *)
StartThread ==
    /\ owner = "new"
    /\ owner' = "starting"
    /\ pc' = "created"
    /\ UNCHANGED <<loopPtr, quit, calling, woken, eventfd, pending, functors, waking, queued, ran>>

(* ... and returns when it has set loop_. *)
StartLoop ==
    /\ owner = "starting"
    /\ loopPtr
    /\ owner' = "started"
    /\ UNCHANGED <<pc, loopPtr, quit, calling, woken, eventfd, pending, functors, waking, queued, ran>>

(* ~EventLoopThread: there is nothing to end if loop_ is NULL. *)
DtorTest ==
    /\ owner \in {"new", "started"}
    /\ owner' = IF loopPtr THEN "quitting" ELSE "gone"
    /\ UNCHANGED <<pc, loopPtr, quit, calling, woken, eventfd, pending, functors, waking, queued, ran>>

(* Otherwise loop_->quit(): quit_ = true ...  If the loop has ended since, *)
(* loop_ is NULL or the object is gone: the process crashes, or the write  *)
(* goes nowhere.                                                           *)
DtorQuit ==
    /\ owner = "quitting"
    /\ \/ pc # "ended" /\ quit' = TRUE /\ owner' = "waking"
       \/ pc = "ended" /\ owner' \in {"waking", "crashed"} /\ UNCHANGED quit
    /\ UNCHANGED <<pc, loopPtr, calling, woken, eventfd, pending, functors, waking, queued, ran>>

(* Mutant: quit() from another thread does not wake the loop. *)
DtorNoWakeup ==
    /\ owner = "waking"
    /\ owner' = "joining"
    /\ UNCHANGED <<pc, loopPtr, quit, calling, woken, eventfd, pending, functors, waking, queued, ran>>

(* ... then wakeup() ... *)
DtorWakeup ==
    /\ owner = "waking"
    /\ eventfd' = TRUE
    /\ owner' = "joining"
    /\ UNCHANGED <<pc, loopPtr, quit, calling, woken, pending, functors, waking, queued, ran>>

(* ... and thread_.join(). *)
DtorJoin ==
    /\ owner = "joining"
    /\ pc = "ended"
    /\ owner' = "gone"
    /\ UNCHANGED <<pc, loopPtr, quit, calling, woken, eventfd, pending, functors, waking, queued, ran>>

-----------------------------------------------------------------------------
(* The loop thread. *)

(* threadFunc publishes the loop ... *)
Publish ==
    /\ pc = "created"
    /\ pc' = "entering"
    /\ loopPtr' = TRUE
    /\ UNCHANGED <<quit, calling, woken, eventfd, pending, functors, waking, owner, queued, ran>>

(* ... and then enters loop(), which resets quit_. *)
EnterLoop ==
    /\ pc = "entering"
    /\ pc' = "testing"
    /\ quit' = FALSE
    /\ UNCHANGED <<loopPtr, calling, woken, eventfd, pending, functors, waking, owner, queued, ran>>

(* while (!quit_) *)
TestQuit ==
    /\ pc = "testing"
    /\ ~quit
    /\ pc' = "polling"
    /\ UNCHANGED <<loopPtr, quit, calling, woken, eventfd, pending, functors, waking, owner, queued, ran>>

(* loop() returns, loop_ = NULL and the EventLoop is destroyed. *)
LeaveLoop ==
    /\ pc = "testing"
    /\ quit
    /\ pc' = "ended"
    /\ loopPtr' = FALSE
    /\ UNCHANGED <<quit, calling, woken, eventfd, pending, functors, waking, owner, queued, ran>>

(* poll returns for the eventfd, for another channel, or after kPollTimeMs. *)
(* When more channels are ready than its list of events holds, the eventfd *)
(* may be readable and not among them.                                     *)
PollReturns ==
    /\ pc = "polling"
    /\ pc' = "handling"
    /\ woken' \in {FALSE, eventfd}
    /\ UNCHANGED <<loopPtr, quit, calling, eventfd, pending, functors, waking, owner, queued, ran>>

(* handleRead. *)
HandleRead ==
    /\ pc = "handling"
    /\ woken
    /\ woken' = FALSE
    /\ eventfd' = FALSE
    /\ UNCHANGED <<pc, loopPtr, quit, calling, pending, functors, waking, owner, queued, ran>>

(* The handler of another channel queues a functor. *)
HandlerQueues ==
    /\ pc = "handling"
    /\ PushBack
    /\ eventfd' = (eventfd \/ WakesItself)
    /\ UNCHANGED <<pc, loopPtr, quit, calling, woken, functors, waking, owner, ran>>

(* The handler of another channel calls quit(), which needs no wakeup here. *)
HandlerQuits ==
    /\ pc = "handling"
    /\ quit' = TRUE
    /\ UNCHANGED <<pc, loopPtr, calling, woken, eventfd, pending, functors, waking, owner, queued, ran>>

(* Mutant: the functors are copied, and still pending. *)
DoPendingFunctorsCopied ==
    /\ pc = "handling"
    /\ ~woken
    /\ pc' = "calling"
    /\ calling' = TRUE
    /\ functors' = pending
    /\ UNCHANGED <<loopPtr, quit, woken, eventfd, pending, waking, owner, queued, ran>>

(* doPendingFunctors: functors.swap(pendingFunctors_), under mutex_. *)
DoPendingFunctors ==
    /\ pc = "handling"
    /\ ~woken
    /\ pc' = "calling"
    /\ calling' = TRUE
    /\ functors' = pending
    /\ pending' = <<>>
    /\ UNCHANGED <<loopPtr, quit, woken, eventfd, waking, owner, queued, ran>>

(* functors[i](): it may itself queue one, or call quit(). *)
CallFunctor ==
    /\ pc = "calling"
    /\ functors # <<>>
    /\ functors' = Tail(functors)
    /\ ran' = Append(ran, Head(functors))
    /\ \/ UNCHANGED <<quit, eventfd, pending, queued>>
       \/ PushBack /\ eventfd' = (eventfd \/ WakesItself) /\ UNCHANGED quit
       \/ quit' = TRUE /\ UNCHANGED <<eventfd, pending, queued>>
    /\ UNCHANGED <<pc, loopPtr, calling, woken, waking, owner>>

FunctorsCalled ==
    /\ pc = "calling"
    /\ functors = <<>>
    /\ pc' = "testing"
    /\ calling' = FALSE
    /\ UNCHANGED <<loopPtr, quit, woken, eventfd, pending, functors, waking, owner, queued, ran>>

-----------------------------------------------------------------------------
Owner == StartThread \/ StartLoop \/ DtorTest \/ DtorQuit \/ DtorWakeup \/ DtorJoin

LoopStep == \/ Publish
            \/ EnterLoop
            \/ TestQuit
            \/ LeaveLoop
            \/ HandleRead
            \/ DoPendingFunctors
            \/ CallFunctor
            \/ FunctorsCalled

LoopNext == \/ Owner
            \/ LoopStep
            \/ PollReturns
            \/ HandlerQueues
            \/ HandlerQuits
            \/ \E t \in Threads : QueueInLoop(t) \/ Wakeup(t)

LoopSpec == LoopInit /\ [][LoopNext]_loopVars

(***************************************************************************)
(* Fairness: each thread goes on with what it is in the middle of.  poll   *)
(* is only relied on to return when the eventfd is readable, not for its   *)
(* timeout of ten seconds; nobody has to queue anything or to destroy the  *)
(* EventLoopThread.                                                        *)
(***************************************************************************)
FairLoopSpec ==
    /\ LoopSpec
    /\ WF_loopVars(LoopStep)
    /\ WF_loopVars(PollReturns /\ eventfd)
    /\ WF_loopVars(StartLoop \/ DtorQuit \/ DtorWakeup \/ DtorJoin)
    /\ \A t \in Threads : WF_loopVars(Wakeup(t))

-----------------------------------------------------------------------------
PlaceInLoop == {"none", "created", "entering", "testing", "polling", "handling", "calling", "ended"}

(* Every variable has its type. *)
LoopTypeOK == /\ pc \in PlaceInLoop
              /\ loopPtr \in BOOLEAN
              /\ quit \in BOOLEAN
              /\ calling \in BOOLEAN
              /\ woken \in BOOLEAN
              /\ eventfd \in BOOLEAN
              /\ pending \in Seq(Nat)
              /\ functors \in Seq(Nat)
              /\ waking \subseteq Threads
              /\ owner \in {"new", "starting", "started", "quitting", "waking", "joining",
                            "gone", "crashed"}
              /\ queued \in Nat
              /\ ran \in Seq(Nat)

(* The loop does not sleep in poll on a functor that has been queued, or   *)
(* when it has been told to quit, unless the eventfd is readable or the    *)
(* thread that did so is about to make it so (queueInLoop and quit write   *)
(* to the eventfd only after they have released the mutex).                *)
AwakeForWork == pc = "polling" => /\ pending # <<>> => eventfd \/ waking # {}
                                  /\ quit => eventfd \/ owner = "waking"

(* Functors run once each, in the order in which they were queued, from    *)
(* whatever threads: what has run, what doPendingFunctors has taken and    *)
(* what is pending make up what has been queued.                           *)
InOrder == ran \o functors \o pending = [i \in 1..queued |-> i]

(* A functor that has been queued runs, unless the loop is told to quit.   *)
FunctorsRun == \A n \in 1..MaxFunctors :
    queued >= n ~> \/ \E i \in DOMAIN ran : ran[i] = n
                   \/ quit
                   \/ pc = "ended"

(* Once loop() has been entered, quit() ends it. *)
QuitEndsLoop == quit /\ pc # "entering" ~> pc = "ended"

(* "Quits loop" (EventLoop.h): after quit(), from ~EventLoopThread, the    *)
(* loop ends and the join with its thread returns.                         *)
QuitIsHeeded == owner = "joining" ~> owner = "gone"
=============================================================================

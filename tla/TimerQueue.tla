----------------------------- MODULE TimerQueue -----------------------------
(***************************************************************************)
(* The TimerQueue of an EventLoop (muduo/net/TimerQueue.cc): timers added  *)
(* and cancelled in the loop thread, from inside timer callbacks and from  *)
(* other threads, and the timerfd that wakes the loop for the first one.   *)
(*                                                                         *)
(* Time is kept relative: what is left until an expiration, in ticks of    *)
(* the 100 microseconds howMuchTimeFromNow rounds up to.  A Timer is an    *)
(* object at an address, which is given away again once it is deleted.     *)
(***************************************************************************)
EXTENDS Integers, Sequences

CONSTANTS Addresses,     \* where Timers are allocated
          Delays,        \* the times to expiration timers are added with
          Intervals,     \* their intervals, 0 for a timer that does not repeat
          MaxTimers,     \* bound: timers created in one behaviour
          MaxCalls,      \* bound: functors of other threads pending at once
          MaxLate        \* bound: how late a timer can be told to be

ASSUME TimerAssumption == /\ Addresses \subseteq Nat
                          /\ Delays \subseteq Nat
                          /\ Intervals \subseteq Nat
                          /\ MaxTimers \in Nat
                          /\ MaxLate \in Nat

VARIABLES timerAt,        \* the Timer at each address
          timers,         \* timers_: the addresses in it, ordered by expiration and address
          activeTimers,   \* activeTimers_: address and sequence number
          alarm,          \* time left until the timerfd is readable, Disarmed if it never is
          timerfdReady,   \* the timerfd is among the channels poll has returned
          callingExpired, \* callingExpiredTimers_
          expired,        \* the local variable of handleRead, as a set: it has the order of timers_
          toRun,          \* the part of expired that has not been run
          canceling,      \* cancelingTimers_
          sinceNow,       \* the time since handleRead has read its now
          timerFunctors,  \* addTimerInLoop and cancelInLoop queued by other threads
          handleOf,       \* each timer's TimerId, only its address until addTimer has returned
          created,        \* s_numCreated_
          cancelled,      \* history: timers cancelled while the queue held them
          misread,        \* history: timers deleted before addTimer read their number for the TimerId
          strays          \* history: timers whose TimerId was passed to cancel and hit another one

timerVars == <<timerAt, timers, activeTimers, alarm, timerfdReady, callingExpired, expired, toRun,
               canceling, sinceNow, timerFunctors, handleOf, created, cancelled, misread, strays>>

Disarmed == -1
NoHandle == <<>>
Sequence == 1..MaxTimers

TimerInit == /\ timerAt = [a \in Addresses |-> [live |-> FALSE, seq |-> 0, left |-> 0, interval |-> 0]]
             /\ timers = {}
             /\ activeTimers = {}
             /\ alarm = Disarmed
             /\ timerfdReady = FALSE
             /\ callingExpired = FALSE
             /\ expired = {}
             /\ toRun = {}
             /\ canceling = {}
             /\ sinceNow = 0
             /\ timerFunctors = <<>>
             /\ handleOf = [s \in Sequence |-> NoHandle]
             /\ created = 0
             /\ cancelled = {}
             /\ misread = {}
             /\ strays = {}

-----------------------------------------------------------------------------
(* The order of timers_: by expiration, then by address. *)
Before(at, a, b) == \/ at[a].left < at[b].left
                    \/ at[a].left = at[b].left /\ a < b

IsFirst(at, S, a) == a \in S /\ \A b \in S \ {a} : Before(at, a, b)

(* Mutant: the time left as it is, zero and below included. *)
ExactTimeFromNow(left) == left

(* howMuchTimeFromNow: at least one tick. *)
HowMuchTimeFromNow(left) == IF left < 1 THEN 1 ELSE left

(* timerfd_settime, external: what it is set to replaces what it was set   *)
(* to, whether that has gone off or not, and zero disarms it.              *)
ResetTimerfd(left) == LET t == HowMuchTimeFromNow(left) IN IF t > 0 THEN t ELSE Disarmed

(* insert: the timer is the first one now. *)
EarliestChanged(at, S, a) == \A b \in S : at[a].left < at[b].left

(* new Timer *)
NewTimer(a, d, i) == /\ created < MaxTimers
                     /\ ~timerAt[a].live
                     /\ created' = created + 1
                     /\ timerAt' = [timerAt EXCEPT ![a] =
                                       [live |-> TRUE, seq |-> created + 1, left |-> d, interval |-> i]]

(* delete: of the Timer only its number can still be read. *)
Deleted(timer) == [live |-> FALSE, seq |-> timer.seq, left |-> 0, interval |-> 0]

(* addTimerInLoop *)
AddTimerInLoop(at, a) ==
    /\ timers' = timers \cup {a}
    /\ activeTimers' = activeTimers \cup {<<a, at[a].seq>>}
    /\ alarm' = IF EarliestChanged(at, timers, a) THEN ResetTimerfd(at[a].left) ELSE alarm

(* Mutant: whatever Timer is at the address. *)
FoundAtAddress(h) == {t \in activeTimers : t[1] = h[1]}

(* activeTimers_.find(timer) *)
Found(h) == {t \in activeTimers : t = h}

(* The timers a cancel hits: the one it finds, or finds being called. *)
Hit(h) == {t[2] : t \in Found(h)}
          \cup {timerAt[a].seq : a \in {b \in expired : h = <<b, timerAt[b].seq>>}}

(* Mutant: the timer is deleted and stays in timers_. *)
CancelKeepsTimer(h, s) ==
    /\ activeTimers' = activeTimers \ Found(h)
    /\ timers' = timers
    /\ timerAt' = [a \in Addresses |-> IF \E t \in Found(h) : t[1] = a
                                       THEN Deleted(timerAt[a]) ELSE timerAt[a]]
    /\ canceling' = IF Found(h) = {} /\ callingExpired THEN canceling \cup {h} ELSE canceling
    /\ cancelled' = cancelled \cup Hit(h)
    /\ strays' = IF Hit(h) \subseteq {s} THEN strays ELSE strays \cup {s}

(* cancelInLoop, with the TimerId h that was returned for timer s. *)
CancelInLoop(h, s) ==
    /\ activeTimers' = activeTimers \ Found(h)
    /\ timers' = timers \ {t[1] : t \in Found(h)}
    /\ timerAt' = [a \in Addresses |-> IF \E t \in Found(h) : t[1] = a
                                       THEN Deleted(timerAt[a]) ELSE timerAt[a]]
    /\ canceling' = IF Found(h) = {} /\ callingExpired THEN canceling \cup {h} ELSE canceling
    /\ cancelled' = cancelled \cup Hit(h)
    /\ strays' = IF Hit(h) \subseteq {s} THEN strays ELSE strays \cup {s}

-----------------------------------------------------------------------------
(* The loop thread. *)

(* Code of the loop's user runs: in a handler or a functor, or in the      *)
(* callback of a timer.                                                    *)
InUserCode == callingExpired => toRun # expired

(* addTimer in the loop thread: runInLoop calls addTimerInLoop at once. *)
LoopAddTimer(a, d, i) ==
    /\ InUserCode
    /\ NewTimer(a, d, i)
    /\ AddTimerInLoop(timerAt', a)
    /\ handleOf' = [handleOf EXCEPT ![created + 1] = <<a, created + 1>>]
    /\ UNCHANGED <<timerfdReady, callingExpired, expired, toRun, canceling, sinceNow,
                   timerFunctors, cancelled, misread, strays>>

(* cancel in the loop thread. *)
LoopCancel(s) ==
    /\ InUserCode
    /\ Len(handleOf[s]) = 2
    /\ CancelInLoop(handleOf[s], s)
    /\ UNCHANGED <<alarm, timerfdReady, callingExpired, expired, toRun, sinceNow, timerFunctors,
                   handleOf, created, misread>>

(* A functor another thread has queued. *)
RunTimerFunctor ==
    /\ ~callingExpired
    /\ ~timerfdReady
    /\ timerFunctors # <<>>
    /\ timerFunctors' = Tail(timerFunctors)
    /\ LET f == Head(timerFunctors)
       IN \/ /\ f.op = "add"
             /\ AddTimerInLoop(timerAt, f.handle[1])
             /\ UNCHANGED <<timerAt, canceling, cancelled, strays>>
          \/ /\ f.op = "cancel"
             /\ CancelInLoop(f.handle, f.of)
             /\ UNCHANGED alarm
    /\ UNCHANGED <<timerfdReady, callingExpired, expired, toRun, sinceNow, handleOf, created, misread>>

(* poll returns the timerfd; handlers of other channels may come before    *)
(* its own.                                                                *)
PollTimerfd ==
    /\ ~callingExpired
    /\ ~timerfdReady
    /\ alarm = 0
    /\ timerfdReady' = TRUE
    /\ UNCHANGED <<timerAt, timers, activeTimers, alarm, callingExpired, expired, toRun, canceling,
                   sinceNow, timerFunctors, handleOf, created, cancelled, misread, strays>>

(* getExpired: what is due. *)
Due == {a \in timers : timerAt[a].left <= 0}

(* handleRead: the timerfd is read, unless it has been set anew since poll *)
(* returned it, and what is due is taken out.                              *)
TimerHandleRead ==
    /\ timerfdReady
    /\ timerfdReady' = FALSE
    /\ alarm' = IF alarm = 0 THEN Disarmed ELSE alarm
    /\ expired' = Due
    /\ toRun' = Due
    /\ timers' = timers \ Due
    /\ activeTimers' = activeTimers \ {<<a, timerAt[a].seq>> : a \in Due}
    /\ callingExpired' = TRUE
    /\ canceling' = {}
    /\ sinceNow' = 0
    /\ UNCHANGED <<timerAt, timerFunctors, handleOf, created, cancelled, misread, strays>>

(* it->second->run(): what the callback does are steps of their own. *)
RunTimer ==
    /\ callingExpired
    /\ \E a \in toRun : IsFirst(timerAt, toRun, a) /\ toRun' = toRun \ {a}
    /\ UNCHANGED <<timerAt, timers, activeTimers, alarm, timerfdReady, callingExpired, expired,
                   canceling, sinceNow, timerFunctors, handleOf, created, cancelled, misread, strays>>

(* Mutant: a timer that repeats goes on although a callback cancelled it. *)
RestartsAlways(a) == timerAt[a].interval > 0

(* reset: a timer goes on when it repeats and was not cancelled. *)
Restarts(a) == timerAt[a].interval > 0 /\ <<a, timerAt[a].seq>> \notin canceling

AtLeast(n, m) == IF n < m THEN m ELSE n

(* reset, after the last callback. *)
TimerReset ==
    LET again == {a \in expired : Restarts(a)}
        at == [a \in Addresses |->
                 IF a \in again
                 THEN [timerAt[a] EXCEPT !.left = AtLeast(timerAt[a].interval - sinceNow, -MaxLate)]
                 ELSE IF a \in expired THEN Deleted(timerAt[a]) ELSE timerAt[a]]
    IN /\ callingExpired
       /\ sinceNow' = 0
       /\ toRun = {}
       /\ callingExpired' = FALSE
       /\ expired' = {}
       /\ timerAt' = at
       /\ timers' = timers \cup again
       /\ activeTimers' = activeTimers \cup {<<a, at[a].seq>> : a \in again}
       /\ \/ /\ timers' = {}
             /\ UNCHANGED alarm
          \/ \E a \in timers' : /\ IsFirst(at, timers', a)
                                /\ alarm' = ResetTimerfd(at[a].left)
       /\ UNCHANGED <<timerfdReady, toRun, canceling, timerFunctors, handleOf, created, cancelled,
                      misread, strays>>

-----------------------------------------------------------------------------
(* Another thread. *)

(* addTimer: the Timer is made and addTimerInLoop queued ... *)
AddTimer(a, d, i) ==
    /\ Len(timerFunctors) < MaxCalls
    /\ NewTimer(a, d, i)
    /\ timerFunctors' = Append(timerFunctors, [op |-> "add", handle |-> <<a, created + 1>>,
                                              of |-> created + 1])
    /\ handleOf' = [handleOf EXCEPT ![created + 1] = <<a>>]
    /\ UNCHANGED <<timers, activeTimers, alarm, timerfdReady, callingExpired, expired, toRun,
                   canceling, sinceNow, cancelled, misread, strays>>

(* No Timer has the number s any more. *)
TimerDeleted(s) == \A a \in Addresses : timerAt[a].live => timerAt[a].seq # s

(* ... and then timer->sequence() is read, from an object that may have    *)
(* run out and been deleted, and whose memory may be another Timer's, by   *)
(* then.                                                                   *)
AddTimerReturns(s) ==
    /\ Len(handleOf[s]) = 1
    /\ LET a == handleOf[s][1]
       IN \E seq \in {timerAt[a].seq} \cup (IF timerAt[a].live THEN {} ELSE {0}) :
             handleOf' = [handleOf EXCEPT ![s] = <<a, seq>>]
    /\ misread' = IF TimerDeleted(s) THEN misread \cup {s} ELSE misread
    /\ UNCHANGED <<timerAt, timers, activeTimers, alarm, timerfdReady, callingExpired, expired,
                   toRun, canceling, sinceNow, timerFunctors, created, cancelled, strays>>

(* cancel, once addTimer has returned. *)
Cancel(s) ==
    /\ Len(timerFunctors) < MaxCalls
    /\ Len(handleOf[s]) = 2
    /\ timerFunctors' = Append(timerFunctors, [op |-> "cancel", handle |-> handleOf[s], of |-> s])
    /\ UNCHANGED <<timerAt, timers, activeTimers, alarm, timerfdReady, callingExpired, expired,
                   toRun, canceling, sinceNow, handleOf, created, cancelled, misread, strays>>

(* Time passes. *)
Tick ==
    /\ timerAt' = [a \in Addresses |-> IF timerAt[a].live
                                       THEN [timerAt[a] EXCEPT !.left = AtLeast(@ - 1, -MaxLate)]
                                       ELSE timerAt[a]]
    /\ alarm' = IF alarm > 0 THEN alarm - 1 ELSE alarm
    /\ sinceNow' = IF callingExpired /\ sinceNow < MaxLate THEN sinceNow + 1 ELSE sinceNow
    /\ UNCHANGED <<timers, activeTimers, timerfdReady, callingExpired, expired, toRun, canceling,
                   timerFunctors, handleOf, created, cancelled, misread, strays>>

-----------------------------------------------------------------------------
TimerHandling == TimerHandleRead \/ RunTimer \/ TimerReset

TimerNext == \/ TimerHandling
             \/ PollTimerfd
             \/ RunTimerFunctor
             \/ Tick
             \/ \E a \in Addresses, d \in Delays, i \in Intervals :
                   LoopAddTimer(a, d, i) \/ AddTimer(a, d, i)
             \/ \E s \in Sequence : LoopCancel(s) \/ AddTimerReturns(s) \/ Cancel(s)

TimerSpec == TimerInit /\ [][TimerNext]_timerVars

(***************************************************************************)
(* Fairness: time passes, the loop thread goes on with what it does, and   *)
(* each round of the loop polls and runs the functors that are pending,    *)
(* so that neither keeps it from the other.                                *)
(***************************************************************************)
FairTimerSpec == /\ TimerSpec
                 /\ WF_timerVars(TimerHandling)
                 /\ WF_timerVars(PollTimerfd)
                 /\ WF_timerVars(RunTimerFunctor)
                 /\ WF_timerVars(Tick)

-----------------------------------------------------------------------------
(* Every variable has its type, and a Timer the queue holds is a live one  *)
(* held once: timers_ and activeTimers_ agree (the assertions of           *)
(* TimerQueue.cc) and what handleRead is calling is in neither.            *)
TimerTypeOK ==
    /\ timerAt \in [Addresses -> [live : BOOLEAN, seq : 0..MaxTimers, left : Int, interval : Nat]]
    /\ timers \subseteq Addresses
    /\ activeTimers = {<<a, timerAt[a].seq>> : a \in timers}
    /\ alarm \in {Disarmed} \cup Nat
    /\ timerfdReady \in BOOLEAN
    /\ callingExpired \in BOOLEAN
    /\ expired \subseteq Addresses
    /\ toRun \subseteq expired
    /\ expired \cap timers = {}
    /\ \A a \in timers \cup expired : timerAt[a].live
    /\ ~callingExpired => expired = {}
    /\ sinceNow \in Nat
    /\ created \in 0..MaxTimers

(* Whenever the loop may sleep the timerfd is set, and not for later than  *)
(* any timer in timers_ needs (overdue ones get the next tick), whatever   *)
(* was added or cancelled in callbacks, in handlers before handleRead or   *)
(* from other threads.                                                     *)
Armed == ~callingExpired =>
            \A a \in timers : alarm # Disarmed /\ alarm <= AtLeast(timerAt[a].left, 1)

(* cancel is exact.  A timer cancelled while the queue held it, from its   *)
(* own callback or that of another timer of the same batch too, is not     *)
(* added again.  And a cancel hits no other timer than the one its TimerId *)
(* was returned for, though that may be deleted and a new one have its     *)
(* memory, unless addTimer was called in another thread and overtaken: it  *)
(* read the number for the TimerId when the Timer was deleted already.     *)
CancelExact == /\ \A t \in activeTimers : t[2] \notin cancelled
               /\ strays \subseteq misread

(* Every timer in the queue runs or is cancelled. *)
TimersRun == \A s \in Sequence :
    (\E t \in activeTimers : t[2] = s) ~> (\A t \in activeTimers : t[2] # s)
=============================================================================

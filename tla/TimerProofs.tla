----------------------------- MODULE TimerProofs -----------------------------
(***************************************************************************)
(* The timerfd of a TimerQueue is always set early enough, and timers_ and *)
(* activeTimers_ agree, and cancel is exact, for any number of timers,     *)
(* addresses and threads.                                                  *)
(***************************************************************************)
EXTENDS TimerQueue, SequenceTheorems, TLAPS

(* What a TimerId can be, and the functors that are queued with one. *)
Handles == {<<>>} \cup {<<a>> : a \in Addresses} \cup (Addresses \X (0..MaxTimers))
Functors == [op : {"add", "cancel"}, handle : Handles, of : Sequence]

IsAdd(i) == i \in DOMAIN timerFunctors /\ timerFunctors[i].op = "add"
AddressOf(i) == timerFunctors[i].handle[1]

(* A Timer whose addTimerInLoop is pending is a live one that the queue    *)
(* does not hold yet, and has one such functor.                            *)
PendingAdds ==
    /\ timerFunctors \in Seq(Functors)
    /\ handleOf \in [Sequence -> Handles]
    /\ \A i \in DOMAIN timerFunctors : IsAdd(i) =>
          /\ AddressOf(i) \in Addresses
          /\ AddressOf(i) \notin timers \cup expired
          /\ timerAt[AddressOf(i)].live
    /\ \A i, j \in DOMAIN timerFunctors : IsAdd(i) /\ IsAdd(j) /\ i # j => AddressOf(i) # AddressOf(j)

(* The inductive invariant. *)
TimerInv == TimerTypeOK /\ PendingAdds /\ Armed

Timer == [live : BOOLEAN, seq : 0..MaxTimers, left : Int, interval : Nat]

-----------------------------------------------------------------------------
(* howMuchTimeFromNow is at least one tick, so the timerfd is armed. *)
LEMMA ResetType ==
    ASSUME NEW n \in Int
    PROVE  /\ ResetTimerfd(n) \in Nat
           /\ ResetTimerfd(n) = AtLeast(n, 1)
           /\ ResetTimerfd(n) # Disarmed
BY DEF ResetTimerfd, HowMuchTimeFromNow, AtLeast, Disarmed

(* The queue begins empty. *)
LEMMA TimerInvInit == TimerInit => TimerInv
<1> SUFFICES ASSUME TimerInit PROVE TimerInv
    OBVIOUS
<1>1. TimerTypeOK
    <2>1. timerAt \in [Addresses -> [live : BOOLEAN, seq : 0..MaxTimers, left : Int, interval : Nat]]
        BY TimerAssumption DEF TimerInit
    <2>2. activeTimers = {<<a, timerAt[a].seq>> : a \in timers}
        BY DEF TimerInit
    <2>3. timers = {} /\ expired = {} /\ toRun = {} /\ callingExpired = FALSE /\ timerfdReady = FALSE
        BY DEF TimerInit
    <2>4. alarm = Disarmed /\ sinceNow \in Nat /\ created \in 0..MaxTimers
        BY TimerAssumption DEF TimerInit
    <2> QED BY <2>1, <2>2, <2>3, <2>4 DEF TimerTypeOK
<1>2. PendingAdds
    <2>1. timerFunctors = <<>> /\ DOMAIN timerFunctors = {}
        BY DEF TimerInit
    <2>2. handleOf \in [Sequence -> Handles]
        BY DEF TimerInit, Handles, NoHandle
    <2>3. <<>> \in Seq(Functors)
        OBVIOUS
    <2> QED BY <2>1, <2>2, <2>3 DEF PendingAdds
<1>3. Armed
    BY DEF TimerInit, Armed
<1> QED BY <1>1, <1>2, <1>3 DEF TimerInv

-----------------------------------------------------------------------------
(* Steps that change neither the timers nor what is pending. *)
LEMMA Idle ==
    ASSUME TimerInv,
           UNCHANGED <<timerAt, timers, activeTimers, alarm, callingExpired, expired, sinceNow,
                       timerFunctors, handleOf, created>>,
           timerfdReady' \in BOOLEAN, toRun' \subseteq expired
    PROVE  TimerInv'
BY DEF TimerInv, TimerTypeOK, PendingAdds, IsAdd, AddressOf, Armed

(* new Timer: the queue does not hold the address, nor does a functor. *)
LEMMA Fresh ==
    ASSUME TimerInv, NEW a \in Addresses, NEW d \in Delays, NEW i \in Intervals, NewTimer(a, d, i)
    PROVE  /\ a \notin timers /\ a \notin expired
           /\ \A k \in DOMAIN timerFunctors : IsAdd(k) => AddressOf(k) # a
           /\ timerAt' \in [Addresses -> Timer]
           /\ \A b \in Addresses \ {a} : timerAt'[b] = timerAt[b]
           /\ timerAt'[a].live /\ timerAt'[a].left \in Int /\ timerAt'[a].seq = created + 1
           /\ created' \in 0..MaxTimers /\ created + 1 \in Sequence
           /\ <<a, created + 1>> \in Handles
           /\ <<a>> \in Handles
<1>1. /\ timerAt \in [Addresses -> Timer] /\ created \in 0..MaxTimers /\ created < MaxTimers
      /\ ~timerAt[a].live /\ d \in Int /\ i \in Nat /\ MaxTimers \in Nat
      /\ timerAt' = [timerAt EXCEPT ![a] =
                       [live |-> TRUE, seq |-> created + 1, left |-> d, interval |-> i]]
      /\ created' = created + 1
    BY TimerAssumption DEF TimerInv, TimerTypeOK, NewTimer, Timer
<1>2. a \notin timers /\ a \notin expired
    BY <1>1 DEF TimerInv, TimerTypeOK
<1>3. \A k \in DOMAIN timerFunctors : IsAdd(k) => AddressOf(k) # a
    BY <1>1 DEF TimerInv, PendingAdds
<1>4. created + 1 \in 0..MaxTimers /\ created + 1 \in Sequence
    BY <1>1 DEF Sequence
<1>5. [live |-> TRUE, seq |-> created + 1, left |-> d, interval |-> i] \in Timer
    BY <1>1, <1>4 DEF Timer
<1>6. /\ timerAt' \in [Addresses -> Timer]
      /\ \A b \in Addresses \ {a} : timerAt'[b] = timerAt[b]
      /\ timerAt'[a].live /\ timerAt'[a].left \in Int /\ timerAt'[a].seq = created + 1
    BY <1>1, <1>5
<1>7. <<a, created + 1>> \in Handles /\ <<a>> \in Handles
    BY <1>4 DEF Handles
<1> QED BY <1>1, <1>2, <1>3, <1>4, <1>6, <1>7

(* addTimerInLoop, of a live Timer that the queue does not hold, while     *)
(* those it holds stay as they are.                                        *)
LEMMA Added ==
    ASSUME TimerInv, NEW a \in Addresses, a \notin timers, a \notin expired,
           timerAt' \in [Addresses -> Timer], timerAt'[a].live,
           \A b \in Addresses \ {a} : timerAt'[b] = timerAt[b],
           AddTimerInLoop(timerAt', a),
           UNCHANGED <<callingExpired, expired, sinceNow, timerfdReady, toRun>>,
           created' \in 0..MaxTimers
    PROVE  TimerTypeOK' /\ Armed'
<1>1. /\ timers \subseteq Addresses /\ expired \subseteq Addresses
      /\ activeTimers = {<<b, timerAt[b].seq>> : b \in timers}
      /\ timerAt \in [Addresses -> Timer]
      /\ alarm \in {Disarmed} \cup Nat
    BY DEF TimerInv, TimerTypeOK, Timer
<1>2. /\ timers' = timers \cup {a}
      /\ activeTimers' = activeTimers \cup {<<a, timerAt'[a].seq>>}
      /\ alarm' = IF EarliestChanged(timerAt', timers, a)
                  THEN ResetTimerfd(timerAt'[a].left) ELSE alarm
    BY DEF AddTimerInLoop
<1>3. \A b \in Addresses : timerAt'[b].left \in Int
    BY DEF Timer
<1>4. alarm' \in {Disarmed} \cup Nat
    BY <1>1, <1>2, <1>3, ResetType
<1>5. activeTimers' = {<<b, timerAt'[b].seq>> : b \in timers'}
    BY <1>1, <1>2
<1>6. TimerTypeOK'
    BY <1>1, <1>2, <1>4, <1>5 DEF TimerInv, TimerTypeOK, Timer
<1>7. Armed'
    <2> SUFFICES ASSUME ~callingExpired, NEW b \in timers'
                 PROVE  alarm' # Disarmed /\ alarm' <= AtLeast(timerAt'[b].left, 1)
        BY DEF Armed
    <2>1. \A x \in timers : /\ timerAt'[x] = timerAt[x]
                            /\ alarm # Disarmed /\ alarm <= AtLeast(timerAt[x].left, 1)
        BY <1>1 DEF TimerInv, Armed
    <2>2. timerAt'[a].left \in Int /\ timerAt'[b].left \in Int
        BY <1>1, <1>2, <1>3
    <2>3. CASE EarliestChanged(timerAt', timers, a)
        <3>1. alarm' = AtLeast(timerAt'[a].left, 1) /\ alarm' # Disarmed
            BY <2>2, <2>3, <1>2, ResetType
        <3>2. b = a \/ timerAt'[a].left < timerAt'[b].left
            BY <2>3, <1>2 DEF EarliestChanged
        <3> QED BY <3>1, <3>2, <2>2 DEF AtLeast
    <2>4. CASE ~EarliestChanged(timerAt', timers, a)
        <3>1. alarm' = alarm
            BY <2>4, <1>2
        <3>2. PICK x \in timers : ~(timerAt'[a].left < timerAt'[x].left)
            BY <2>4 DEF EarliestChanged
        <3>3. alarm # Disarmed /\ alarm <= AtLeast(timerAt'[x].left, 1) /\ alarm \in Int
            BY <2>1, <1>1 DEF Disarmed
        <3>4. timerAt'[x].left \in Int
            BY <1>1, <1>3
        <3>5. alarm <= AtLeast(timerAt'[a].left, 1)
            BY <3>2, <3>3, <3>4, <2>2 DEF AtLeast
        <3>6. b \in timers => alarm <= AtLeast(timerAt'[b].left, 1)
            BY <2>1
        <3> QED BY <3>1, <3>3, <3>5, <3>6, <1>2
    <2> QED BY <2>3, <2>4
<1> QED BY <1>6, <1>7

(* addTimer in the loop thread. *)
LEMMA LoopAddTimerStep ==
    ASSUME TimerInv, NEW a \in Addresses, NEW d \in Delays, NEW i \in Intervals,
           LoopAddTimer(a, d, i)
    PROVE  TimerInv'
<1>1. NewTimer(a, d, i)
    BY DEF LoopAddTimer
<1>2. /\ a \notin timers /\ a \notin expired
      /\ \A k \in DOMAIN timerFunctors : IsAdd(k) => AddressOf(k) # a
      /\ timerAt' \in [Addresses -> Timer]
      /\ \A b \in Addresses \ {a} : timerAt'[b] = timerAt[b]
      /\ timerAt'[a].live /\ created' \in 0..MaxTimers /\ created + 1 \in Sequence
      /\ <<a, created + 1>> \in Handles
    BY <1>1, Fresh
<1>3. TimerTypeOK' /\ Armed'
    BY <1>2, Added DEF LoopAddTimer
<1>4. PendingAdds'
    <2>1. /\ timerFunctors' = timerFunctors /\ expired' = expired /\ timers' = timers \cup {a}
          /\ handleOf' = [handleOf EXCEPT ![created + 1] = <<a, created + 1>>]
        BY DEF LoopAddTimer, AddTimerInLoop
    <2>2. handleOf' \in [Sequence -> Handles]
        BY <2>1, <1>2 DEF TimerInv, PendingAdds
    <2>3. PendingAdds
        BY DEF TimerInv
    <2> HIDE DEF Handles, Functors
    <2> QED BY <2>1, <2>2, <2>3, <1>2 DEF PendingAdds, IsAdd, AddressOf
<1> QED BY <1>3, <1>4 DEF TimerInv

(* cancelInLoop, with any TimerId. *)
LEMMA Cancelled ==
    ASSUME TimerInv, NEW h, NEW s, CancelInLoop(h, s),
           UNCHANGED <<alarm, callingExpired, expired, sinceNow, timerfdReady, toRun, created>>
    PROVE  /\ TimerTypeOK' /\ Armed'
           /\ timers' \subseteq timers
           /\ \A b \in Addresses : b \notin timers => timerAt'[b] = timerAt[b]
<1> DEFINE gone == {t[1] : t \in Found(h)}
<1>1. /\ timers \subseteq Addresses /\ expired \subseteq Addresses
      /\ activeTimers = {<<b, timerAt[b].seq>> : b \in timers}
      /\ timerAt \in [Addresses -> Timer] /\ timers \cap expired = {}
    BY DEF TimerInv, TimerTypeOK, Timer
<1>2. gone \subseteq timers /\ Found(h) = {<<b, timerAt[b].seq>> : b \in gone}
    BY <1>1 DEF Found
<1>3. /\ timers' = timers \ gone
      /\ timerAt' = [a \in Addresses |-> IF a \in gone THEN Deleted(timerAt[a]) ELSE timerAt[a]]
      /\ activeTimers' = activeTimers \ Found(h)
    BY DEF CancelInLoop
<1> HIDE DEF gone
<1>4. timerAt' \in [Addresses -> Timer]
    <2>1. ASSUME NEW a \in Addresses PROVE Deleted(timerAt[a]) \in Timer
        BY <1>1 DEF Deleted, Timer
    <2> QED BY <2>1, <1>1, <1>3
<1>5. \A b \in Addresses \ gone : timerAt'[b] = timerAt[b]
    BY <1>3
<1>6. activeTimers' = {<<b, timerAt'[b].seq>> : b \in timers'}
    BY <1>1, <1>2, <1>3, <1>5
<1>7. TimerTypeOK'
    BY <1>1, <1>2, <1>3, <1>4, <1>5, <1>6 DEF TimerInv, TimerTypeOK, Timer
<1>8. Armed'
    BY <1>1, <1>3, <1>5 DEF TimerInv, Armed
<1> QED BY <1>1, <1>2, <1>3, <1>5, <1>7, <1>8

(* cancel in the loop thread. *)
LEMMA LoopCancelStep ==
    ASSUME TimerInv, NEW s \in Sequence, LoopCancel(s)
    PROVE  TimerInv'
<1>1. /\ TimerTypeOK' /\ Armed' /\ timers' \subseteq timers
      /\ \A b \in Addresses : b \notin timers => timerAt'[b] = timerAt[b]
    BY Cancelled DEF LoopCancel
<1>2. UNCHANGED <<timerFunctors, handleOf, expired>>
    BY DEF LoopCancel
<1>3. PendingAdds'
    BY <1>1, <1>2 DEF TimerInv, PendingAdds, IsAdd, AddressOf
<1> QED BY <1>1, <1>3 DEF TimerInv

(* A functor another thread has queued. *)
LEMMA RunTimerFunctorStep ==
    ASSUME TimerInv, RunTimerFunctor
    PROVE  TimerInv'
<1> DEFINE f == Head(timerFunctors)
           a == f.handle[1]
<1>0. /\ timerFunctors \in Seq(Functors) /\ timerFunctors # <<>>
      /\ timerFunctors' = Tail(timerFunctors) /\ f = timerFunctors[1]
      /\ 1 \in DOMAIN timerFunctors
      /\ UNCHANGED <<timerfdReady, callingExpired, expired, toRun, sinceNow, handleOf, created>>
    BY DEF TimerInv, PendingAdds, RunTimerFunctor
<1>1. /\ timerFunctors' \in Seq(Functors)
      /\ \A i \in DOMAIN timerFunctors' :
            i + 1 \in DOMAIN timerFunctors /\ i + 1 # 1 /\ timerFunctors'[i] = timerFunctors[i + 1]
      /\ \A i, j \in DOMAIN timerFunctors' : i # j => i + 1 # j + 1
    BY <1>0
<1>2. CASE f.op = "add" /\ AddTimerInLoop(timerAt, a) /\ UNCHANGED timerAt
    <2>1. /\ a \in Addresses /\ a \notin timers /\ a \notin expired /\ timerAt[a].live
          /\ \A i \in DOMAIN timerFunctors : IsAdd(i) /\ i # 1 => AddressOf(i) # a
        BY <1>0, <1>2 DEF TimerInv, PendingAdds, IsAdd, AddressOf
    <2>2. timerAt' \in [Addresses -> Timer] /\ timerAt'[a].live
        BY <2>1, <1>2 DEF TimerInv, TimerTypeOK, Timer
    <2>3. AddTimerInLoop(timerAt', a) /\ timers' = timers \cup {a} /\ created' \in 0..MaxTimers
        BY <1>0, <1>2 DEF AddTimerInLoop, TimerInv, TimerTypeOK
    <2> HIDE DEF a
    <2>4. TimerTypeOK' /\ Armed'
        BY <2>1, <2>2, <2>3, <1>0, <1>2, Added
    <2>5. PendingAdds'
        BY <2>1, <2>3, <1>0, <1>1, <1>2 DEF TimerInv, PendingAdds, IsAdd, AddressOf
    <2> QED BY <2>4, <2>5 DEF TimerInv
<1>3. CASE CancelInLoop(f.handle, f.of) /\ UNCHANGED alarm
    <2>1. /\ TimerTypeOK' /\ Armed' /\ timers' \subseteq timers
          /\ \A b \in Addresses : b \notin timers => timerAt'[b] = timerAt[b]
        BY <1>0, <1>3, Cancelled
    <2>2. PendingAdds'
        BY <2>1, <1>0, <1>1 DEF TimerInv, PendingAdds, IsAdd, AddressOf
    <2> QED BY <2>1, <2>2 DEF TimerInv
<1> QED BY <1>2, <1>3 DEF RunTimerFunctor

(* addTimer in another thread. *)
LEMMA AddTimerStep ==
    ASSUME TimerInv, NEW a \in Addresses, NEW d \in Delays, NEW i \in Intervals, AddTimer(a, d, i)
    PROVE  TimerInv'
<1> DEFINE f == [op |-> "add", handle |-> <<a, created + 1>>, of |-> created + 1]
<1>1. NewTimer(a, d, i)
    BY DEF AddTimer
<1>2. /\ a \notin timers /\ a \notin expired
      /\ \A k \in DOMAIN timerFunctors : IsAdd(k) => AddressOf(k) # a
      /\ timerAt' \in [Addresses -> Timer]
      /\ \A b \in Addresses \ {a} : timerAt'[b] = timerAt[b]
      /\ timerAt'[a].live /\ created' \in 0..MaxTimers /\ created + 1 \in Sequence
      /\ <<a, created + 1>> \in Handles /\ <<a>> \in Handles
    BY <1>1, Fresh
<1>3. /\ timerFunctors' = Append(timerFunctors, f)
      /\ handleOf' = [handleOf EXCEPT ![created + 1] = <<a>>]
      /\ UNCHANGED <<timers, activeTimers, alarm, timerfdReady, callingExpired, expired, toRun,
                     sinceNow>>
    BY DEF AddTimer
<1>4. TimerTypeOK'
    <2>1. timers \subseteq Addresses /\ expired \subseteq Addresses
        BY DEF TimerInv, TimerTypeOK
    <2>2. \A b \in timers \cup expired : timerAt'[b] = timerAt[b]
        BY <2>1, <1>2
    <2>3. activeTimers' = {<<b, timerAt'[b].seq>> : b \in timers'}
        BY <2>2, <1>3 DEF TimerInv, TimerTypeOK
    <2>4. \A b \in timers' \cup expired' : timerAt'[b].live
        BY <2>2, <1>3 DEF TimerInv, TimerTypeOK
    <2>5. timerAt' \in [Addresses -> [live : BOOLEAN, seq : 0..MaxTimers, left : Int, interval : Nat]]
        BY <1>2 DEF Timer
    <2>6. /\ timers \subseteq Addresses /\ alarm \in {Disarmed} \cup Nat
          /\ timerfdReady \in BOOLEAN /\ callingExpired \in BOOLEAN
          /\ expired \subseteq Addresses /\ toRun \subseteq expired
          /\ expired \cap timers = {} /\ (~callingExpired => expired = {}) /\ sinceNow \in Nat
        BY DEF TimerInv, TimerTypeOK
    <2> QED BY <2>3, <2>4, <2>5, <2>6, <1>2, <1>3 DEF TimerTypeOK
<1>5. Armed'
    BY <1>2, <1>3 DEF TimerInv, TimerTypeOK, Armed
<1>6. PendingAdds'
    <2>1. f \in Functors /\ f.op = "add" /\ f.handle[1] = a
        BY <1>2 DEF Functors
    <2> HIDE DEF f
    <2>2. /\ timerFunctors' \in Seq(Functors)
          /\ \A k \in DOMAIN timerFunctors' :
                \/ k \in DOMAIN timerFunctors /\ timerFunctors'[k] = timerFunctors[k]
                \/ k = Len(timerFunctors) + 1 /\ timerFunctors'[k] = f
        BY <2>1, <1>3 DEF TimerInv, PendingAdds
    <2>3. handleOf' \in [Sequence -> Handles]
        BY <1>2, <1>3 DEF TimerInv, PendingAdds
    <2>4. ASSUME NEW k \in DOMAIN timerFunctors', IsAdd(k)'
          PROVE  \/ k \in DOMAIN timerFunctors /\ IsAdd(k) /\ AddressOf(k)' = AddressOf(k)
                 \/ k = Len(timerFunctors) + 1 /\ AddressOf(k)' = a
        BY <2>1, <2>2, <2>4 DEF IsAdd, AddressOf
    <2>5. ASSUME NEW k \in DOMAIN timerFunctors', IsAdd(k)'
          PROVE  /\ AddressOf(k)' \in Addresses
                 /\ AddressOf(k)' \notin timers' \cup expired'
                 /\ timerAt'[AddressOf(k)'].live
        BY <2>4, <2>5, <1>2, <1>3 DEF TimerInv, PendingAdds
    <2>6. ASSUME NEW k \in DOMAIN timerFunctors', NEW l \in DOMAIN timerFunctors',
                 IsAdd(k)', IsAdd(l)', k # l
          PROVE  AddressOf(k)' # AddressOf(l)'
        <3>1. /\ \/ k \in DOMAIN timerFunctors /\ IsAdd(k) /\ AddressOf(k)' = AddressOf(k)
                 \/ k = Len(timerFunctors) + 1 /\ AddressOf(k)' = a
              /\ \/ l \in DOMAIN timerFunctors /\ IsAdd(l) /\ AddressOf(l)' = AddressOf(l)
                 \/ l = Len(timerFunctors) + 1 /\ AddressOf(l)' = a
            BY <2>4, <2>6
        <3> QED BY <3>1, <2>6, <1>2 DEF TimerInv, PendingAdds
    <2> QED BY <2>2, <2>3, <2>5, <2>6 DEF PendingAdds
<1> QED BY <1>4, <1>5, <1>6 DEF TimerInv

(* addTimer returns in another thread. *)
LEMMA AddTimerReturnsStep ==
    ASSUME TimerInv, NEW s \in Sequence, AddTimerReturns(s)
    PROVE  TimerInv'
<1>1. handleOf' \in [Sequence -> Handles]
    <2> DEFINE a == handleOf[s][1]
    <2> PICK seq \in {timerAt[a].seq} \cup (IF timerAt[a].live THEN {} ELSE {0}) :
            handleOf' = [handleOf EXCEPT ![s] = <<a, seq>>]
        BY DEF AddTimerReturns
    <2>1. handleOf[s] \in Handles /\ Len(handleOf[s]) = 1
        BY DEF AddTimerReturns, TimerInv, PendingAdds
    <2>2. a \in Addresses
        BY <2>1 DEF Handles
    <2>3. timerAt[a].seq \in 0..MaxTimers /\ 0 \in 0..MaxTimers
        BY <2>2, TimerAssumption DEF TimerInv, TimerTypeOK
    <2>4. seq \in 0..MaxTimers
        BY <2>3
    <2>5. <<a, seq>> \in Handles
        BY <2>2, <2>4 DEF Handles
    <2> QED BY <2>5 DEF TimerInv, PendingAdds
<1>2. UNCHANGED <<timerAt, timers, activeTimers, alarm, timerfdReady, callingExpired, expired,
                  toRun, sinceNow, timerFunctors, created>>
    BY DEF AddTimerReturns
<1> QED BY <1>1, <1>2 DEF TimerInv, TimerTypeOK, PendingAdds, IsAdd, AddressOf, Armed

(* cancel in another thread. *)
LEMMA CancelStep ==
    ASSUME TimerInv, NEW s \in Sequence, Cancel(s)
    PROVE  TimerInv'
<1> DEFINE f == [op |-> "cancel", handle |-> handleOf[s], of |-> s]
<1>1. f \in Functors /\ f.op # "add"
    BY DEF Functors, TimerInv, PendingAdds
<1>2. /\ timerFunctors' = Append(timerFunctors, f)
      /\ UNCHANGED <<timerAt, timers, activeTimers, alarm, timerfdReady, callingExpired, expired,
                     toRun, sinceNow, handleOf, created>>
    BY DEF Cancel
<1> HIDE DEF f
<1>3. /\ timerFunctors' \in Seq(Functors)
      /\ \A k \in DOMAIN timerFunctors' : timerFunctors'[k].op = "add" =>
            k \in DOMAIN timerFunctors /\ timerFunctors'[k] = timerFunctors[k]
    BY <1>1, <1>2 DEF TimerInv, PendingAdds
<1>4. PendingAdds'
    BY <1>2, <1>3 DEF TimerInv, PendingAdds, IsAdd, AddressOf
<1> QED BY <1>2, <1>4 DEF TimerInv, TimerTypeOK, Armed

(* handleRead takes out what is due. *)
LEMMA TimerHandleReadStep ==
    ASSUME TimerInv, TimerHandleRead
    PROVE  TimerInv'
<1>1. Due \subseteq timers /\ timers \subseteq Addresses
    BY DEF Due, TimerInv, TimerTypeOK
<1>2. /\ expired' = Due /\ toRun' = Due /\ timers' = timers \ Due /\ callingExpired' = TRUE
      /\ activeTimers' = activeTimers \ {<<a, timerAt[a].seq>> : a \in Due}
      /\ alarm' = IF alarm = 0 THEN Disarmed ELSE alarm
      /\ timerfdReady' = FALSE /\ sinceNow' = 0
      /\ UNCHANGED <<timerAt, timerFunctors, handleOf, created>>
    BY DEF TimerHandleRead
<1>3. activeTimers' = {<<a, timerAt[a].seq>> : a \in timers'}
    BY <1>1, <1>2 DEF TimerInv, TimerTypeOK
<1>4. TimerTypeOK'
    BY <1>1, <1>2, <1>3 DEF TimerInv, TimerTypeOK
<1>5. PendingAdds'
    BY <1>1, <1>2 DEF TimerInv, PendingAdds, IsAdd, AddressOf
<1>6. Armed'
    BY <1>2 DEF Armed
<1> QED BY <1>4, <1>5, <1>6 DEF TimerInv

(* reset puts back what repeats and sets the timerfd for the first. *)
LEMMA TimerResetStep ==
    ASSUME TimerInv, TimerReset
    PROVE  TimerInv'
<1> DEFINE again == {a \in expired : Restarts(a)}
           at == [a \in Addresses |->
                    IF a \in again
                    THEN [timerAt[a] EXCEPT !.left = AtLeast(timerAt[a].interval - sinceNow, -MaxLate)]
                    ELSE IF a \in expired THEN Deleted(timerAt[a]) ELSE timerAt[a]]
<1>1. /\ timerAt \in [Addresses -> Timer] /\ expired \subseteq Addresses
      /\ timers \subseteq Addresses /\ expired \cap timers = {} /\ sinceNow \in Nat
      /\ activeTimers = {<<b, timerAt[b].seq>> : b \in timers}
      /\ alarm \in {Disarmed} \cup Nat
      /\ \A a \in timers \cup expired : timerAt[a].live
      /\ again \subseteq expired
    BY DEF TimerInv, TimerTypeOK, Timer
<1>2. /\ expired' = {} /\ timerAt' = at /\ timers' = timers \cup again
      /\ activeTimers' = activeTimers \cup {<<a, at[a].seq>> : a \in again}
      /\ \/ timers' = {} /\ alarm' = alarm
         \/ \E a \in timers' : IsFirst(at, timers', a) /\ alarm' = ResetTimerfd(at[a].left)
      /\ sinceNow' = 0 /\ toRun' = {} /\ callingExpired' = FALSE
      /\ UNCHANGED <<timerfdReady, timerFunctors, handleOf, created>>
    BY DEF TimerReset
<1> HIDE DEF again
<1>3. \A a \in Addresses :
         /\ a \in again => at[a].live = timerAt[a].live /\ at[a].seq = timerAt[a].seq
         /\ a \notin expired => at[a] = timerAt[a]
         /\ at[a] \in Timer
    <2> TAKE a \in Addresses
    <2> DEFINE n == AtLeast(timerAt[a].interval - sinceNow, -MaxLate)
    <2>1. timerAt[a] \in Timer /\ n \in Int
        BY <1>1, TimerAssumption DEF Timer, AtLeast
    <2>2. Deleted(timerAt[a]) \in Timer
        BY <2>1 DEF Deleted, Timer
    <2>3. /\ at[a] = IF a \in again THEN [timerAt[a] EXCEPT !.left = n]
                     ELSE IF a \in expired THEN Deleted(timerAt[a]) ELSE timerAt[a]
        OBVIOUS
    <2> HIDE DEF n, at
    <2>4. /\ [timerAt[a] EXCEPT !.left = n] \in Timer
          /\ [timerAt[a] EXCEPT !.left = n].live = timerAt[a].live
          /\ [timerAt[a] EXCEPT !.left = n].seq = timerAt[a].seq
        BY <2>1 DEF Timer
    <2> QED BY <2>1, <2>2, <2>3, <2>4, <1>1
<1>4. at \in [Addresses -> Timer]
    BY <1>3
<1> HIDE DEF at
<1>5. activeTimers' = {<<b, at[b].seq>> : b \in timers'}
    BY <1>1, <1>2, <1>3
<1>6. alarm' \in {Disarmed} \cup Nat
    BY <1>1, <1>2, <1>4, ResetType DEF Timer
<1>7. TimerTypeOK'
    <2>1. timers' \subseteq Addresses
        BY <1>1, <1>2
    <2>2. \A a \in timers' : at[a].live
        BY <1>1, <1>2, <1>3
    <2>3. timerAt' \in [Addresses -> [live : BOOLEAN, seq : 0..MaxTimers, left : Int, interval : Nat]]
        BY <1>2, <1>4 DEF Timer
    <2>4. timerfdReady \in BOOLEAN /\ created \in 0..MaxTimers
        BY DEF TimerInv, TimerTypeOK
    <2> QED BY <2>1, <2>2, <2>3, <2>4, <1>2, <1>5, <1>6, ZenonT(30) DEF TimerTypeOK
<1>8. PendingAdds'
    BY <1>1, <1>2, <1>3 DEF TimerInv, PendingAdds, IsAdd, AddressOf
<1>9. Armed'
    <2> SUFFICES ASSUME NEW b \in timers'
                 PROVE  alarm' # Disarmed /\ alarm' <= AtLeast(at[b].left, 1)
        BY <1>2 DEF Armed
    <2>1. PICK a \in timers' : IsFirst(at, timers', a) /\ alarm' = ResetTimerfd(at[a].left)
        BY <1>2
    <2>2. at[a].left \in Int /\ at[b].left \in Int
        BY <1>1, <1>2, <1>4 DEF Timer
    <2>3. at[a].left <= at[b].left
        BY <2>1, <2>2 DEF IsFirst, Before
    <2> QED BY <2>1, <2>2, <2>3, ResetType DEF AtLeast
<1> QED BY <1>7, <1>8, <1>9 DEF TimerInv

(* Time passes for the timers and for the timerfd alike. *)
LEMMA TickStep ==
    ASSUME TimerInv, Tick
    PROVE  TimerInv'
<1>1. /\ timerAt \in [Addresses -> Timer] /\ timers \subseteq Addresses
      /\ alarm \in {Disarmed} \cup Nat /\ expired \subseteq Addresses
    BY DEF TimerInv, TimerTypeOK, Timer
<1>2. \A a \in Addresses :
         /\ timerAt'[a] \in Timer
         /\ timerAt'[a].live = timerAt[a].live /\ timerAt'[a].seq = timerAt[a].seq
         /\ timerAt'[a].left >= timerAt[a].left - 1
    <2> TAKE a \in Addresses
    <2>1. timerAt[a] \in Timer /\ AtLeast(timerAt[a].left - 1, -MaxLate) \in Int
          /\ AtLeast(timerAt[a].left - 1, -MaxLate) >= timerAt[a].left - 1
        BY <1>1, TimerAssumption DEF Timer, AtLeast
    <2>2. timerAt'[a] = IF timerAt[a].live
                        THEN [timerAt[a] EXCEPT !.left = AtLeast(timerAt[a].left - 1, -MaxLate)]
                        ELSE timerAt[a]
        BY DEF Tick
    <2> QED BY <2>1, <2>2 DEF Timer
<1>3. timerAt' \in [Addresses -> Timer]
    BY <1>2 DEF Tick
<1>4. /\ alarm' = IF alarm > 0 THEN alarm - 1 ELSE alarm
      /\ sinceNow' \in Nat
      /\ UNCHANGED <<timers, activeTimers, timerfdReady, callingExpired, expired, toRun,
                     timerFunctors, handleOf, created>>
    BY DEF Tick, TimerInv, TimerTypeOK
<1>5. alarm' \in {Disarmed} \cup Nat
    BY <1>1, <1>4 DEF Disarmed
<1>6. activeTimers' = {<<b, timerAt'[b].seq>> : b \in timers'}
    BY <1>1, <1>2, <1>4 DEF TimerInv, TimerTypeOK
<1>7. TimerTypeOK'
    BY <1>1, <1>2, <1>3, <1>4, <1>5, <1>6 DEF TimerInv, TimerTypeOK, Timer
<1>8. PendingAdds'
    BY <1>1, <1>2, <1>4 DEF TimerInv, PendingAdds, IsAdd, AddressOf
<1>9. Armed'
    <2> SUFFICES ASSUME ~callingExpired, NEW a \in timers
                 PROVE  alarm' # Disarmed /\ alarm' <= AtLeast(timerAt'[a].left, 1)
        BY <1>4 DEF Armed
    <2>1. alarm # Disarmed /\ alarm <= AtLeast(timerAt[a].left, 1)
        BY DEF TimerInv, Armed
    <2>2. timerAt[a].left \in Int /\ timerAt'[a].left \in Int
          /\ timerAt'[a].left >= timerAt[a].left - 1
        BY <1>1, <1>2 DEF Timer
    <2> QED BY <2>1, <2>2, <1>1, <1>4 DEF AtLeast, Disarmed
<1> QED BY <1>7, <1>8, <1>9 DEF TimerInv

-----------------------------------------------------------------------------
(* Every step keeps the invariant. *)
LEMMA TimerInvStep == TimerInv /\ [TimerNext]_timerVars => TimerInv'
<1> SUFFICES ASSUME TimerInv, [TimerNext]_timerVars PROVE TimerInv'
    OBVIOUS
<1>1. CASE RunTimer
    BY <1>1, Idle DEF RunTimer, TimerInv, TimerTypeOK
<1>2. CASE PollTimerfd
    BY <1>2, Idle DEF PollTimerfd, TimerInv, TimerTypeOK
<1>3. CASE UNCHANGED timerVars
    BY <1>3, Idle DEF timerVars, TimerInv, TimerTypeOK
<1> QED BY <1>1, <1>2, <1>3, TimerHandleReadStep, TimerResetStep, RunTimerFunctorStep, TickStep,
           LoopAddTimerStep, AddTimerStep, LoopCancelStep, AddTimerReturnsStep, CancelStep
        DEF TimerNext, TimerHandling

(* timers_ and activeTimers_ hold the same live Timers, each once, and not *)
(* those whose callbacks handleRead is calling: the assertions of          *)
(* TimerQueue.cc hold.                                                     *)
THEOREM TimerSetsAgree == TimerSpec => []TimerTypeOK
<1>1. TimerInv => TimerTypeOK
    BY DEF TimerInv
<1> QED BY <1>1, TimerInvInit, TimerInvStep, PTL DEF TimerSpec

(* Whenever the loop may sleep, the timerfd is set, and not for later than *)
(* any timer in the queue needs, whatever callbacks, handlers and other    *)
(* threads add and cancel.                                                 *)
THEOREM TimerfdArmed == TimerSpec => []Armed
<1>1. TimerInv => Armed
    BY DEF TimerInv
<1> QED BY <1>1, TimerInvInit, TimerInvStep, PTL DEF TimerSpec
-----------------------------------------------------------------------------
(* Live Timers have sequence numbers of their own. *)
Numbered == /\ \A a \in Addresses : timerAt[a].live => timerAt[a].seq \in 1..created
            /\ \A a, b \in Addresses : timerAt[a].live /\ timerAt[b].live
                                       /\ timerAt[a].seq = timerAt[b].seq => a = b

(* A Timer that was cancelled is deleted, or it is being called, and then  *)
(* reset is going to find it in cancelingTimers_.                          *)
CancelledAside == \A a \in Addresses : timerAt[a].live /\ timerAt[a].seq \in cancelled =>
                      a \in expired /\ <<a, timerAt[a].seq>> \in canceling

(* What CancelExact needs besides TimerInv to be inductive. *)
CancelInv == /\ Numbered
             /\ cancelled \subseteq 1..created
             /\ CancelledAside
             /\ timerfdReady => ~callingExpired

(* No Timer has been made at the beginning. *)
LEMMA CancelInvInit == TimerInit => CancelInv
BY DEF TimerInit, CancelInv, Numbered, CancelledAside

(* Steps that change no Timer's number and cancel nothing. *)
LEMMA CancelIdle ==
    ASSUME TimerInv, CancelInv,
           \A a \in Addresses : timerAt'[a].live = timerAt[a].live /\ timerAt'[a].seq = timerAt[a].seq,
           UNCHANGED <<created, cancelled, canceling, expired>>,
           timerfdReady' => ~callingExpired'
    PROVE  CancelInv'
BY DEF CancelInv, Numbered, CancelledAside

(* A new Timer has a new number. *)
LEMMA CancelNewTimer ==
    ASSUME TimerInv, CancelInv, NEW a \in Addresses, NEW d \in Delays, NEW i \in Intervals,
           NewTimer(a, d, i),
           UNCHANGED <<cancelled, canceling, expired, timerfdReady, callingExpired>>
    PROVE  CancelInv'
<1>1. /\ timerAt'[a].seq = created + 1 /\ created' = created + 1 /\ created \in Nat
      /\ \A b \in Addresses \ {a} : timerAt'[b] = timerAt[b]
    BY Fresh DEF NewTimer, TimerInv, TimerTypeOK
<1>2. \A b \in Addresses \ {a} : timerAt'[b].live => timerAt'[b].seq \in 1..created
    BY <1>1 DEF CancelInv, Numbered
<1>3. \A b \in Addresses : timerAt'[b].live => timerAt'[b].seq \in 1..created'
    BY <1>1, <1>2
<1>4. \A b, c \in Addresses : timerAt'[b].live /\ timerAt'[c].live
                              /\ timerAt'[b].seq = timerAt'[c].seq => b = c
    <2> SUFFICES ASSUME NEW b \in Addresses, NEW c \in Addresses, timerAt'[b].live, timerAt'[c].live,
                        timerAt'[b].seq = timerAt'[c].seq, b # c
                 PROVE  FALSE
        OBVIOUS
    <2>1. CASE b = a
        BY <1>1, <1>2, <2>1
    <2>2. CASE c = a
        BY <1>1, <1>2, <2>2
    <2>3. CASE b # a /\ c # a
        BY <1>1, <2>3 DEF CancelInv, Numbered
    <2> QED BY <2>1, <2>2, <2>3
<1>5. created + 1 \notin cancelled /\ cancelled \subseteq 1..created'
    BY <1>1 DEF CancelInv
<1>6. CancelledAside'
    <2> SUFFICES ASSUME NEW b \in Addresses, timerAt'[b].live, timerAt'[b].seq \in cancelled
                 PROVE  b \in expired /\ <<b, timerAt'[b].seq>> \in canceling
        BY DEF CancelledAside
    <2>1. b # a
        BY <1>1, <1>5
    <2> QED BY <1>1, <2>1 DEF CancelInv, CancelledAside
<1> QED BY <1>3, <1>4, <1>5, <1>6 DEF CancelInv, Numbered

(* cancelInLoop deletes the Timer the TimerId names, or notes that it is   *)
(* being called.                                                           *)
LEMMA CancelInLoopExact ==
    ASSUME TimerInv, CancelInv, NEW h, NEW s, CancelInLoop(h, s),
           UNCHANGED <<created, expired, timerfdReady, callingExpired>>
    PROVE  CancelInv'
<1>1. /\ activeTimers = {<<a, timerAt[a].seq>> : a \in timers} /\ timers \subseteq Addresses
      /\ expired \subseteq Addresses /\ (\A a \in timers \cup expired : timerAt[a].live)
      /\ timerAt \in [Addresses -> Timer] /\ expired \cap timers = {}
      /\ ~callingExpired => expired = {}
    BY DEF TimerInv, TimerTypeOK, Timer
<1>3. CASE h \in activeTimers
    <2>1. PICK a \in timers : h = <<a, timerAt[a].seq>>
        BY <1>1, <1>3
    <2>2. Found(h) = {h} /\ h[1] = a /\ h[2] = timerAt[a].seq
        BY <1>3, <2>1 DEF Found
    <2>3. timerAt' = [b \in Addresses |-> IF b = a THEN Deleted(timerAt[b]) ELSE timerAt[b]]
        BY <2>2 DEF CancelInLoop
    <2>4. canceling' = canceling /\ cancelled' = cancelled \cup {timerAt[a].seq}
        <3>1. {timerAt[c].seq : c \in {b \in expired : h = <<b, timerAt[b].seq>>}} \subseteq {timerAt[a].seq}
            BY <2>2
        <3>2. Hit(h) = {timerAt[a].seq}
            BY <2>2, <3>1 DEF Hit
        <3> QED BY <2>2, <3>2 DEF CancelInLoop
    <2>5. ~timerAt'[a].live /\ (\A b \in Addresses : b # a => timerAt'[b] = timerAt[b])
        BY <1>1, <2>3 DEF Deleted
    <2>6. timerAt[a].live /\ a \in Addresses
        BY <1>1
    <2>7. Numbered'
        BY <2>5 DEF CancelInv, Numbered
    <2>8. timerAt[a].seq \in 1..created
        BY <2>6 DEF CancelInv, Numbered
    <2>9. CancelledAside'
        <3> SUFFICES ASSUME NEW b \in Addresses, timerAt'[b].live, timerAt'[b].seq \in cancelled'
                     PROVE  b \in expired /\ <<b, timerAt'[b].seq>> \in canceling
            BY <2>4 DEF CancelledAside
        <3>1. b # a /\ timerAt'[b] = timerAt[b]
            BY <2>5
        <3>2. timerAt[b].seq # timerAt[a].seq
            BY <2>6, <3>1 DEF CancelInv, Numbered
        <3> QED BY <2>4, <3>1, <3>2 DEF CancelInv, CancelledAside
    <2> QED BY <2>4, <2>7, <2>8, <2>9 DEF CancelInv
<1>4. CASE h \notin activeTimers
    <2>1. Found(h) = {}
        BY <1>4 DEF Found
    <2>2. /\ timerAt' = timerAt
          /\ canceling' = IF callingExpired THEN canceling \cup {h} ELSE canceling
          /\ cancelled' = cancelled \cup {timerAt[a].seq : a \in {b \in expired : h = <<b, timerAt[b].seq>>}}
        <3>1. timerAt' = [a \in Addresses |-> timerAt[a]]
            BY <2>1 DEF CancelInLoop
        <3>2. Hit(h) = {timerAt[a].seq : a \in {b \in expired : h = <<b, timerAt[b].seq>>}}
            BY <2>1 DEF Hit
        <3> QED BY <1>1, <2>1, <3>1, <3>2 DEF CancelInLoop
    <2>3. CASE h \in {<<a, timerAt[a].seq>> : a \in expired}
        <3>1. PICK a \in expired : h = <<a, timerAt[a].seq>>
            BY <2>3
        <3>2. a \in Addresses /\ timerAt[a].live /\ h[2] = timerAt[a].seq /\ callingExpired
            BY <1>1, <3>1
        <3>3. cancelled' = cancelled \cup {timerAt[a].seq} /\ canceling' = canceling \cup {h}
            <4>1. {b \in expired : h = <<b, timerAt[b].seq>>} = {a}
                BY <3>1
            <4> QED BY <2>2, <3>2, <4>1
        <3>4. timerAt[a].seq \in 1..created
            BY <3>2 DEF CancelInv, Numbered
        <3>5. CancelledAside'
            <4> SUFFICES ASSUME NEW b \in Addresses, timerAt[b].live, timerAt[b].seq \in cancelled'
                         PROVE  b \in expired /\ <<b, timerAt[b].seq>> \in canceling'
                BY <2>2 DEF CancelledAside
            <4>1. CASE timerAt[b].seq = timerAt[a].seq
                <5>1. a = b
                    BY <3>2, <4>1 DEF CancelInv, Numbered
                <5> QED BY <3>1, <3>3, <5>1
            <4>2. CASE timerAt[b].seq \in cancelled
                BY <3>3, <4>2 DEF CancelInv, CancelledAside
            <4> QED BY <3>3, <4>1, <4>2
        <3> QED BY <2>2, <3>3, <3>4, <3>5 DEF CancelInv, Numbered
    <2>4. CASE h \notin {<<a, timerAt[a].seq>> : a \in expired}
        <3>1. cancelled' = cancelled /\ canceling \subseteq canceling'
            <4>1. {b \in expired : h = <<b, timerAt[b].seq>>} = {}
                BY <2>4
            <4> QED BY <2>2, <4>1
        <3> QED BY <2>2, <3>1 DEF CancelInv, Numbered, CancelledAside
    <2> QED BY <2>3, <2>4
<1> QED BY <1>3, <1>4

(* Before handleRead no cancelled Timer is left. *)
LEMMA CancelHandleRead ==
    ASSUME TimerInv, CancelInv, TimerHandleRead
    PROVE  CancelInv'
<1>1. expired = {}
    BY DEF TimerInv, TimerTypeOK, CancelInv, TimerHandleRead
<1>2. \A a \in Addresses : timerAt[a].live => timerAt[a].seq \notin cancelled
    BY <1>1 DEF CancelInv, CancelledAside
<1> QED BY <1>2 DEF CancelInv, Numbered, CancelledAside, TimerHandleRead

(* reset deletes the Timers cancelled meanwhile. *)
LEMMA CancelReset ==
    ASSUME TimerInv, CancelInv, TimerReset
    PROVE  CancelInv'
<1> DEFINE again == {a \in expired : Restarts(a)}
<1>1. timerAt' = [a \in Addresses |->
                 IF a \in again
                 THEN [timerAt[a] EXCEPT !.left = AtLeast(timerAt[a].interval - sinceNow, -MaxLate)]
                 ELSE IF a \in expired THEN Deleted(timerAt[a]) ELSE timerAt[a]]
    BY DEF TimerReset
<1>2. UNCHANGED <<timerfdReady, canceling, created, cancelled>> /\ expired' = {} /\ callingExpired' = FALSE
    BY DEF TimerReset
<1>3. timerAt \in [Addresses -> Timer]
    BY DEF TimerInv, TimerTypeOK, Timer
<1> HIDE DEF again
<1>4. ASSUME NEW a \in Addresses, timerAt'[a].live
      PROVE  /\ timerAt[a].live /\ timerAt'[a].seq = timerAt[a].seq
             /\ a \notin expired \/ a \in again
    <2>1. CASE a \in again
        <3>1. timerAt'[a].live = timerAt[a].live /\ timerAt'[a].seq = timerAt[a].seq
            BY <1>1, <1>3, <2>1 DEF Timer
        <3> QED BY <1>4, <2>1, <3>1
    <2>2. CASE a \notin again /\ a \in expired
        BY <1>1, <1>4, <2>2 DEF Deleted
    <2>3. CASE a \notin again /\ a \notin expired
        BY <1>1, <1>4, <2>3
    <2> QED BY <2>1, <2>2, <2>3
<1>5. Numbered'
    BY <1>2, <1>4 DEF CancelInv, Numbered
<1>6. ASSUME NEW a \in Addresses, timerAt'[a].live PROVE timerAt'[a].seq \notin cancelled
    <2>1. /\ timerAt[a].live /\ timerAt'[a].seq = timerAt[a].seq
          /\ a \notin expired \/ a \in again
        BY <1>4, <1>6
    <2>2. a \notin expired \/ <<a, timerAt[a].seq>> \notin canceling
        BY <2>1 DEF again, Restarts
    <2> QED BY <2>1, <2>2 DEF CancelInv, CancelledAside
<1>7. CancelledAside'
    BY <1>2, <1>6 DEF CancelledAside
<1> QED BY <1>2, <1>5, <1>7 DEF CancelInv

(* Every step keeps the invariant. *)
LEMMA CancelInvStep == TimerInv /\ CancelInv /\ [TimerNext]_timerVars => CancelInv'
<1> SUFFICES ASSUME TimerInv, CancelInv, [TimerNext]_timerVars PROVE CancelInv'
    OBVIOUS
<1>1. CASE RunTimer
    BY <1>1, CancelIdle DEF RunTimer, CancelInv
<1>2. CASE PollTimerfd
    BY <1>2, CancelIdle DEF PollTimerfd, CancelInv
<1>3. CASE UNCHANGED timerVars
    BY <1>3, CancelIdle DEF timerVars, CancelInv
<1>4. CASE Tick
    <2>1. timerAt \in [Addresses -> Timer]
        BY DEF TimerInv, TimerTypeOK, Timer
    <2>2. \A a \in Addresses : timerAt'[a].live = timerAt[a].live /\ timerAt'[a].seq = timerAt[a].seq
        BY <1>4, <2>1 DEF Tick, Timer
    <2> QED BY <1>4, <2>2, CancelIdle DEF Tick, CancelInv
<1>5. CASE RunTimerFunctor
    <2>1. CASE /\ AddTimerInLoop(timerAt, Head(timerFunctors).handle[1])
               /\ UNCHANGED <<timerAt, canceling, cancelled, strays>>
        BY <1>5, <2>1, CancelIdle DEF RunTimerFunctor, CancelInv
    <2>2. CASE CancelInLoop(Head(timerFunctors).handle, Head(timerFunctors).of)
        BY <1>5, <2>2, CancelInLoopExact DEF RunTimerFunctor
    <2> QED BY <1>5, <2>1, <2>2 DEF RunTimerFunctor
<1>6. ASSUME NEW a \in Addresses, NEW d \in Delays, NEW i \in Intervals, LoopAddTimer(a, d, i)
      PROVE  CancelInv'
    BY <1>6, CancelNewTimer DEF LoopAddTimer
<1>7. ASSUME NEW a \in Addresses, NEW d \in Delays, NEW i \in Intervals, AddTimer(a, d, i)
      PROVE  CancelInv'
    BY <1>7, CancelNewTimer DEF AddTimer
<1>8. ASSUME NEW s \in Sequence, LoopCancel(s) PROVE CancelInv'
    BY <1>8, CancelInLoopExact DEF LoopCancel
<1>9. ASSUME NEW s \in Sequence, AddTimerReturns(s) PROVE CancelInv'
    BY <1>9, CancelIdle DEF AddTimerReturns, CancelInv
<1>10. ASSUME NEW s \in Sequence, Cancel(s) PROVE CancelInv'
    BY <1>10, CancelIdle DEF Cancel, CancelInv
<1> QED BY <1>1, <1>2, <1>3, <1>4, <1>5, <1>6, <1>7, <1>8, <1>9, <1>10, CancelHandleRead, CancelReset
        DEF TimerNext, TimerHandling

-----------------------------------------------------------------------------
(* A live Timer is where the TimerId of its number says. *)
WhereItIs == \A a \in Addresses, s \in Sequence : timerAt[a].live /\ timerAt[a].seq = s =>
                 Len(handleOf[s]) # 0 /\ handleOf[s][1] = a

(* TimerId h names timer s, unless it was read too late. *)
Names(h, s) == Len(h) = 2 => h[2] = s \/ s \in misread

Aimed(f) == Len(f.handle) = 2 /\ Names(f.handle, f.of)

(* What the second part of CancelExact needs to be inductive. *)
StrayInv == /\ WhereItIs
            /\ \A s \in Sequence : Names(handleOf[s], s)
            /\ \A i \in DOMAIN timerFunctors : Aimed(timerFunctors[i])
            /\ strays \subseteq misread

(* No Timer has been made at the beginning. *)
LEMMA StrayInvInit == TimerInit => StrayInv
BY DEF TimerInit, StrayInv, WhereItIs, Names, NoHandle

(* Steps that make no Timer, no TimerId and no functor. *)
LEMMA StrayIdle ==
    ASSUME TimerInv, StrayInv,
           \A a \in Addresses : timerAt'[a].live => timerAt[a].live /\ timerAt'[a].seq = timerAt[a].seq,
           UNCHANGED <<handleOf, misread>>, strays' \subseteq misread,
           \A i \in DOMAIN timerFunctors' : \E j \in DOMAIN timerFunctors : timerFunctors'[i] = timerFunctors[j]
    PROVE  StrayInv'
<1>1. WhereItIs'
    BY DEF StrayInv, WhereItIs
<1>2. \A s \in Sequence : Names(handleOf[s], s)'
    BY DEF StrayInv, Names
<1>3. \A i \in DOMAIN timerFunctors' : Aimed(timerFunctors[i])'
    BY DEF StrayInv, Names, Aimed
<1> QED BY <1>1, <1>2, <1>3 DEF StrayInv

(* cancelInLoop deletes no other Timer than that of its TimerId. *)
LEMMA StrayCancel ==
    ASSUME TimerInv, NEW h, NEW s, CancelInLoop(h, s), Len(h) = 2, Names(h, s), strays \subseteq misread
    PROVE  /\ strays' \subseteq misread
           /\ \A a \in Addresses : timerAt'[a].live => timerAt[a].live /\ timerAt'[a].seq = timerAt[a].seq
<1>1. Hit(h) \subseteq {h[2]}
    <2>1. {t[2] : t \in Found(h)} \subseteq {h[2]}
        BY DEF Found
    <2>2. {timerAt[a].seq : a \in {b \in expired : h = <<b, timerAt[b].seq>>}} \subseteq {h[2]}
        <3> SUFFICES ASSUME NEW a \in expired, h = <<a, timerAt[a].seq>> PROVE timerAt[a].seq = h[2]
            OBVIOUS
        <3> QED OBVIOUS
    <2> QED BY <2>1, <2>2 DEF Hit
<1>2. Hit(h) \subseteq {s} \/ s \in misread
    BY <1>1 DEF Names
<1>3. strays' \subseteq misread
    BY <1>2 DEF CancelInLoop
<1>4. timerAt' = [a \in Addresses |-> IF \E t \in Found(h) : t[1] = a
                                      THEN Deleted(timerAt[a]) ELSE timerAt[a]]
    BY DEF CancelInLoop
<1>5. \A a \in Addresses : timerAt'[a].live => timerAt'[a] = timerAt[a]
    BY <1>4 DEF Deleted
<1> QED BY <1>3, <1>5

(* The TimerId of a new Timer, given out in the loop thread or on its way  *)
(* in another.                                                             *)
LEMMA StrayNewTimer ==
    ASSUME TimerInv, CancelInv, StrayInv, NEW a \in Addresses, NEW d \in Delays, NEW i \in Intervals,
           NewTimer(a, d, i), UNCHANGED <<misread, strays>>,
           NEW h, h = <<a>> \/ h = <<a, created + 1>>,
           handleOf' = [handleOf EXCEPT ![created + 1] = h]
    PROVE  WhereItIs' /\ \A s \in Sequence : Names(handleOf[s], s)'
<1>a. /\ timerAt'[a].seq = created + 1 /\ created + 1 \in Sequence
      /\ \A b \in Addresses \ {a} : timerAt'[b] = timerAt[b]
    BY Fresh
<1>b. created \in Nat
    BY DEF TimerInv, TimerTypeOK
<1>1. /\ timerAt'[a].seq = created + 1 /\ created \in Nat /\ created + 1 \in Sequence
      /\ \A b \in Addresses \ {a} : timerAt'[b] = timerAt[b]
    BY <1>a, <1>b
<1>2. handleOf \in [Sequence -> Handles]
    BY DEF TimerInv, PendingAdds
<1>3. handleOf'[created + 1] = h /\ \A s \in Sequence : s # created + 1 => handleOf'[s] = handleOf[s]
    BY <1>1, <1>2
<1>4. Len(h) # 0 /\ h[1] = a /\ (Len(h) = 2 => h[2] = created + 1)
    OBVIOUS
<1>5. WhereItIs'
    <2> SUFFICES ASSUME NEW b \in Addresses, NEW s \in Sequence, timerAt'[b].live, timerAt'[b].seq = s
                 PROVE  Len(handleOf'[s]) # 0 /\ handleOf'[s][1] = b
        BY DEF WhereItIs
    <2>1. CASE b = a
        BY <1>1, <1>3, <1>4, <2>1
    <2>2. CASE b # a
        <3>1. timerAt[b].live /\ timerAt[b].seq = s /\ s \in 1..created
            BY <1>1, <2>2 DEF CancelInv, Numbered
        <3>2. s # created + 1
            BY <1>1, <3>1
        <3> QED BY <1>3, <3>1, <3>2 DEF StrayInv, WhereItIs
    <2> QED BY <2>1, <2>2
<1>6. ASSUME NEW s \in Sequence PROVE Names(handleOf[s], s)'
    BY <1>3, <1>4 DEF StrayInv, Names
<1> QED BY <1>5, <1>6

(* A TimerId read while its Timer lives names it. *)
LEMMA StrayReturns ==
    ASSUME TimerInv, StrayInv, NEW s \in Sequence, AddTimerReturns(s)
    PROVE  StrayInv'
<1> DEFINE a == handleOf[s][1]
<1>1. handleOf \in [Sequence -> Handles] /\ handleOf[s] \in Handles /\ Len(handleOf[s]) = 1
    BY DEF AddTimerReturns, TimerInv, PendingAdds
<1>2. a \in Addresses
    BY <1>1 DEF Handles
<1>3. PICK seq \in {timerAt[a].seq} \cup (IF timerAt[a].live THEN {} ELSE {0}) :
            handleOf' = [handleOf EXCEPT ![s] = <<a, seq>>]
    BY DEF AddTimerReturns
<1> HIDE DEF a
<1>4. /\ handleOf'[s] = <<a, seq>> /\ Len(<<a, seq>>) = 2 /\ <<a, seq>>[1] = a /\ <<a, seq>>[2] = seq
      /\ \A r \in Sequence : r # s => handleOf'[r] = handleOf[r]
    BY <1>1, <1>3
<1>5. /\ UNCHANGED <<timerAt, timerFunctors, strays>> /\ misread \subseteq misread'
      /\ TimerDeleted(s) => s \in misread'
    BY DEF AddTimerReturns
<1>6. WhereItIs'
    BY <1>4, <1>5 DEF StrayInv, WhereItIs, a
<1>7. seq = s \/ s \in misread'
    <2> SUFFICES ASSUME ~TimerDeleted(s) PROVE seq = s
        BY <1>5
    <2>1. PICK b \in Addresses : timerAt[b].live /\ timerAt[b].seq = s
        BY DEF TimerDeleted
    <2>2. b = a
        BY <2>1 DEF StrayInv, WhereItIs, a
    <2> QED BY <1>3, <2>1, <2>2
<1>8. ASSUME NEW r \in Sequence PROVE Names(handleOf[r], r)'
    BY <1>4, <1>5, <1>7 DEF StrayInv, Names
<1>9. \A i \in DOMAIN timerFunctors' : Aimed(timerFunctors[i])'
    BY <1>5 DEF StrayInv, Names, Aimed
<1> QED BY <1>5, <1>6, <1>8, <1>9 DEF StrayInv

(* Queueing a functor whose TimerId names its timer. *)
LEMMA StrayQueue ==
    ASSUME TimerInv, StrayInv, UNCHANGED misread, NEW f, Aimed(f),
           timerFunctors' = Append(timerFunctors, f)
    PROVE  \A i \in DOMAIN timerFunctors' : Aimed(timerFunctors[i])'
<1>1. timerFunctors \in Seq(Functors)
    BY DEF TimerInv, PendingAdds
<1>2. \A i \in DOMAIN timerFunctors' :
         \/ timerFunctors'[i] = f
         \/ i \in DOMAIN timerFunctors /\ timerFunctors'[i] = timerFunctors[i]
    BY <1>1
<1> QED BY <1>2 DEF StrayInv, Names, Aimed

(* Every step keeps the invariant. *)
LEMMA StrayInvStep == TimerInv /\ CancelInv /\ StrayInv /\ [TimerNext]_timerVars => StrayInv'
<1> SUFFICES ASSUME TimerInv, CancelInv, StrayInv, [TimerNext]_timerVars PROVE StrayInv'
    OBVIOUS
<1>0. timerAt \in [Addresses -> Timer] /\ timerFunctors \in Seq(Functors)
    BY DEF TimerInv, TimerTypeOK, Timer, PendingAdds
<1>1. CASE RunTimer \/ PollTimerfd \/ TimerHandleRead \/ UNCHANGED timerVars
    BY <1>1, StrayIdle DEF RunTimer, PollTimerfd, TimerHandleRead, timerVars, StrayInv
<1>2. CASE Tick
    <2>1. \A a \in Addresses : timerAt'[a].live = timerAt[a].live /\ timerAt'[a].seq = timerAt[a].seq
        BY <1>2, <1>0 DEF Tick, Timer
    <2> QED BY <1>2, <2>1, StrayIdle DEF Tick, StrayInv
<1>3. CASE TimerReset
    <2> DEFINE again == {a \in expired : Restarts(a)}
    <2>1. timerAt' = [a \in Addresses |->
                 IF a \in again
                 THEN [timerAt[a] EXCEPT !.left = AtLeast(timerAt[a].interval - sinceNow, -MaxLate)]
                 ELSE IF a \in expired THEN Deleted(timerAt[a]) ELSE timerAt[a]]
        BY <1>3 DEF TimerReset
    <2> HIDE DEF again
    <2>2. ASSUME NEW a \in Addresses, timerAt'[a].live
          PROVE  timerAt[a].live /\ timerAt'[a].seq = timerAt[a].seq
        <3>1. CASE a \in again
            <4>1. timerAt'[a].live = timerAt[a].live /\ timerAt'[a].seq = timerAt[a].seq
                BY <1>0, <2>1, <3>1 DEF Timer
            <4> QED BY <2>2, <4>1
        <3>2. CASE a \notin again
            BY <2>1, <2>2, <3>2 DEF Deleted
        <3> QED BY <3>1, <3>2
    <2> QED BY <1>3, <2>2, StrayIdle DEF TimerReset, StrayInv
<1>4. CASE RunTimerFunctor
    <2> DEFINE f == Head(timerFunctors)
    <2>1. /\ timerFunctors # <<>> /\ timerFunctors' = Tail(timerFunctors) /\ f = timerFunctors[1]
          /\ 1 \in DOMAIN timerFunctors /\ UNCHANGED <<handleOf, misread>>
        BY <1>0, <1>4 DEF RunTimerFunctor
    <2>2. \A i \in DOMAIN timerFunctors' : \E j \in DOMAIN timerFunctors : timerFunctors'[i] = timerFunctors[j]
        <3>1. \A i \in DOMAIN timerFunctors' :
                 i + 1 \in DOMAIN timerFunctors /\ timerFunctors'[i] = timerFunctors[i + 1]
            BY <1>0, <2>1
        <3> QED BY <3>1
    <2>3. CASE UNCHANGED <<timerAt, strays>>
        BY <2>1, <2>2, <2>3, StrayIdle DEF StrayInv
    <2>4. CASE f.op = "cancel" /\ CancelInLoop(f.handle, f.of)
        <3>1. Names(f.handle, f.of) /\ strays \subseteq misread
            BY <2>1 DEF StrayInv, Aimed
        <3>2. Len(f.handle) = 2
            BY <2>1 DEF StrayInv, Aimed
        <3>3. /\ strays' \subseteq misread
              /\ \A a \in Addresses : timerAt'[a].live => timerAt[a].live /\ timerAt'[a].seq = timerAt[a].seq
            BY <2>4, <3>1, <3>2, StrayCancel
        <3> QED BY <2>1, <2>2, <3>3, StrayIdle
    <2> QED BY <1>4, <2>3, <2>4 DEF RunTimerFunctor
<1>5. ASSUME NEW a \in Addresses, NEW d \in Delays, NEW i \in Intervals, LoopAddTimer(a, d, i)
      PROVE  StrayInv'
    <2>1. /\ NewTimer(a, d, i) /\ UNCHANGED <<misread, strays, timerFunctors>>
          /\ handleOf' = [handleOf EXCEPT ![created + 1] = <<a, created + 1>>]
        BY <1>5 DEF LoopAddTimer
    <2>2. WhereItIs' /\ \A s \in Sequence : Names(handleOf[s], s)'
        BY <2>1, StrayNewTimer
    <2>3. \A k \in DOMAIN timerFunctors' : Aimed(timerFunctors[k])'
        BY <2>1 DEF StrayInv, Names, Aimed
    <2> QED BY <2>1, <2>2, <2>3 DEF StrayInv
<1>6. ASSUME NEW a \in Addresses, NEW d \in Delays, NEW i \in Intervals, AddTimer(a, d, i)
      PROVE  StrayInv'
    <2> DEFINE f == [op |-> "add", handle |-> <<a, created + 1>>, of |-> created + 1]
    <2>1. /\ NewTimer(a, d, i) /\ UNCHANGED <<misread, strays>>
          /\ timerFunctors' = Append(timerFunctors, f)
          /\ handleOf' = [handleOf EXCEPT ![created + 1] = <<a>>]
        BY <1>6 DEF AddTimer
    <2>2. WhereItIs' /\ \A s \in Sequence : Names(handleOf[s], s)'
        BY <2>1, StrayNewTimer
    <2>3. Aimed(f)
        BY DEF Names, Aimed
    <2> HIDE DEF f
    <2>4. \A k \in DOMAIN timerFunctors' : Aimed(timerFunctors[k])'
        BY <2>1, <2>3, StrayQueue
    <2> QED BY <2>1, <2>2, <2>4 DEF StrayInv
<1>7. ASSUME NEW s \in Sequence, LoopCancel(s) PROVE StrayInv'
    <2>1. /\ CancelInLoop(handleOf[s], s) /\ Len(handleOf[s]) = 2 /\ UNCHANGED <<handleOf, misread, timerFunctors>>
          /\ Names(handleOf[s], s) /\ strays \subseteq misread
        BY <1>7 DEF LoopCancel, StrayInv
    <2>2. /\ strays' \subseteq misread
          /\ \A a \in Addresses : timerAt'[a].live => timerAt[a].live /\ timerAt'[a].seq = timerAt[a].seq
        BY <2>1, StrayCancel
    <2> QED BY <2>1, <2>2, StrayIdle
<1>8. ASSUME NEW s \in Sequence, Cancel(s) PROVE StrayInv'
    <2> DEFINE f == [op |-> "cancel", handle |-> handleOf[s], of |-> s]
    <2>1. /\ UNCHANGED <<misread, strays, handleOf, timerAt>> /\ timerFunctors' = Append(timerFunctors, f)
        BY <1>8 DEF Cancel
    <2>2. Aimed(f)
        BY <1>8 DEF StrayInv, Aimed, Cancel
    <2> HIDE DEF f
    <2>3. \A k \in DOMAIN timerFunctors' : Aimed(timerFunctors[k])'
        BY <2>1, <2>2, StrayQueue
    <2>4. WhereItIs' /\ \A r \in Sequence : Names(handleOf[r], r)'
        BY <2>1 DEF StrayInv, WhereItIs, Names
    <2> QED BY <2>1, <2>3, <2>4 DEF StrayInv
<1> QED BY <1>1, <1>2, <1>3, <1>4, <1>5, <1>6, <1>7, <1>8, StrayReturns DEF TimerNext, TimerHandling

(* A Timer cancelled while the queue held it, or while its callback or     *)
(* that of another Timer of the same batch ran, is not added again; and no *)
(* cancel hits a Timer that its TimerId was not returned for, although a   *)
(* Timer gets the memory of one that was deleted, unless addTimer, in      *)
(* another thread, read the number of its Timer after that was deleted.    *)
THEOREM CancelIsExact == TimerSpec => []CancelExact
<1>1. TimerInv /\ CancelInv /\ StrayInv => CancelExact
    <2> SUFFICES ASSUME TimerInv, CancelInv, NEW t \in activeTimers PROVE t[2] \notin cancelled
        BY DEF CancelExact, StrayInv
    <2>1. PICK a \in timers : t = <<a, timerAt[a].seq>>
        BY DEF TimerInv, TimerTypeOK
    <2>2. a \in Addresses /\ timerAt[a].live /\ a \notin expired /\ t[2] = timerAt[a].seq
        BY <2>1 DEF TimerInv, TimerTypeOK
    <2> QED BY <2>2 DEF CancelInv, CancelledAside
<1> QED BY <1>1, TimerInvInit, TimerInvStep, CancelInvInit, CancelInvStep, StrayInvInit, StrayInvStep, PTL DEF TimerSpec
=============================================================================

-------------------------- MODULE TimerQueueProofs --------------------------
(***************************************************************************)
(* Theorems about TimerQueue, for any calling threads, any addresses the   *)
(* allocator may return, any times and intervals and any bounds: the two   *)
(* indexes agree, a timer has one owner, the timerfd is never late, and a  *)
(* cancelled timer does not come back.                                     *)
(***************************************************************************)
EXTENDS TimerQueue, WellFoundedInduction, TLAPS

Scheduled == {e[2] : e \in timers_}
Firing == {e[2] : e \in expired}

(* Sequence numbers name timers: those of the timers that are alive were   *)
(* given out, each to one of them.                                         *)
HeapInv ==
  /\ \A a \in Addrs : Live(a) => heap[a].sequence \in 1 .. numCreated
  /\ \A a, b \in Addrs :
       Live(a) /\ Live(b) /\ heap[a].sequence = heap[b].sequence => a = b

(* The expired vector holds timers as they were when they expired, and is  *)
(* empty outside handleRead; the channel is not active inside it.          *)
BatchInv ==
  /\ \A e \in expired : Live(e[2]) /\ e = EntryOf(e[2])
  /\ ~callingExpiredTimers_ => expired = {}
  /\ active => ~callingExpiredTimers_

(* A timer is brought to the loop by one functor. *)
AddedOnce ==
  \A i, j \in DOMAIN queue :
    /\ queue[i].op = "add" /\ queue[j].op = "add"
    /\ queue[i].timer[1] = queue[j].timer[1]
    => i = j

(* A cancelled timer that is still alive is in the batch being run, and    *)
(* cancelingTimers_ remembers it.                                          *)
DroppedInv ==
  /\ dropped \subseteq 1 .. numCreated
  /\ \A a \in Addrs :
       Live(a) /\ heap[a].sequence \in dropped
         => a \in Firing /\ ActiveOf(a) \in cancelingTimers_

(* Inside handleRead the timerfd need not be set, since reset() will set   *)
(* it, but not for a timer of the invalid time 0: the insertion of that    *)
(* has set it, and for the next tick.                                      *)
InvalidIsArmed ==
  callingExpiredTimers_ =>
    \A e \in timers_ : e[1] = 0 => timerfd # Disarmed /\ timerfd <= clock + 1

IInv ==
  /\ TimerTypeOK /\ HeapInv /\ BatchInv /\ AddedOnce
  /\ OneOwner /\ IndexesAgree /\ DroppedInv
  /\ InvalidIsArmed /\ NeverSleepsPastTimer

-----------------------------------------------------------------------------
(* What other threads hand to the loop. *)
Functor == [op : {"add", "cancel"}, timer : ActiveTimer]

(* OneOwner, address by address. *)
OwnerOf(a) ==
  /\ Live(a) <=> a \in Queued \/ a \in Scheduled \/ a \in Firing
  /\ ~(a \in Queued /\ a \in Scheduled)
  /\ ~(a \in Queued /\ a \in Firing)
  /\ ~(a \in Scheduled /\ a \in Firing)

(* Whatever a functor, the index or the vector names is an address. *)
LEMMA OwnersAreAddrs ==
  ASSUME TimerTypeOK
  PROVE  /\ Queued \subseteq Addrs /\ Scheduled \subseteq Addrs
         /\ Firing \subseteq Addrs
<1>1. ASSUME NEW i \in DOMAIN queue PROVE queue[i].timer[1] \in Addrs
  <2>1. queue \in Seq(Functor)
    BY DEF TimerTypeOK, Functor
  <2>2. queue[i] \in Functor
    BY <2>1
  <2> QED BY <2>2 DEF Functor, ActiveTimer
<1>2. Queued \subseteq Addrs
  BY <1>1 DEF Queued
<1>3. Scheduled \subseteq Addrs /\ Firing \subseteq Addrs
  BY DEF TimerTypeOK, Scheduled, Firing, Entry
<1> QED BY <1>2, <1>3

(* The two forms of OneOwner say the same. *)
LEMMA OwnerByAddr ==
  ASSUME TimerTypeOK
  PROVE  OneOwner <=> \A a \in Addrs : OwnerOf(a)
<1>1. OneOwner => \A a \in Addrs : OwnerOf(a)
  BY OwnersAreAddrs DEF OneOwner, OwnerOf, Scheduled, Firing
<1>2. ASSUME \A a \in Addrs : OwnerOf(a) PROVE OneOwner
  BY <1>2, OwnersAreAddrs DEF OneOwner, OwnerOf, Scheduled, Firing
<1> QED BY <1>1, <1>2

(* Handing over a timer adds it to the queued ones; handing over a cancel  *)
(* does not.                                                               *)
LEMMA QueuedAppend ==
  ASSUME TimerTypeOK,
         NEW f \in Functor,
         queue' = Append(queue, f)
  PROVE  Queued' = IF f.op = "add" THEN Queued \cup {f.timer[1]} ELSE Queued
<1>1. /\ queue \in Seq(Functor)
      /\ DOMAIN queue = 1 .. Len(queue) /\ DOMAIN queue' = 1 .. Len(queue) + 1
      /\ queue'[Len(queue) + 1] = f
      /\ \A i \in 1 .. Len(queue) : queue'[i] = queue[i]
  BY DEF TimerTypeOK, Functor
<1>2. Len(queue) \in Nat
  BY <1>1
<1> QED BY <1>1, <1>2 DEF Queued

(* The functor that runs is the only one that brings its timer. *)
LEMMA QueuedTail ==
  ASSUME TimerTypeOK, AddedOnce, queue # <<>>, queue' = Tail(queue)
  PROVE  /\ Head(queue) \in Functor
         /\ Head(queue).op = "add" => Head(queue).timer[1] \in Queued
         /\ Queued' = IF Head(queue).op = "add"
                      THEN Queued \ {Head(queue).timer[1]} ELSE Queued
         /\ AddedOnce'
<1>1. /\ queue \in Seq(Functor)
      /\ Len(queue) \in Nat \ {0}
      /\ DOMAIN queue = 1 .. Len(queue) /\ DOMAIN queue' = 1 .. Len(queue) - 1
      /\ Head(queue) = queue[1]
      /\ \A i \in 1 .. Len(queue) - 1 : queue'[i] = queue[i + 1]
  BY DEF TimerTypeOK, Functor
<1>2. Head(queue) \in Functor
  BY <1>1
<1>3. Head(queue).op = "add" => Head(queue).timer[1] \in Queued
  BY <1>1 DEF Queued
<1>4. AddedOnce'
  BY <1>1 DEF AddedOnce
<1>5. \A x : x \in Queued' <=>
        x \in IF Head(queue).op = "add"
              THEN Queued \ {Head(queue).timer[1]} ELSE Queued
  <2>1. ASSUME NEW x, x \in Queued' PROVE x \in Queued
    BY <1>1, <2>1 DEF Queued
  <2>2. ASSUME NEW x, x \in Queued', Head(queue).op = "add"
        PROVE  x # Head(queue).timer[1]
    <3>1. PICK i \in 1 .. Len(queue) - 1 :
             queue[i + 1].op = "add" /\ queue[i + 1].timer[1] = x
      BY <1>1, <2>2 DEF Queued
    <3> QED BY <1>1, <2>2, <3>1 DEF AddedOnce
  <2>3. ASSUME NEW x, x \in Queued,
               Head(queue).op = "add" => x # Head(queue).timer[1]
        PROVE  x \in Queued'
    <3>1. PICK i \in 1 .. Len(queue) : queue[i].op = "add" /\ queue[i].timer[1] = x
      BY <1>1, <2>3 DEF Queued
    <3>2. i # 1
      BY <1>1, <2>3, <3>1
    <3>3. i - 1 \in DOMAIN queue' /\ queue'[i - 1] = queue[i]
      BY <1>1, <3>2
    <3> QED BY <3>1, <3>3 DEF Queued
  <2> QED BY <2>1, <2>2, <2>3
<1> QED BY <1>2, <1>3, <1>4, <1>5

(* resetTimerfd never disarms, and never sets the timerfd too late. *)
LEMMA ResetTimerfd ==
  ASSUME clock \in Nat \ {0}, NEW when \in Nat
  PROVE  /\ resetTimerfd(when) \in Nat /\ resetTimerfd(when) # Disarmed
         /\ resetTimerfd(when) <= when \/ resetTimerfd(when) <= clock + 1
  BY DEF resetTimerfd, howMuchTimeFromNow, Disarmed

-----------------------------------------------------------------------------
(* The constructor leaves every variable in its type. *)
LEMMA TypeInit == TimerInit => TimerTypeOK
<1> SUFFICES ASSUME TimerInit PROVE TimerTypeOK
  OBVIOUS
<1> USE TimerAssumption
<1>1. callingExpiredTimers_ \in BOOLEAN /\ running \in BOOLEAN /\ active \in BOOLEAN
  BY Zenon DEF TimerInit
<1>2. heap \in [Addrs -> Timer]
  BY DEF TimerInit, NoTimer, Timer, SeqNumbers, Times
<1>3. /\ clock \in 1 .. MaxClock /\ numCreated \in SeqNumbers
      /\ now \in 0 .. MaxClock /\ timerfd \in Nat
      /\ queue \in Seq([op : {"add", "cancel"}, timer : ActiveTimer])
      /\ adding \in [Adders -> ActiveTimer \cup {<<>>}]
  BY DEF TimerInit, SeqNumbers, Disarmed
<1>4. /\ timers_ = {} /\ activeTimers_ = {} /\ cancelingTimers_ = {}
      /\ expired = {} /\ toRun = {} /\ ids = {} /\ dropped = {}
  BY DEF TimerInit
<1> QED BY <1>1, <1>2, <1>3, <1>4 DEF TimerTypeOK

(* new Timer keeps the heap well typed, and gives out the next number. *)
LEMMA NewTimerType ==
  ASSUME TimerTypeOK, NEW a \in Addrs, NEW when \in Whens, NEW i \in Intervals,
         newTimer(a, when, i)
  PROVE  /\ numCreated' = numCreated + 1 /\ numCreated' \in SeqNumbers
         /\ numCreated \in Nat
         /\ heap' \in [Addrs -> Timer]
         /\ ~Live(a)
         /\ heap'[a] = [sequence |-> numCreated + 1, expiration |-> when, interval |-> i]
         /\ heap'[a] # NoTimer
         /\ \A b \in Addrs \ {a} : heap'[b] = heap[b]
<1> USE TimerAssumption DEF TimerTypeOK, newTimer
<1>1. numCreated \in Nat /\ numCreated' = numCreated + 1 /\ numCreated' \in SeqNumbers
  BY DEF SeqNumbers
<1>2. heap'[a] = [sequence |-> numCreated + 1, expiration |-> when, interval |-> i]
  OBVIOUS
<1>3. [sequence |-> numCreated + 1, expiration |-> when, interval |-> i] \in Timer
  BY <1>1 DEF Timer, Times
<1>4. heap' \in [Addrs -> Timer]
  BY <1>3
<1>5. heap'[a] # NoTimer
  BY <1>1, <1>2 DEF NoTimer
<1>6. ~Live(a) /\ \A b \in Addrs \ {a} : heap'[b] = heap[b]
  OBVIOUS
<1> QED BY <1>1, <1>2, <1>4, <1>5, <1>6

(* addTimerInLoop keeps the indexes and the timerfd well typed. *)
LEMMA AddInLoopType ==
  ASSUME TimerTypeOK, NEW a \in Addrs, NEW timer \in Timer, addTimerInLoop(a, timer)
  PROVE  /\ timers_' \subseteq Entry /\ activeTimers_' \subseteq ActiveTimer
         /\ timerfd' \in Nat
         /\ cancelingTimers_' \subseteq ActiveTimer
         /\ callingExpiredTimers_' \in BOOLEAN /\ running' \in BOOLEAN
         /\ expired' \subseteq Entry /\ toRun' \subseteq expired'
         /\ now' \in 0 .. MaxClock
<1>1. timer.expiration \in Nat /\ timer.sequence \in SeqNumbers
  BY DEF Timer, Times
<1>2. timers_' \subseteq Entry /\ activeTimers_' \subseteq ActiveTimer
  BY <1>1 DEF TimerTypeOK, addTimerInLoop, Entry, ActiveTimer, Times
<1>3. timerfd' \in Nat
  <2>1. clock \in Nat \ {0} /\ timerfd \in Nat
    BY TimerAssumption DEF TimerTypeOK
  <2>2. resetTimerfd(timer.expiration) \in Nat
    BY <1>1, <2>1, ResetTimerfd
  <2> QED BY <2>1, <2>2 DEF addTimerInLoop
<1> QED BY <1>2, <1>3 DEF TimerTypeOK, addTimerInLoop

(* So does cancelInLoop, with the heap. *)
LEMMA CancelInLoopType ==
  ASSUME TimerTypeOK, NEW id \in ActiveTimer, cancelInLoop(id)
  PROVE  /\ timers_' \subseteq Entry /\ activeTimers_' \subseteq ActiveTimer
         /\ heap' \in [Addrs -> Timer]
         /\ cancelingTimers_' \subseteq ActiveTimer
         /\ callingExpiredTimers_' \in BOOLEAN /\ running' \in BOOLEAN
         /\ expired' \subseteq Entry /\ toRun' \subseteq expired'
         /\ now' \in 0 .. MaxClock
         /\ dropped' \subseteq SeqNumbers
<1>1. id[2] \in SeqNumbers
  BY DEF ActiveTimer
<1>2. NoTimer \in Timer
  BY TimerAssumption DEF NoTimer, Timer, SeqNumbers, Times
<1>3. heap' \in [Addrs -> Timer]
  BY <1>2 DEF cancelInLoop, TimerTypeOK
<1>4. timers_' \subseteq timers_ /\ activeTimers_' \subseteq activeTimers_
  BY DEF cancelInLoop
<1>5. cancelingTimers_' \subseteq ActiveTimer
  BY DEF cancelInLoop, TimerTypeOK
<1>6. dropped' \subseteq SeqNumbers
  BY <1>1 DEF cancelInLoop, TimerTypeOK
<1>7. UNCHANGED <<callingExpiredTimers_, expired, toRun, now, running>>
  BY DEF cancelInLoop
<1> QED BY <1>3, <1>4, <1>5, <1>6, <1>7 DEF TimerTypeOK

(* Intervals are natural numbers. *)
LEMMA IntervalType ==
  ASSUME TimerTypeOK, NEW a \in Addrs
  PROVE  heap[a].interval \in Nat
<1>1. heap[a].interval \in Intervals \cup {0}
  BY DEF TimerTypeOK, Timer
<1>2. \A i \in Intervals \cup {0} : i \in Nat
  BY TimerAssumption
<1> QED BY <1>1, <1>2

(* What getExpired takes out, and the timers that reset() puts back, are   *)
(* well typed.                                                             *)
LEMMA ResetHeapType ==
  ASSUME TimerTypeOK
  PROVE  /\ Repeating \subseteq Addrs
         /\ ResetHeap \in [Addrs -> Timer]
<1>1. Repeating \subseteq Addrs
  BY DEF Repeating, TimerTypeOK, Entry
<1>2. NoTimer \in Timer
  BY TimerAssumption DEF NoTimer, Timer, SeqNumbers, Times
<1>3. ASSUME NEW a \in Addrs
      PROVE  [heap[a] EXCEPT !.expiration = now + heap[a].interval] \in Timer
  <2>1. heap[a] \in Timer /\ now \in Nat
    BY DEF TimerTypeOK
  <2>2. heap[a].interval \in Nat
    BY IntervalType
  <2> QED BY <2>1, <2>2 DEF Timer, Times
<1>4. \A a \in Addrs : heap[a] \in Timer
  BY DEF TimerTypeOK
<1> QED BY <1>1, <1>2, <1>3, <1>4 DEF ResetHeap

(* A set of naturals has a least element. *)
LEMMA LeastOf ==
  ASSUME NEW W, W \subseteq Nat, W # {}
  PROVE  \E v \in W : \A x \in W : v <= x
<1> DEFINE R == OpToRel(<, Nat)
<1>1. PICK v \in W : \A x \in W : <<x, v>> \notin R
  <2>1. IsWellFoundedOn(R, Nat)
    BY NatLessThanWellFounded
  <2> HIDE DEF R
  <2> QED BY <2>1, WFMin
<1>2. \A x \in W : ~(x < v)
  BY <1>1 DEF OpToRel
<1> QED BY <1>2

(* The timerfd after reset(): as it was when there is no timer, or the     *)
(* earliest one has the invalid time, and set for the earliest otherwise.  *)
LEMMA RearmEarliest ==
  ASSUME clock \in Nat \ {0}, timers_' \subseteq Entry
  PROVE  \/ Rearm = timerfd /\ timers_' = {}
         \/ Rearm = timerfd /\ \E e \in timers_' : e[1] = 0
         \/ \E w \in Nat : /\ \A e \in timers_' : w <= e[1]
                           /\ Rearm = resetTimerfd(w)
<1> DEFINE W == {e[1] : e \in timers_'}
           w == CHOOSE v \in W : \A e \in timers_' : v <= e[1]
<1>1. CASE timers_' = {}
  BY <1>1 DEF Rearm
<1>2. CASE timers_' # {}
  <2>1. W \subseteq Nat /\ W # {}
    BY <1>2 DEF Entry, Times
  <2>2. \E v \in W : \A x \in W : v <= x
    BY <2>1, LeastOf
  <2>3. w \in W /\ \A e \in timers_' : w <= e[1]
    BY <2>2
  <2>4. Rearm = IF w > 0 THEN resetTimerfd(w) ELSE timerfd
    BY <1>2 DEF Rearm
  <2>5. w \in Nat
    BY <2>1, <2>3
  <2>6. CASE w > 0
    BY <2>3, <2>4, <2>5, <2>6
  <2>7. CASE ~(w > 0)
    BY <2>1, <2>3, <2>4, <2>5, <2>7
  <2> QED BY <2>6, <2>7
<1> QED BY <1>1, <1>2

(* The entries of the functor that runs are well typed. *)
LEMMA HeadType ==
  ASSUME TimerTypeOK, queue # <<>>
  PROVE  /\ Head(queue).timer \in ActiveTimer /\ Head(queue).timer[1] \in Addrs
         /\ Tail(queue) \in Seq([op : {"add", "cancel"}, timer : ActiveTimer])
<1>1. queue \in Seq(Functor)
  BY DEF TimerTypeOK, Functor
<1>2. Head(queue) \in Functor /\ Tail(queue) \in Seq(Functor)
  BY <1>1
<1>3. Head(queue).timer \in ActiveTimer
  BY <1>2 DEF Functor
<1> QED BY <1>2, <1>3 DEF Functor, ActiveTimer

(* Every step keeps the variables in their types. *)
LEMMA TypeStep == TimerTypeOK /\ [TimerNext]_timerVars => TimerTypeOK'
<1> SUFFICES ASSUME TimerTypeOK, [TimerNext]_timerVars PROVE TimerTypeOK'
  OBVIOUS
<1> USE TimerAssumption
<1>1. ASSUME NEW a \in Addrs, NEW when \in Whens, NEW i \in Intervals,
             addTimerHere(a, when, i)
      PROVE  TimerTypeOK'
  <2>1. newTimer(a, when, i) /\ addTimerInLoop(a, heap'[a])
    BY <1>1 DEF addTimerHere
  <2>2. /\ heap' \in [Addrs -> Timer] /\ heap'[a] \in Timer
        /\ numCreated' \in SeqNumbers
    BY <2>1, NewTimerType
  <2>3. ids' \subseteq [timer : ActiveTimer, of : SeqNumbers]
    BY <1>1, <2>2 DEF addTimerHere, TimerTypeOK, ActiveTimer
  <2>4. UNCHANGED <<clock, active, queue, adding, dropped>>
    BY <1>1 DEF addTimerHere
  <2> QED BY <2>1, <2>2, <2>3, <2>4, AddInLoopType DEF TimerTypeOK
<1>2. ASSUME NEW t \in Adders, NEW a \in Addrs, NEW when \in Whens,
             NEW i \in Intervals, addTimer(t, a, when, i)
      PROVE  TimerTypeOK'
  <2>1. heap' \in [Addrs -> Timer] /\ numCreated' \in SeqNumbers
    BY <1>2, NewTimerType DEF addTimer
  <2>2. Add(a) \in [op : {"add", "cancel"}, timer : ActiveTimer]
    BY DEF Add, ActiveTimer, SeqNumbers
  <2>3. queue' \in Seq([op : {"add", "cancel"}, timer : ActiveTimer])
    BY <1>2, <2>2 DEF addTimer, TimerTypeOK
  <2>4. adding' \in [Adders -> ActiveTimer \cup {<<>>}]
    <3>1. <<a, numCreated'>> \in ActiveTimer
      BY <2>1 DEF ActiveTimer
    <3> QED BY <1>2, <3>1 DEF addTimer, TimerTypeOK
  <2>5. UNCHANGED <<clock, queueVars, timerfd, active, ids, dropped>>
    BY <1>2 DEF addTimer
  <2> QED BY <2>1, <2>3, <2>4, <2>5 DEF TimerTypeOK, queueVars
<1>3. ASSUME NEW t \in Adders, addTimerReturns(t) PROVE TimerTypeOK'
  <2>1. adding[t] \in ActiveTimer
    BY <1>3 DEF addTimerReturns, TimerTypeOK
  <2>2. adding[t][1] \in Addrs /\ adding[t][2] \in SeqNumbers
    BY <2>1 DEF ActiveTimer
  <2>3. heap[adding[t][1]].sequence \in SeqNumbers
    BY <2>2 DEF TimerTypeOK, Timer
  <2>4. PICK s \in SeqNumbers :
          ids' = ids \cup {[timer |-> <<adding[t][1], s>>, of |-> adding[t][2]]}
    BY <1>3, <2>3 DEF addTimerReturns
  <2>5. ids' \subseteq [timer : ActiveTimer, of : SeqNumbers]
    BY <2>2, <2>4 DEF TimerTypeOK, ActiveTimer
  <2>6. adding' \in [Adders -> ActiveTimer \cup {<<>>}]
    BY <1>3 DEF addTimerReturns, TimerTypeOK
  <2>7. UNCHANGED <<clock, numCreated, heap, queueVars, timerfd, active, queue, dropped>>
    BY <1>3 DEF addTimerReturns
  <2> QED BY <2>5, <2>6, <2>7 DEF TimerTypeOK, queueVars
<1>4. ASSUME NEW id \in ids, cancelHere(id) PROVE TimerTypeOK'
  <2>1. id.timer \in ActiveTimer
    BY DEF TimerTypeOK
  <2>2. cancelInLoop(id.timer) /\ UNCHANGED <<clock, numCreated, timerfd, active, queue, adding, ids>>
    BY <1>4 DEF cancelHere
  <2> QED BY <2>1, <2>2, CancelInLoopType DEF TimerTypeOK
<1>5. ASSUME NEW id \in ids, cancel(id) PROVE TimerTypeOK'
  <2>1. id.timer \in ActiveTimer
    BY DEF TimerTypeOK
  <2>2. Cancel(id.timer) \in [op : {"add", "cancel"}, timer : ActiveTimer]
    BY <2>1 DEF Cancel
  <2>3. queue' \in Seq([op : {"add", "cancel"}, timer : ActiveTimer])
    BY <1>5, <2>2 DEF cancel, TimerTypeOK
  <2> QED BY <1>5, <2>3 DEF cancel, TimerTypeOK, queueVars
<1>6. CASE RunTimerFunctor
  <2> DEFINE f == Head(queue)
  <2>1. /\ f.timer \in ActiveTimer /\ f.timer[1] \in Addrs
        /\ queue' \in Seq([op : {"add", "cancel"}, timer : ActiveTimer])
    BY <1>6, HeadType DEF RunTimerFunctor
  <2>2. UNCHANGED <<clock, numCreated, active, adding, ids>>
    BY <1>6 DEF RunTimerFunctor
  <2>3. CASE addTimerInLoop(f.timer[1], heap[f.timer[1]]) /\ UNCHANGED <<heap, dropped>>
    <3>1. heap[f.timer[1]] \in Timer
      BY <2>1 DEF TimerTypeOK
    <3> HIDE DEF f
    <3> QED BY <2>1, <2>2, <2>3, <3>1, AddInLoopType DEF TimerTypeOK
  <2>4. CASE cancelInLoop(f.timer) /\ UNCHANGED timerfd
    <3> HIDE DEF f
    <3> QED BY <2>1, <2>2, <2>4, CancelInLoopType DEF TimerTypeOK
  <2> QED BY <1>6, <2>3, <2>4 DEF RunTimerFunctor
<1>7. CASE Poll
  BY <1>7 DEF Poll, TimerTypeOK, queueVars
<1>8. CASE TimerQueue_handleRead
  <2>1. getExpired(clock) \subseteq timers_
    BY DEF getExpired
  <2>2. timerfd' \in Nat /\ now' \in 0 .. MaxClock
    BY <1>8 DEF TimerQueue_handleRead, TimerTypeOK, Disarmed
  <2>3. timers_' \subseteq Entry /\ activeTimers_' \subseteq ActiveTimer
        /\ cancelingTimers_' \subseteq ActiveTimer
    BY <1>8 DEF TimerQueue_handleRead, TimerTypeOK
  <2> QED BY <1>8, <2>1, <2>2, <2>3 DEF TimerQueue_handleRead, TimerTypeOK
<1>9. ASSUME NEW e \in toRun, RunTimer(e) PROVE TimerTypeOK'
  BY <1>9 DEF RunTimer, TimerTypeOK
<1>10. CASE reset
  <2>1. heap' \in [Addrs -> Timer] /\ Repeating \subseteq Addrs
    BY <1>10, ResetHeapType DEF reset
  <2>2. timers_' \subseteq Entry
    <3>1. \A a \in Repeating : heap'[a].expiration \in Times
      BY <2>1 DEF Timer
    <3>2. timers_' = timers_ \cup {<<heap'[a].expiration, a>> : a \in Repeating}
      BY <1>10 DEF reset
    <3> QED BY <2>1, <3>1, <3>2 DEF Entry, TimerTypeOK
  <2>3. activeTimers_' \subseteq ActiveTimer
    <3>1. \A a \in Repeating : heap[a].sequence \in SeqNumbers
      BY <2>1 DEF Timer, TimerTypeOK
    <3>2. activeTimers_' = activeTimers_ \cup {ActiveOf(a) : a \in Repeating}
      BY <1>10 DEF reset
    <3> QED BY <2>1, <3>1, <3>2 DEF ActiveOf, ActiveTimer, TimerTypeOK
  <2>4. timerfd' \in Nat
    <3>1. clock \in Nat \ {0} /\ timerfd \in Nat
      BY DEF TimerTypeOK
    <3>2. timerfd' = Rearm
      BY <1>10 DEF reset
    <3> QED BY <2>2, <3>1, <3>2, RearmEarliest, ResetTimerfd
  <2>5. /\ callingExpiredTimers_' = FALSE /\ running' = FALSE
        /\ expired' = {} /\ toRun' = {}
        /\ UNCHANGED <<clock, numCreated, cancelingTimers_, now, active,
                       queue, adding, ids, dropped>>
    BY <1>10 DEF reset
  <2> QED BY <2>1, <2>2, <2>3, <2>4, <2>5 DEF TimerTypeOK
<1>11. CASE Tick
  <2>1. clock' \in 1 .. MaxClock
    BY <1>11 DEF Tick, TimerTypeOK
  <2> QED BY <1>11, <2>1 DEF Tick, TimerTypeOK, queueVars
<1>12. CASE UNCHANGED timerVars
  BY <1>12 DEF timerVars, queueVars, TimerTypeOK
<1> QED
  BY <1>1, <1>2, <1>3, <1>4, <1>5, <1>6, <1>7, <1>8, <1>9, <1>10, <1>11, <1>12
  DEF TimerNext, TimerLoopStep

(* The timer queue's state stays well formed (TimerQueue.h). *)
THEOREM TypeCorrect == TimerSpec => []TimerTypeOK
  BY TypeInit, TypeStep, PTL DEF TimerSpec

-----------------------------------------------------------------------------
(* The actions, one by one. *)

(* The pieces of the invariant that a step is shown to keep. *)
Rest ==
  /\ HeapInv /\ BatchInv /\ AddedOnce /\ (\A a \in Addrs : OwnerOf(a))
  /\ IndexesAgree /\ DroppedInv /\ InvalidIsArmed /\ NeverSleepsPastTimer

(* IInv is TypeOK and these pieces, before a step and after it. *)
LEMMA InvIsRest ==
  /\ IInv <=> TimerTypeOK /\ Rest
  /\ TimerTypeOK' => (IInv' <=> Rest')
<1>1. IInv <=> TimerTypeOK /\ Rest
  BY OwnerByAddr DEF IInv, Rest
<1>2. (IInv <=> TimerTypeOK /\ Rest)'
  BY <1>1, PTL
<1> QED BY <1>1, <1>2

(* An insertion keeps the timerfd in time: it is set again exactly when    *)
(* the new timer is before all others.                                     *)
LEMMA InsertKeepsArmed ==
  ASSUME TimerTypeOK, InvalidIsArmed, NeverSleepsPastTimer,
         NEW a \in Addrs, NEW timer \in Timer, addTimerInLoop(a, timer),
         UNCHANGED <<clock, active>>
  PROVE  InvalidIsArmed' /\ NeverSleepsPastTimer'
<1> DEFINE w == timer.expiration
           first == \A e \in timers_ : w < e[1]
<1>1. /\ w \in Nat /\ clock \in Nat \ {0} /\ timerfd \in Nat
      /\ \A e \in timers_ : e[1] \in Nat
  BY TimerAssumption DEF TimerTypeOK, Timer, Times, Entry
<1>2. /\ timers_' = timers_ \cup {<<w, a>>}
      /\ timerfd' = IF first THEN resetTimerfd(w) ELSE timerfd
      /\ callingExpiredTimers_' = callingExpiredTimers_
  BY DEF addTimerInLoop
<1>3. <<w, a>>[1] = w
  OBVIOUS
<1>4. CASE first
  <2>1. /\ timerfd' # Disarmed /\ timerfd' \in Nat
        /\ timerfd' <= w \/ timerfd' <= clock + 1
    BY <1>1, <1>2, <1>4, ResetTimerfd
  <2>2. \A e \in timers_' : e[1] \in Nat /\ w <= e[1]
    BY <1>1, <1>2, <1>3, <1>4
  <2>3. \A e \in timers_' : timerfd' <= e[1] \/ timerfd' <= clock + 1
    <3> HIDE DEF w
    <3> QED BY <1>1, <2>1, <2>2
  <2>4. \A e \in timers_' : e[1] = 0 => timerfd' <= clock + 1
    <3> HIDE DEF w
    <3> QED BY <1>1, <2>1, <2>3
  <2> QED BY <2>1, <2>3, <2>4 DEF InvalidIsArmed, NeverSleepsPastTimer
<1>5. CASE ~first
  <2>1. PICK d \in timers_ : d[1] <= w
    BY <1>1, <1>5
  <2>2. timerfd' = timerfd
    BY <1>2, <1>5
  <2>3. InvalidIsArmed'
    BY <1>1, <1>2, <1>3, <2>1, <2>2 DEF InvalidIsArmed
  <2>4. NeverSleepsPastTimer'
    BY <1>1, <1>2, <1>3, <2>1, <2>2 DEF NeverSleepsPastTimer
  <2> QED BY <2>3, <2>4
<1> QED BY <1>4, <1>5

(* A timer that is created gets a number nobody has. *)
LEMMA NewTimerHeap ==
  ASSUME TimerTypeOK, HeapInv, DroppedInv,
         NEW a \in Addrs, NEW when \in Whens, NEW i \in Intervals,
         newTimer(a, when, i)
  PROVE  /\ HeapInv'
         /\ dropped \subseteq 1 .. numCreated'
         /\ heap'[a].sequence \notin dropped
<1>1. /\ numCreated' = numCreated + 1 /\ numCreated \in Nat /\ ~Live(a)
      /\ heap'[a].sequence = numCreated + 1
      /\ \A b \in Addrs \ {a} : heap'[b] = heap[b]
  <2>1. heap'[a] = [sequence |-> numCreated + 1, expiration |-> when, interval |-> i]
    BY NewTimerType
  <2> QED BY <2>1, NewTimerType
<1>2. \A b \in Addrs \ {a} :
         heap'[b] # NoTimer => heap'[b].sequence \in 1 .. numCreated
  BY <1>1 DEF HeapInv, Live
<1>3. HeapInv'
  BY <1>1, <1>2 DEF HeapInv, Live
<1>4. dropped \subseteq 1 .. numCreated /\ numCreated + 1 \notin 1 .. numCreated
  BY <1>1 DEF DroppedInv
<1> QED BY <1>1, <1>3, <1>4

(* addTimer on the loop's thread. *)
LEMMA AddHereStep ==
  ASSUME TimerTypeOK, TimerTypeOK', Rest,
         NEW a \in Addrs, NEW when \in Whens, NEW i \in Intervals,
         addTimerHere(a, when, i)
  PROVE  Rest'
<1>1. newTimer(a, when, i) /\ addTimerInLoop(a, heap'[a])
      /\ UNCHANGED <<clock, active, queue, adding, dropped>>
  BY DEF addTimerHere
<1>2. /\ ~Live(a) /\ heap'[a] # NoTimer /\ heap'[a] \in Timer
      /\ \A b \in Addrs \ {a} : heap'[b] = heap[b]
  BY <1>1, NewTimerType DEF TimerTypeOK
<1>3. /\ timers_' = timers_ \cup {<<heap'[a].expiration, a>>}
      /\ activeTimers_' = activeTimers_ \cup {<<a, heap'[a].sequence>>}
      /\ UNCHANGED <<cancelingTimers_, callingExpiredTimers_, expired>>
  BY <1>1 DEF addTimerInLoop
<1>4. a \notin Queued /\ a \notin Scheduled /\ a \notin Firing
  BY <1>2 DEF Rest, OwnerOf
<1>5. Queued' = Queued /\ Firing' = Firing /\ Scheduled' = Scheduled \cup {a}
  <2>1. Queued' = Queued
    BY <1>1 DEF Queued
  <2>2. Firing' = Firing
    BY <1>3 DEF Firing
  <2>3. Scheduled' = Scheduled \cup {a}
    <3> DEFINE x == <<heap'[a].expiration, a>>
    <3>1. timers_' = timers_ \cup {x} /\ x[2] = a
      BY <1>3
    <3> HIDE DEF x
    <3> QED BY <3>1 DEF Scheduled
  <2> QED BY <2>1, <2>2, <2>3
<1>6. HeapInv' /\ dropped' \subseteq 1 .. numCreated' /\ heap'[a].sequence \notin dropped
  BY <1>1, NewTimerHeap DEF Rest
<1>7. BatchInv'
  BY <1>1, <1>2, <1>3, <1>4, OwnersAreAddrs DEF Rest, BatchInv, Firing, Live, EntryOf
<1>8. AddedOnce'
  BY <1>1 DEF Rest, AddedOnce
<1>9. \A b \in Addrs : OwnerOf(b)'
  BY <1>2, <1>4, <1>5 DEF Rest, OwnerOf, Live
<1>10. IndexesAgree'
  <2>1. \A e \in timers_ : e[2] \in Addrs \ {a}
    BY <1>4, OwnersAreAddrs DEF Scheduled
  <2>2. \A e \in timers_' : Live(e[2])' /\ e = EntryOf(e[2])'
    BY <1>2, <1>3, <2>1 DEF Rest, IndexesAgree, Live, EntryOf
  <2>3. activeTimers_' = {ActiveOf(e[2])' : e \in timers_'}
    <3>1. activeTimers_ = {ActiveOf(e[2])' : e \in timers_}
      BY <1>2, <2>1 DEF Rest, IndexesAgree, ActiveOf
    <3>2. ActiveOf(a)' = <<a, heap'[a].sequence>>
      BY DEF ActiveOf
    <3>3. {ActiveOf(e[2])' : e \in timers_'} = {ActiveOf(e[2])' : e \in timers_} \cup {ActiveOf(a)'}
      <4> DEFINE x == <<heap'[a].expiration, a>>
      <4>1. timers_' = timers_ \cup {x} /\ x[2] = a
        BY <1>3
      <4> HIDE DEF x
      <4> QED BY <4>1
    <3> QED BY <1>3, <3>1, <3>2, <3>3
  <2> QED BY <2>2, <2>3 DEF IndexesAgree
<1>11. DroppedInv'
  BY <1>1, <1>2, <1>3, <1>5, <1>6 DEF Rest, DroppedInv, Live, ActiveOf
<1>12. InvalidIsArmed' /\ NeverSleepsPastTimer'
  BY <1>1, <1>2, InsertKeepsArmed DEF Rest
<1> QED BY <1>6, <1>7, <1>8, <1>9, <1>10, <1>11, <1>12 DEF Rest

(* addTimer in another thread: the functor owns the timer. *)
LEMMA AddStep ==
  ASSUME TimerTypeOK, TimerTypeOK', Rest, NEW t \in Adders,
         NEW a \in Addrs, NEW when \in Whens, NEW i \in Intervals,
         addTimer(t, a, when, i)
  PROVE  Rest'
<1>1. newTimer(a, when, i) /\ queue' = Append(queue, Add(a))
      /\ UNCHANGED <<clock, queueVars, timerfd, active, ids, dropped>>
  BY DEF addTimer
<1>2. /\ ~Live(a) /\ heap'[a] # NoTimer
      /\ \A b \in Addrs \ {a} : heap'[b] = heap[b]
  BY <1>1, NewTimerType
<1>3. a \notin Queued /\ a \notin Scheduled /\ a \notin Firing
  BY <1>2 DEF Rest, OwnerOf
<1>4. /\ Add(a) \in Functor /\ Add(a).op = "add" /\ Add(a).timer[1] = a
  BY TimerAssumption DEF Add, Functor, ActiveTimer, SeqNumbers
<1>5. Queued' = Queued \cup {a} /\ Firing' = Firing /\ Scheduled' = Scheduled
  <2>1. Queued' = Queued \cup {a}
    BY <1>1, <1>4, QueuedAppend
  <2> QED BY <1>1, <2>1 DEF queueVars, Firing, Scheduled
<1>6. HeapInv' /\ dropped' \subseteq 1 .. numCreated' /\ heap'[a].sequence \notin dropped
  BY <1>1, NewTimerHeap DEF Rest
<1>7. BatchInv'
  BY <1>1, <1>2, <1>3, OwnersAreAddrs DEF Rest, BatchInv, Firing, Live, EntryOf, queueVars
<1>8. AddedOnce'
  <2>1. /\ queue \in Seq(Functor)
        /\ DOMAIN queue = 1 .. Len(queue) /\ DOMAIN queue' = 1 .. Len(queue) + 1
        /\ queue'[Len(queue) + 1] = Add(a)
        /\ \A k \in 1 .. Len(queue) : queue'[k] = queue[k]
        /\ Len(queue) \in Nat
    BY <1>1 DEF TimerTypeOK, Functor
  <2>2. \A k \in DOMAIN queue : queue[k].op = "add" => queue[k].timer[1] # a
    BY <1>3 DEF Queued
  <2> QED BY <1>4, <2>1, <2>2 DEF Rest, AddedOnce
<1>9. \A b \in Addrs : OwnerOf(b)'
  BY <1>2, <1>3, <1>5 DEF Rest, OwnerOf, Live
<1>10. IndexesAgree'
  <2>1. \A e \in timers_ : e[2] \in Addrs \ {a}
    BY <1>3, OwnersAreAddrs DEF Scheduled
  <2>2. timers_' = timers_ /\ activeTimers_' = activeTimers_
    BY <1>1 DEF queueVars
  <2>3. \A e \in timers_' : Live(e[2])' /\ e = EntryOf(e[2])'
    BY <1>2, <2>1, <2>2 DEF Rest, IndexesAgree, Live, EntryOf
  <2>4. activeTimers_' = {ActiveOf(e[2])' : e \in timers_'}
    BY <1>2, <2>1, <2>2 DEF Rest, IndexesAgree, ActiveOf
  <2> QED BY <2>3, <2>4 DEF IndexesAgree
<1>11. DroppedInv'
  BY <1>1, <1>2, <1>5, <1>6 DEF Rest, DroppedInv, Live, ActiveOf, queueVars
<1>12. InvalidIsArmed' /\ NeverSleepsPastTimer'
  BY <1>1 DEF Rest, InvalidIsArmed, NeverSleepsPastTimer, queueVars
<1> QED BY <1>6, <1>7, <1>8, <1>9, <1>10, <1>11, <1>12 DEF Rest

(* The functor of addTimer: the index takes the timer over. *)
LEMMA RunAddStep ==
  ASSUME TimerTypeOK, TimerTypeOK', Rest, queue # <<>>, queue' = Tail(queue),
         Head(queue).op = "add",
         addTimerInLoop(Head(queue).timer[1], heap[Head(queue).timer[1]]),
         UNCHANGED <<clock, numCreated, heap, active, dropped>>
  PROVE  Rest'
<1> DEFINE a == Head(queue).timer[1]
           x == <<heap[a].expiration, a>>
<1>1. a \in Queued /\ Queued' = Queued \ {a} /\ AddedOnce'
  BY QueuedTail DEF Rest
<1>2. a \in Addrs /\ heap[a] \in Timer
  BY HeadType DEF TimerTypeOK
<1>3. /\ timers_' = timers_ \cup {x} /\ x[2] = a /\ x = EntryOf(a)
      /\ activeTimers_' = activeTimers_ \cup {ActiveOf(a)}
      /\ UNCHANGED <<cancelingTimers_, callingExpiredTimers_, expired>>
  BY DEF addTimerInLoop, ActiveOf, EntryOf
<1>4. InvalidIsArmed' /\ NeverSleepsPastTimer'
  BY <1>2, InsertKeepsArmed DEF Rest
<1> HIDE DEF x, a
<1>5. Live(a) /\ a \notin Scheduled /\ a \notin Firing
  BY <1>1, <1>2 DEF Rest, OwnerOf
<1>6. Firing' = Firing /\ Scheduled' = Scheduled \cup {a}
  BY <1>3 DEF Firing, Scheduled
<1>7. HeapInv' /\ DroppedInv'
  BY <1>3, <1>6 DEF Rest, HeapInv, DroppedInv, Live, ActiveOf
<1>8. BatchInv'
  BY <1>3 DEF Rest, BatchInv, Live, EntryOf
<1>9. \A b \in Addrs : OwnerOf(b)'
  BY <1>1, <1>5, <1>6 DEF Rest, OwnerOf, Live
<1>10. IndexesAgree'
  <2>1. \A e \in timers_' : Live(e[2])' /\ e = EntryOf(e[2])'
    BY <1>3, <1>5 DEF Rest, IndexesAgree, Live, EntryOf
  <2>2. activeTimers_' = {ActiveOf(e[2])' : e \in timers_'}
    BY <1>3 DEF Rest, IndexesAgree, ActiveOf
  <2> QED BY <2>1, <2>2 DEF IndexesAgree
<1> QED BY <1>1, <1>4, <1>7, <1>8, <1>9, <1>10 DEF Rest

(* What cancelInLoop does to a timer that is in the index, and what it     *)
(* does to any other.                                                      *)
LEMMA CancelFound ==
  ASSUME TimerTypeOK, Rest, NEW id \in activeTimers_, cancelInLoop(id)
  PROVE  /\ id[1] \in Scheduled /\ id[1] \in Addrs /\ Live(id[1])
         /\ id = ActiveOf(id[1])
         /\ timers_' = {e \in timers_ : e[2] # id[1]}
         /\ activeTimers_' = activeTimers_ \ {id}
         /\ heap' = [heap EXCEPT ![id[1]] = NoTimer]
         /\ dropped' = dropped \cup {id[2]}
         /\ UNCHANGED <<cancelingTimers_, callingExpiredTimers_, expired>>
<1>1. PICK d \in timers_ : id = ActiveOf(d[2])
  BY DEF Rest, IndexesAgree
<1>2. id[1] = d[2]
  BY <1>1 DEF ActiveOf
<1>3. id[1] \in Scheduled /\ id[1] \in Addrs /\ Live(id[1]) /\ id = ActiveOf(id[1])
  BY <1>1, <1>2, OwnersAreAddrs DEF Scheduled, Rest, IndexesAgree
<1>4. timers_' = timers_ \ {EntryOf(id[1])}
  BY DEF cancelInLoop
<1>5. \A e \in timers_ : e = EntryOf(id[1]) <=> e[2] = id[1]
  BY <1>1, <1>2 DEF Rest, IndexesAgree
<1> QED BY <1>3, <1>4, <1>5 DEF cancelInLoop

(* cancelInLoop, on the loop's thread or by a functor. *)
LEMMA CancelStep ==
  ASSUME TimerTypeOK, TimerTypeOK', Rest, NEW id \in ActiveTimer, cancelInLoop(id),
         AddedOnce', Queued' = Queued,
         UNCHANGED <<clock, numCreated, timerfd, active>>
  PROVE  Rest'
<1>1. CASE id \in activeTimers_
  <2> DEFINE a == id[1]
  <2>1. /\ a \in Scheduled /\ a \in Addrs /\ Live(a) /\ id = ActiveOf(a)
        /\ timers_' = {e \in timers_ : e[2] # a}
        /\ activeTimers_' = activeTimers_ \ {id}
        /\ heap' = [heap EXCEPT ![a] = NoTimer]
        /\ dropped' = dropped \cup {heap[a].sequence}
        /\ UNCHANGED <<cancelingTimers_, callingExpiredTimers_, expired>>
    <3>1. id[2] = heap[a].sequence
      BY <1>1, CancelFound DEF ActiveOf
    <3> QED BY <1>1, <3>1, CancelFound
  <2> HIDE DEF a
  <2>2. a \notin Queued /\ a \notin Firing
    BY <2>1 DEF Rest, OwnerOf
  <2>3. heap'[a] = NoTimer /\ \A b \in Addrs \ {a} : heap'[b] = heap[b]
    BY <2>1 DEF TimerTypeOK
  <2>4. Firing' = Firing /\ Scheduled' = Scheduled \ {a}
    BY <2>1 DEF Firing, Scheduled
  <2>5. HeapInv'
    BY <2>3 DEF Rest, HeapInv, Live
  <2>6. BatchInv'
    BY <2>1, <2>2, <2>3, OwnersAreAddrs DEF Rest, BatchInv, Firing, Live, EntryOf
  <2>7. \A b \in Addrs : OwnerOf(b)'
    BY <2>2, <2>3, <2>4 DEF Rest, OwnerOf, Live
  <2>8. \A e \in timers_' : e[2] \in Addrs \ {a} /\ e \in timers_
    BY <2>1, OwnersAreAddrs DEF Scheduled
  <2>9. IndexesAgree'
    <3>1. \A e \in timers_' : Live(e[2])' /\ e = EntryOf(e[2])'
      BY <2>3, <2>8 DEF Rest, IndexesAgree, Live, EntryOf
    <3>2. {ActiveOf(e[2])' : e \in timers_'} = {ActiveOf(e[2]) : e \in timers_'}
      BY <2>3, <2>8 DEF ActiveOf
    <3>3. \A e \in timers_ : e[2] # a <=> ActiveOf(e[2]) # id
      BY <2>1 DEF ActiveOf
    <3>4. activeTimers_' = {ActiveOf(e[2]) : e \in timers_'}
      BY <2>1, <3>3 DEF Rest, IndexesAgree
    <3> QED BY <3>1, <3>2, <3>4 DEF IndexesAgree
  <2>10. DroppedInv'
    <3>1. heap[a].sequence \in 1 .. numCreated
      BY <2>1 DEF Rest, HeapInv
    <3>2. \A b \in Addrs \ {a} : Live(b) => heap[b].sequence # heap[a].sequence
      BY <2>1 DEF Rest, HeapInv
    <3>3. dropped' \subseteq 1 .. numCreated'
      BY <2>1, <3>1 DEF Rest, DroppedInv
    <3>4. ASSUME NEW b \in Addrs, Live(b)', heap'[b].sequence \in dropped'
          PROVE  b \in Firing' /\ ActiveOf(b)' \in cancelingTimers_'
      <4>1. b # a /\ heap'[b] = heap[b] /\ Live(b) /\ heap[b].sequence \in dropped
        BY <2>1, <2>3, <3>2, <3>4 DEF Live
      <4>2. b \in Firing /\ ActiveOf(b) \in cancelingTimers_
        BY <4>1 DEF Rest, DroppedInv
      <4> QED BY <2>1, <2>4, <4>1, <4>2 DEF ActiveOf
    <3> QED BY <3>3, <3>4 DEF DroppedInv
  <2>11. InvalidIsArmed' /\ NeverSleepsPastTimer'
    BY <2>1, <2>8 DEF Rest, InvalidIsArmed, NeverSleepsPastTimer
  <2> QED BY <2>5, <2>6, <2>7, <2>9, <2>10, <2>11 DEF Rest
<1>2. CASE id \notin activeTimers_
  <2>1. /\ UNCHANGED <<timers_, activeTimers_, heap, callingExpiredTimers_, expired>>
        /\ cancelingTimers_' = IF callingExpiredTimers_
                               THEN cancelingTimers_ \cup {id} ELSE cancelingTimers_
        /\ dropped' = IF id \in ExpiredTimers THEN dropped \cup {id[2]} ELSE dropped
    BY <1>2 DEF cancelInLoop
  <2>2. Firing' = Firing /\ Scheduled' = Scheduled
    BY <2>1 DEF Firing, Scheduled
  <2>3. HeapInv' /\ BatchInv' /\ IndexesAgree'
    BY <2>1 DEF Rest, HeapInv, BatchInv, IndexesAgree, Live, EntryOf, ActiveOf
  <2>4. \A b \in Addrs : OwnerOf(b)'
    BY <2>1, <2>2 DEF Rest, OwnerOf, Live
  <2>5. DroppedInv'
    <3>1. CASE id \in ExpiredTimers
      <4>1. PICK e \in expired : id = ActiveOf(e[2])
        BY <3>1 DEF ExpiredTimers
      <4>2. /\ e[2] \in Addrs /\ e[2] \in Firing /\ Live(e[2])
            /\ callingExpiredTimers_ /\ id[2] = heap[e[2]].sequence
        BY <4>1, OwnersAreAddrs DEF Firing, Rest, BatchInv, ActiveOf
      <4>3. dropped' = dropped \cup {heap[e[2]].sequence}
            /\ cancelingTimers_' = cancelingTimers_ \cup {ActiveOf(e[2])}
        BY <2>1, <3>1, <4>1, <4>2
      <4>4. heap[e[2]].sequence \in 1 .. numCreated
        BY <4>2 DEF Rest, HeapInv
      <4>5. \A b \in Addrs : Live(b) /\ heap[b].sequence = heap[e[2]].sequence => b = e[2]
        BY <4>2 DEF Rest, HeapInv
      <4>6. dropped' \subseteq 1 .. numCreated'
        BY <4>3, <4>4 DEF Rest, DroppedInv
      <4>7. ASSUME NEW b \in Addrs, Live(b), heap[b].sequence \in dropped'
            PROVE  b \in Firing /\ ActiveOf(b) \in cancelingTimers_'
        BY <4>2, <4>3, <4>5, <4>7 DEF Rest, DroppedInv
      <4> QED BY <2>1, <2>2, <4>6, <4>7 DEF DroppedInv, Live, ActiveOf
    <3>2. CASE id \notin ExpiredTimers
      BY <2>1, <2>2, <3>2 DEF Rest, DroppedInv, Live, ActiveOf
    <3> QED BY <3>1, <3>2
  <2>6. InvalidIsArmed' /\ NeverSleepsPastTimer'
    BY <2>1 DEF Rest, InvalidIsArmed, NeverSleepsPastTimer
  <2> QED BY <2>3, <2>4, <2>5, <2>6 DEF Rest
<1> QED BY <1>1, <1>2

(* cancel in another thread: a functor more, and not one that brings a     *)
(* timer.                                                                  *)
LEMMA CancelQueueStep ==
  ASSUME TimerTypeOK, TimerTypeOK', Rest, NEW id \in ids, cancel(id)
  PROVE  Rest'
<1> DEFINE f == Cancel(id.timer)
<1>1. queue' = Append(queue, f) /\ f.op = "cancel" /\ f \in Functor
  BY DEF cancel, Cancel, TimerTypeOK, Functor
<1> HIDE DEF f
<1>2. Queued' = Queued
  BY <1>1, QueuedAppend
<1>3. AddedOnce'
  <2>1. /\ queue \in Seq(Functor)
        /\ DOMAIN queue = 1 .. Len(queue) /\ DOMAIN queue' = 1 .. Len(queue) + 1
        /\ queue'[Len(queue) + 1] = f
        /\ \A k \in 1 .. Len(queue) : queue'[k] = queue[k]
        /\ Len(queue) \in Nat
    BY <1>1 DEF TimerTypeOK, Functor
  <2> QED BY <1>1, <2>1 DEF Rest, AddedOnce
<1>4. UNCHANGED <<clock, numCreated, heap, queueVars, timerfd, active, dropped>>
  BY DEF cancel
<1>5. \A b \in Addrs : OwnerOf(b)'
  BY <1>2, <1>4 DEF Rest, OwnerOf, Live, Scheduled, Firing, queueVars
<1> QED
  BY <1>3, <1>4, <1>5
  DEF Rest, HeapInv, BatchInv, IndexesAgree, DroppedInv, InvalidIsArmed,
      NeverSleepsPastTimer, Live, EntryOf, ActiveOf, Firing, queueVars

(* The beginning of handleRead: the batch takes over what has expired.     *)
(* Nothing that is left has the invalid time, which is before any other.   *)
LEMMA HandleReadStep ==
  ASSUME TimerTypeOK, TimerTypeOK', Rest, TimerQueue_handleRead
  PROVE  Rest'
<1> DEFINE X == getExpired(clock)
<1>1. /\ X \subseteq timers_ /\ \A e \in timers_ : e \in X <=> e[1] <= clock
      /\ expired' = X /\ timers_' = timers_ \ X
      /\ activeTimers_' = activeTimers_ \ {ActiveOf(e[2]) : e \in X}
      /\ callingExpiredTimers_' = TRUE /\ active' = FALSE
      /\ UNCHANGED <<heap, numCreated, queue, dropped, clock>>
  BY DEF TimerQueue_handleRead, getExpired
<1>2. expired = {}
  BY DEF Rest, BatchInv, TimerQueue_handleRead
<1> HIDE DEF X
<1>3. \A d, e \in timers_ : d[2] = e[2] => d = e
  BY DEF Rest, IndexesAgree
<1>4. /\ Queued' = Queued /\ Firing' = {e[2] : e \in X} /\ Firing = {}
      /\ Scheduled' = {e[2] : e \in timers_ \ X}
  BY <1>1, <1>2 DEF Queued, Firing, Scheduled
<1>5. HeapInv' /\ AddedOnce'
  BY <1>1 DEF Rest, HeapInv, AddedOnce, Live
<1>6. BatchInv'
  BY <1>1 DEF Rest, BatchInv, IndexesAgree, Live, EntryOf
<1>7. \A b \in Addrs : OwnerOf(b)'
  <2> TAKE b \in Addrs
  <2>1. b \in Scheduled <=> b \in Scheduled' \/ b \in Firing'
    BY <1>1, <1>4 DEF Scheduled
  <2>2. ~(b \in Scheduled' /\ b \in Firing')
    BY <1>1, <1>3, <1>4
  <2>3. Live(b)' <=> Live(b)
    BY <1>1 DEF Live
  <2> QED BY <1>4, <2>1, <2>2, <2>3 DEF Rest, OwnerOf
<1>8. IndexesAgree'
  <2>1. \A d, e \in timers_ : ActiveOf(d[2]) = ActiveOf(e[2]) => d = e
    BY <1>3 DEF ActiveOf
  <2>2. activeTimers_' = {ActiveOf(e[2]) : e \in timers_ \ X}
    <3>1. activeTimers_ = {ActiveOf(e[2]) : e \in timers_}
      BY DEF Rest, IndexesAgree
    <3> QED BY <1>1, <2>1, <3>1
  <2>3. \A b : ActiveOf(b)' = ActiveOf(b)
    BY <1>1 DEF ActiveOf
  <2> QED BY <1>1, <2>2, <2>3 DEF Rest, IndexesAgree, Live, EntryOf
<1>9. DroppedInv'
  BY <1>1, <1>4 DEF Rest, DroppedInv, Live
<1>10. InvalidIsArmed'
  <2>1. \A e \in timers_ : e[1] \in Nat
    BY DEF TimerTypeOK, Entry, Times
  <2>2. \A e \in timers_' : e[1] # 0
    BY <1>1, <2>1 DEF TimerTypeOK
  <2> QED BY <2>2 DEF InvalidIsArmed
<1>11. NeverSleepsPastTimer'
  BY <1>1 DEF NeverSleepsPastTimer
<1> QED BY <1>5, <1>6, <1>7, <1>8, <1>9, <1>10, <1>11 DEF Rest

(* The end of handleRead: a timer of the batch goes back into the index,   *)
(* with its new time, or is deleted; a cancelled one is deleted.           *)
LEMMA ResetStep ==
  ASSUME TimerTypeOK, TimerTypeOK', Rest, reset
  PROVE  Rest'
<1>1. /\ callingExpiredTimers_ /\ callingExpiredTimers_' = FALSE /\ expired' = {}
      /\ heap' = ResetHeap
      /\ timers_' = timers_ \cup {<<heap'[a].expiration, a>> : a \in Repeating}
      /\ activeTimers_' = activeTimers_ \cup {ActiveOf(a) : a \in Repeating}
      /\ timerfd' = Rearm
      /\ UNCHANGED <<clock, numCreated, cancelingTimers_, active, queue, dropped>>
  BY DEF reset
<1>2. Repeating \subseteq Addrs /\ Repeating \subseteq Firing
  BY ResetHeapType DEF Repeating, Firing
<1>3. \A a \in Repeating : /\ heap'[a].sequence = heap[a].sequence
                           /\ ActiveOf(a) \notin cancelingTimers_
                           /\ Live(a)
  <2>1. \A a \in Repeating : heap[a] \in Timer
    BY <1>2 DEF TimerTypeOK
  <2>2. \A a \in Repeating :
          heap'[a] = [heap[a] EXCEPT !.expiration = now + heap[a].interval]
    BY <1>1, <1>2 DEF ResetHeap
  <2>3. \A a \in Repeating : heap'[a].sequence = heap[a].sequence
    BY <2>1, <2>2 DEF Timer
  <2>4. \A a \in Repeating : ActiveOf(a) \notin cancelingTimers_
    BY DEF Repeating
  <2>5. \A a \in Repeating : Live(a)
    BY <1>2 DEF Firing, Rest, BatchInv
  <2> QED BY <2>3, <2>4, <2>5
<1>4. \A a \in Firing \ Repeating : heap'[a] = NoTimer
  BY <1>1, OwnersAreAddrs DEF ResetHeap, Firing
<1>5. \A a \in Addrs \ Firing : heap'[a] = heap[a]
  BY <1>1, <1>2 DEF ResetHeap, Firing
<1>6. \A a \in Addrs : Live(a) => heap[a].sequence \in 1 .. numCreated
  BY DEF Rest, HeapInv
<1>7. \A a \in Repeating : Live(a)'
  <2>1. numCreated \in Nat
    BY DEF TimerTypeOK, SeqNumbers
  <2>2. NoTimer.sequence = 0
    BY DEF NoTimer
  <2> QED BY <1>2, <1>3, <1>6, <2>1, <2>2 DEF Live
<1>8. \A a \in Addrs : Live(a)' => Live(a) /\ heap'[a].sequence = heap[a].sequence
  BY <1>3, <1>4, <1>5, OwnersAreAddrs DEF Live
<1>9. Queued' = Queued /\ Firing' = {} /\ Scheduled' = Scheduled \cup Repeating
  <2>1. Queued' = Queued /\ Firing' = {}
    BY <1>1 DEF Queued, Firing
  <2>2. \A b : b \in Scheduled' <=> b \in Scheduled \/ b \in Repeating
    <3> TAKE b
    <3>1. b \in Scheduled' => b \in Scheduled \/ b \in Repeating
      BY <1>1 DEF Scheduled
    <3>2. b \in Scheduled => b \in Scheduled'
      BY <1>1 DEF Scheduled
    <3>3. ASSUME b \in Repeating PROVE b \in Scheduled'
      <4> DEFINE x == <<heap'[b].expiration, b>>
      <4>1. x \in timers_' /\ x[2] = b
        BY <1>1, <3>3
      <4> HIDE DEF x
      <4> QED BY <4>1 DEF Scheduled
    <3> QED BY <3>1, <3>2, <3>3
  <2> QED BY <2>1, <2>2
<1>10. HeapInv'
  BY <1>1, <1>6, <1>8 DEF Rest, HeapInv
<1>11. BatchInv' /\ AddedOnce'
  BY <1>1 DEF Rest, BatchInv, AddedOnce
<1>12. \A b \in Addrs : OwnerOf(b)'
  <2> TAKE b \in Addrs
  <2>1. Live(b)' <=> b \in Queued \/ b \in Scheduled \/ b \in Repeating
    BY <1>2, <1>4, <1>5, <1>7 DEF Rest, OwnerOf, Live
  <2> QED BY <1>2, <1>9, <2>1 DEF Rest, OwnerOf
<1>13. IndexesAgree'
  <2>1. \A e \in timers_ : e[2] \in Addrs \ Firing
    BY OwnersAreAddrs DEF Scheduled, Rest, OwnerOf
  <2>2. \A e \in timers_ : Live(e[2])' /\ e = EntryOf(e[2])'
    BY <1>5, <2>1 DEF Rest, IndexesAgree, Live, EntryOf
  <2>3. \A e \in timers_' : Live(e[2])' /\ e = EntryOf(e[2])'
    <3>1. ASSUME NEW a \in Repeating, NEW x, x = <<heap'[a].expiration, a>>
          PROVE  Live(x[2])' /\ x = EntryOf(x[2])'
      BY <1>7, <3>1 DEF EntryOf
    <3> QED BY <1>1, <2>2, <3>1
  <2>4. \A a \in Repeating : ActiveOf(a)' = ActiveOf(a)
    BY <1>3 DEF ActiveOf
  <2>5. \A e \in timers_ : ActiveOf(e[2])' = ActiveOf(e[2])
    BY <1>5, <2>1 DEF ActiveOf
  <2>6. activeTimers_' = {ActiveOf(b)' : b \in Scheduled'}
    <3>1. activeTimers_ = {ActiveOf(b)' : b \in Scheduled}
      BY <2>5 DEF Rest, IndexesAgree, Scheduled
    <3> QED BY <1>1, <1>9, <2>4, <3>1
  <2>7. {ActiveOf(b)' : b \in Scheduled'} = {ActiveOf(e[2])' : e \in timers_'}
    BY DEF Scheduled
  <2> QED BY <2>3, <2>6, <2>7 DEF IndexesAgree
<1>14. DroppedInv'
  <2>1. ASSUME NEW a \in Addrs, Live(a)', heap'[a].sequence \in dropped PROVE FALSE
    <3>1. a \in Firing /\ ActiveOf(a) \in cancelingTimers_
      BY <1>8, <2>1 DEF Rest, DroppedInv
    <3>2. a \notin Repeating
      BY <1>3, <3>1
    <3> QED BY <1>4, <2>1, <3>1, <3>2 DEF Live
  <2> QED BY <1>1, <2>1 DEF Rest, DroppedInv
<1>15. InvalidIsArmed'
  BY <1>1 DEF InvalidIsArmed
<1>16. NeverSleepsPastTimer'
  <2>1. /\ clock \in Nat \ {0} /\ timerfd \in Nat /\ timers_' \subseteq Entry
        /\ \A e \in timers_' : e[1] \in Nat
    BY TimerAssumption DEF TimerTypeOK, Entry, Times
  <2>2. CASE timerfd' = timerfd /\ timers_' = {}
    BY <2>2 DEF NeverSleepsPastTimer
  <2>3. CASE timerfd' = timerfd /\ \E e \in timers_' : e[1] = 0
    <3>1. PICK e \in timers_' : e[1] = 0
      BY <2>3
    <3>2. CASE e \in timers_
      <4>1. timerfd # Disarmed /\ timerfd <= clock + 1
        BY <1>1, <3>1, <3>2 DEF Rest, InvalidIsArmed
      <4> QED BY <1>1, <2>3, <4>1 DEF NeverSleepsPastTimer
    <3>3. CASE e \notin timers_
      <4>1. PICK a \in Repeating : e = <<heap'[a].expiration, a>>
        BY <1>1, <3>3
      <4>2. heap[a] \in Timer /\ heap[a].interval > 0 /\ now \in Nat
        BY <1>2 DEF Repeating, TimerTypeOK
      <4>3. heap'[a] = [heap[a] EXCEPT !.expiration = now + heap[a].interval]
        BY <1>1, <1>2 DEF ResetHeap
      <4>4. heap'[a].expiration = now + heap[a].interval
        BY <4>2, <4>3 DEF Timer
      <4>5. heap[a].interval \in Nat
        BY <1>2, IntervalType
      <4>6. e[1] = now + heap[a].interval
        BY <4>1, <4>4
      <4> QED BY <3>1, <4>2, <4>5, <4>6
    <3> QED BY <3>2, <3>3
  <2>4. CASE \E w \in Nat : (\A e \in timers_' : w <= e[1]) /\ timerfd' = resetTimerfd(w)
    <3>1. PICK w \in Nat : (\A e \in timers_' : w <= e[1]) /\ timerfd' = resetTimerfd(w)
      BY <2>4
    <3>2. /\ timerfd' \in Nat /\ timerfd' # Disarmed
          /\ timerfd' <= w \/ timerfd' <= clock + 1
      BY <2>1, <3>1, ResetTimerfd
    <3> QED BY <1>1, <2>1, <3>1, <3>2 DEF NeverSleepsPastTimer
  <2> QED BY <1>1, <2>1, <2>2, <2>3, <2>4, RearmEarliest
<1> QED BY <1>10, <1>11, <1>12, <1>13, <1>14, <1>15, <1>16 DEF Rest

(* Every step preserves the inductive invariant. *)
LEMMA InvStep == IInv /\ [TimerNext]_timerVars => IInv'
<1> SUFFICES ASSUME IInv, [TimerNext]_timerVars PROVE IInv'
  OBVIOUS
<1>1. TimerTypeOK /\ TimerTypeOK' /\ Rest
  BY TypeStep, InvIsRest
<1> SUFFICES Rest'
  BY <1>1, InvIsRest
<1>2. ASSUME NEW a \in Addrs, NEW when \in Whens, NEW i \in Intervals,
             addTimerHere(a, when, i)
      PROVE  Rest'
  BY <1>1, <1>2, AddHereStep
<1>3. ASSUME NEW t \in Adders, NEW a \in Addrs, NEW when \in Whens,
             NEW i \in Intervals, addTimer(t, a, when, i)
      PROVE  Rest'
  BY <1>1, <1>3, AddStep
<1>4. ASSUME NEW id \in ids, cancelHere(id) PROVE Rest'
  <2>1. id.timer \in ActiveTimer
    BY <1>1 DEF TimerTypeOK
  <2>2. /\ cancelInLoop(id.timer)
        /\ UNCHANGED <<clock, numCreated, timerfd, active, queue>>
    BY <1>4 DEF cancelHere
  <2>3. AddedOnce' /\ Queued' = Queued
    BY <1>1, <2>2 DEF Rest, AddedOnce, Queued
  <2> QED BY <1>1, <2>1, <2>2, <2>3, CancelStep
<1>5. ASSUME NEW id \in ids, cancel(id) PROVE Rest'
  BY <1>1, <1>5, CancelQueueStep
<1>6. CASE RunTimerFunctor
  <2>1. /\ queue # <<>> /\ queue' = Tail(queue)
        /\ UNCHANGED <<clock, numCreated, active>>
    BY <1>6 DEF RunTimerFunctor
  <2>2. CASE /\ Head(queue).op = "add"
             /\ addTimerInLoop(Head(queue).timer[1], heap[Head(queue).timer[1]])
             /\ UNCHANGED <<heap, dropped>>
    BY <1>1, <2>1, <2>2, RunAddStep
  <2>3. CASE /\ Head(queue).op = "cancel"
             /\ cancelInLoop(Head(queue).timer)
             /\ UNCHANGED timerfd
    <3>1. Queued' = Queued /\ AddedOnce'
      BY <1>1, <2>1, <2>3, QueuedTail DEF Rest
    <3>2. Head(queue).timer \in ActiveTimer
      BY <1>1, <2>1, HeadType
    <3> QED BY <1>1, <2>1, <2>3, <3>1, <3>2, CancelStep
  <2> QED BY <1>6, <2>2, <2>3 DEF RunTimerFunctor
<1>7. CASE TimerQueue_handleRead
  BY <1>1, <1>7, HandleReadStep
<1>8. CASE reset
  BY <1>1, <1>8, ResetStep
<1>9. ASSUME UNCHANGED <<numCreated, heap, timers_, activeTimers_, cancelingTimers_,
                         callingExpiredTimers_, expired, timerfd, queue, dropped>>,
             \/ UNCHANGED <<clock, active>>
             \/ active' = TRUE /\ callingExpiredTimers_ = FALSE /\ clock' = clock
             \/ clock' = clock + 1 /\ active' = active
      PROVE  Rest'
  <2>1. \A b \in Addrs : OwnerOf(b)'
    BY <1>1, <1>9 DEF Rest, OwnerOf, Live, Queued, Scheduled, Firing
  <2>2. HeapInv' /\ BatchInv' /\ AddedOnce' /\ IndexesAgree' /\ DroppedInv'
    BY <1>1, <1>9
    DEF Rest, HeapInv, BatchInv, AddedOnce, IndexesAgree, DroppedInv, Live,
        EntryOf, ActiveOf, Firing
  <2>3. clock \in Nat /\ timerfd \in Nat /\ clock' \in Nat /\ clock <= clock'
    BY <1>1, <1>9, TimerAssumption DEF TimerTypeOK
  <2>4. timerfd <= clock + 1 => timerfd <= clock' + 1
    <3>1. \A t, c, d \in Nat : c <= d /\ t <= c + 1 => t <= d + 1
      OBVIOUS
    <3> QED BY <2>3, <3>1
  <2>5. InvalidIsArmed'
    <3>1. ASSUME callingExpiredTimers_, NEW e \in timers_, e[1] = 0
          PROVE  timerfd # Disarmed /\ timerfd <= clock' + 1
      <4>1. timerfd # Disarmed /\ timerfd <= clock + 1
        BY <1>1, <3>1 DEF Rest, InvalidIsArmed
      <4> QED BY <2>4, <4>1
    <3> QED BY <1>9, <3>1 DEF InvalidIsArmed, Disarmed
  <2>6. NeverSleepsPastTimer'
    <3>1. ASSUME ~callingExpiredTimers_, ~active', NEW e \in timers_
          PROVE  timerfd # Disarmed /\ (timerfd <= e[1] \/ timerfd <= clock' + 1)
      <4>1. ~active
        BY <1>9, <3>1 DEF TimerTypeOK
      <4>2. timerfd # Disarmed /\ (timerfd <= e[1] \/ timerfd <= clock + 1)
        BY <1>1, <3>1, <4>1 DEF Rest, NeverSleepsPastTimer
      <4> QED BY <2>4, <4>2
    <3> QED BY <1>9, <3>1 DEF NeverSleepsPastTimer, Disarmed
  <2> QED BY <2>1, <2>2, <2>5, <2>6 DEF Rest
<1>10. ASSUME NEW t \in Adders, addTimerReturns(t) PROVE Rest'
  BY <1>9, <1>10 DEF addTimerReturns, queueVars
<1>11. CASE Poll
  <2>1. callingExpiredTimers_ = FALSE
    BY <1>1, <1>11 DEF Poll, TimerTypeOK
  <2> QED BY <1>9, <1>11, <2>1 DEF Poll, queueVars
<1>12. ASSUME NEW e \in toRun, RunTimer(e) PROVE Rest'
  BY <1>9, <1>12 DEF RunTimer
<1>13. CASE Tick
  BY <1>9, <1>13 DEF Tick, queueVars
<1>14. CASE UNCHANGED timerVars
  BY <1>9, <1>14 DEF timerVars, queueVars
<1> QED
  BY <1>2, <1>3, <1>4, <1>5, <1>6, <1>7, <1>8, <1>10, <1>11, <1>12, <1>13, <1>14
  DEF TimerNext, TimerLoopStep

(* The inductive invariant holds of every reachable state. *)
THEOREM Invariant == TimerSpec => []IInv
<1>1. TimerInit => IInv
  <2> SUFFICES ASSUME TimerInit PROVE IInv
    OBVIOUS
  <2>1. TimerTypeOK
    BY TypeInit
  <2>2. Queued = {} /\ Scheduled = {} /\ Firing = {}
    BY DEF TimerInit, Queued, Scheduled, Firing
  <2>3. \A a \in Addrs : ~Live(a)
    BY DEF TimerInit, Live
  <2>4. \A a \in Addrs : OwnerOf(a)
    BY <2>2, <2>3 DEF OwnerOf
  <2>5. /\ HeapInv /\ BatchInv /\ AddedOnce /\ IndexesAgree /\ DroppedInv
        /\ InvalidIsArmed /\ NeverSleepsPastTimer
    BY <2>3 DEF TimerInit, HeapInv, BatchInv, AddedOnce, IndexesAgree, DroppedInv,
                InvalidIsArmed, NeverSleepsPastTimer
  <2> QED BY <2>1, <2>4, <2>5, InvIsRest DEF Rest
<1> QED BY <1>1, InvStep, PTL DEF TimerSpec

(* timers_ and activeTimers_ hold the same timers, however adds, cancels,  *)
(* batches and reused addresses interleave: the asserts of TimerQueue.cc   *)
(* 146-160, 185-200 and 238-257 never fail.                                *)
THEOREM IndexesAlwaysAgree == TimerSpec => []IndexesAgree
<1>1. IInv => IndexesAgree
  BY DEF IInv
<1> QED BY <1>1, Invariant, PTL

(* A timer that is alive is owned by one functor, by the index or by the   *)
(* batch: it is neither leaked nor deleted twice (addTimer, cancelInLoop,  *)
(* reset).                                                                 *)
THEOREM TimersHaveOneOwner == TimerSpec => []OneOwner
<1>1. IInv => OneOwner
  BY DEF IInv
<1> QED BY <1>1, Invariant, PTL

(* The loop never sleeps past a timer, also not past one whose time is the *)
(* invalid one that reset() does not set the timerfd for (TimerQueue.cc    *)
(* 222-230).                                                               *)
THEOREM TimerfdIsNeverLate == TimerSpec => []NeverSleepsPastTimer
<1>1. IInv => NeverSleepsPastTimer
  BY DEF IInv
<1> QED BY <1>1, Invariant, PTL

(* A timer that was cancelled while it waited or while its batch ran is    *)
(* not scheduled again (TimerQueue.cc 143-161, 211-216).                   *)
THEOREM CancelledStaysOut == TimerSpec => []DroppedStaysOut
<1>1. IInv => DroppedStaysOut
  <2> SUFFICES ASSUME IInv, NEW k \in activeTimers_, k[2] \in dropped PROVE FALSE
    BY DEF DroppedStaysOut
  <2>1. TimerTypeOK /\ Rest
    BY InvIsRest
  <2>2. PICK e \in timers_ : k = ActiveOf(e[2])
    BY <2>1 DEF Rest, IndexesAgree
  <2>3. e[2] \in Addrs /\ e[2] \in Scheduled /\ Live(e[2]) /\ k[2] = heap[e[2]].sequence
    BY <2>1, <2>2, OwnersAreAddrs DEF Rest, IndexesAgree, Scheduled, ActiveOf
  <2>4. e[2] \in Firing
    BY <2>1, <2>3 DEF Rest, DroppedInv
  <2> QED BY <2>1, <2>3, <2>4 DEF Rest, OwnerOf
<1> QED BY <1>1, Invariant, PTL
=============================================================================

----------------------------- MODULE TimerQueue -----------------------------
(***************************************************************************)
(* muduo::net::TimerQueue (muduo/net/TimerQueue.cc): the timers of one     *)
(* EventLoop, the timerfd that wakes it, and the calls addTimer and cancel *)
(* that any thread may make.                                               *)
(*                                                                         *)
(* Timers are heap objects named by their address; addresses are reused,   *)
(* which is why a TimerId carries a sequence number.  A call made by       *)
(* another thread reaches the loop through its functor queue, kept here as *)
(* module Executor describes it; a call made on the loop's own thread runs *)
(* on the spot, possibly in the middle of handleRead's callbacks.          *)
(***************************************************************************)
EXTENDS Naturals, Sequences, FiniteSets

CONSTANTS
  Adders,      \* threads other than the loop's
  Addrs,       \* what operator new may return
  MaxTimers,   \* bound on the timers created
  MaxClock,    \* bound on the clock
  Whens,       \* the times asked for; 0 is the invalid Timestamp
  Intervals,   \* the intervals asked for; 0: not repeating
  MaxQueue     \* bound on the calls in flight

ASSUME TimerAssumption ==
  /\ MaxTimers \in Nat /\ MaxClock \in Nat \ {0} /\ MaxQueue \in Nat
  /\ Intervals \subseteq Nat /\ Whens \subseteq Nat

VARIABLES
  clock,                 \* Timestamp::now()
  numCreated,            \* Timer::s_numCreated_
  heap,                  \* address -> the Timer there
  timers_, activeTimers_, cancelingTimers_, callingExpiredTimers_,
  expired,               \* handleRead's vector of entries
  toRun,                 \* those of them it has not run yet
  now,                   \* handleRead's time
  running,               \* a callback of handleRead is running
  timerfd,               \* when the timerfd expires; Disarmed
  active,                \* timerfdChannel_ is among the active channels
  queue,                 \* functors handed to the loop by other threads
  adding,                \* per caller: the timer addTimer has handed over
  ids,                   \* the TimerIds callers hold, with the timer each is of
  dropped                \* timers that cancelInLoop found

queueVars == <<timers_, activeTimers_, cancelingTimers_,
               callingExpiredTimers_, expired, toRun, now, running>>

timerVars == <<clock, numCreated, heap, queueVars, timerfd, active, queue, adding,
          ids, dropped>>

SeqNumbers == 0 .. MaxTimers
NoTimer == [sequence |-> 0, expiration |-> 0, interval |-> 0]
Times == Nat
Timer == [sequence : SeqNumbers, expiration : Times, interval : Intervals \cup {0}]
Entry == Times \X Addrs
ActiveTimer == Addrs \X SeqNumbers
Disarmed == 0

Live(a) == heap[a] # NoTimer

(* What set::find and set::erase are given for the timer at a. *)
EntryOf(a) == <<heap[a].expiration, a>>
ActiveOf(a) == <<a, heap[a].sequence>>

Add(a) == [op |-> "add", timer |-> <<a, 0>>]
Cancel(id) == [op |-> "cancel", timer |-> id]

TimerTypeOK ==
  /\ clock \in 1 .. MaxClock
  /\ numCreated \in SeqNumbers
  /\ heap \in [Addrs -> Timer]
  /\ timers_ \subseteq Entry
  /\ activeTimers_ \subseteq ActiveTimer
  /\ cancelingTimers_ \subseteq ActiveTimer
  /\ callingExpiredTimers_ \in BOOLEAN
  /\ expired \subseteq Entry
  /\ toRun \subseteq expired
  /\ now \in 0 .. MaxClock
  /\ running \in BOOLEAN
  /\ timerfd \in Nat
  /\ active \in BOOLEAN
  /\ queue \in Seq([op : {"add", "cancel"}, timer : ActiveTimer])
  /\ adding \in [Adders -> ActiveTimer \cup {<<>>}]
  /\ ids \subseteq [timer : ActiveTimer, of : SeqNumbers]
  /\ dropped \subseteq SeqNumbers

TimerInit ==
  /\ clock = 1
  /\ numCreated = 0
  /\ heap = [a \in Addrs |-> NoTimer]
  /\ timers_ = {} /\ activeTimers_ = {} /\ cancelingTimers_ = {}
  /\ callingExpiredTimers_ = FALSE
  /\ expired = {} /\ toRun = {} /\ now = 0 /\ running = FALSE
  /\ timerfd = Disarmed
  /\ active = FALSE
  /\ queue = <<>>
  /\ adding = [t \in Adders |-> <<>>]
  /\ ids = {}
  /\ dropped = {}

-----------------------------------------------------------------------------
(* The timerfd.                                                            *)

(* Faulty variant: the delay is not kept away from zero. *)
DelayOrZero(when) == IF when < clock THEN 0 ELSE when - clock

(* One tick stands for the 100 microseconds that are the least delay. *)
howMuchTimeFromNow(when) == IF when <= clock THEN 1 ELSE when - clock

(* The timerfd after timerfd_settime; a zero delay disarms it. *)
resetTimerfd(when) ==
  IF howMuchTimeFromNow(when) = 0 THEN Disarmed
                                  ELSE clock + howMuchTimeFromNow(when)

(* The timerfd has expired; the clock of the model having stopped, a delay *)
(* of one tick is over.                                                    *)
Readable ==
  /\ timerfd # Disarmed
  /\ timerfd <= clock \/ (clock = MaxClock /\ timerfd = clock + 1)

-----------------------------------------------------------------------------
(* What runs on the loop's thread for addTimer and cancel.                 *)

(* addTimerInLoop and insert, for the timer at address a. *)
addTimerInLoop(a, timer) ==
  LET earliestChanged == \A e \in timers_ : timer.expiration < e[1]
  IN  /\ timers_' = timers_ \cup {<<timer.expiration, a>>}
      /\ activeTimers_' = activeTimers_ \cup {<<a, timer.sequence>>}
      /\ timerfd' = IF earliestChanged THEN resetTimerfd(timer.expiration)
                                       ELSE timerfd
      /\ UNCHANGED <<cancelingTimers_, callingExpiredTimers_, expired, toRun,
                     now, running>>

ExpiredTimers == {ActiveOf(e[2]) : e \in expired}

(* Faulty variant: the timer is looked up by its address alone. *)
CancelByAddress(id) ==
  /\ dropped' = IF id \in activeTimers_ \cup ExpiredTimers
                THEN dropped \cup {id[2]} ELSE dropped
  /\ \/ /\ \E k \in activeTimers_ : k[1] = id[1]
        /\ timers_' = timers_ \ {EntryOf(id[1])}
        /\ activeTimers_' = activeTimers_ \ {id}
        /\ heap' = [heap EXCEPT ![id[1]] = NoTimer]
        /\ UNCHANGED cancelingTimers_
     \/ /\ ~\E k \in activeTimers_ : k[1] = id[1]
        /\ cancelingTimers_' = IF callingExpiredTimers_
                               THEN cancelingTimers_ \cup {id}
                               ELSE cancelingTimers_
        /\ UNCHANGED <<timers_, activeTimers_, heap>>
  /\ UNCHANGED <<callingExpiredTimers_, expired, toRun, now, running>>

cancelInLoop(id) ==
  /\ dropped' = IF id \in activeTimers_ \cup ExpiredTimers
                THEN dropped \cup {id[2]} ELSE dropped
  /\ \/ /\ id \in activeTimers_
        /\ timers_' = timers_ \ {EntryOf(id[1])}
        /\ activeTimers_' = activeTimers_ \ {id}
        /\ heap' = [heap EXCEPT ![id[1]] = NoTimer]
        /\ UNCHANGED cancelingTimers_
     \/ /\ id \notin activeTimers_
        /\ cancelingTimers_' = IF callingExpiredTimers_
                               THEN cancelingTimers_ \cup {id}
                               ELSE cancelingTimers_
        /\ UNCHANGED <<timers_, activeTimers_, heap>>
  /\ UNCHANGED <<callingExpiredTimers_, expired, toRun, now, running>>

-----------------------------------------------------------------------------
(* The calls.                                                              *)

(* The loop's thread runs user code: a handler or functor, or a callback   *)
(* of handleRead.                                                          *)
LoopUserCode == callingExpiredTimers_ => running

(* new Timer(cb, when, interval) at a free address. *)
newTimer(a, when, interval) ==
  /\ ~Live(a)
  /\ numCreated < MaxTimers
  /\ numCreated' = numCreated + 1
  /\ heap' = [heap EXCEPT ![a] = [sequence   |-> numCreated + 1,
                                  expiration |-> when,
                                  interval   |-> interval]]

(* addTimer called on the loop's thread. *)
addTimerHere(a, when, interval) ==
  /\ LoopUserCode
  /\ newTimer(a, when, interval)
  /\ addTimerInLoop(a, heap'[a])
  /\ ids' = ids \cup {[timer |-> <<a, numCreated'>>, of |-> numCreated']}
  /\ UNCHANGED <<clock, active, queue, adding, dropped>>

(* addTimer called by another thread, until runInLoop has returned. *)
addTimer(t, a, when, interval) ==
  /\ adding[t] = <<>>
  /\ Len(queue) < MaxQueue
  /\ newTimer(a, when, interval)
  /\ queue' = Append(queue, Add(a))
  /\ adding' = [adding EXCEPT ![t] = <<a, numCreated'>>]
  /\ UNCHANGED <<clock, queueVars, timerfd, active, ids, dropped>>

(* return TimerId(timer, timer->sequence()): if the loop has deleted the   *)
(* timer meanwhile, what is read is the sequence of the timer that now     *)
(* lives there, or anything.                                               *)
addTimerReturns(t) ==
  /\ adding[t] # <<>>
  /\ \E s \in IF Live(adding[t][1]) THEN {heap[adding[t][1]].sequence}
                                    ELSE SeqNumbers :
       ids' = ids \cup {[timer |-> <<adding[t][1], s>>, of |-> adding[t][2]]}
  /\ adding' = [adding EXCEPT ![t] = <<>>]
  /\ UNCHANGED <<clock, numCreated, heap, queueVars, timerfd, active, queue,
                 dropped>>

(* cancel called on the loop's thread. *)
cancelHere(id) ==
  /\ LoopUserCode
  /\ cancelInLoop(id.timer)
  /\ UNCHANGED <<clock, numCreated, timerfd, active, queue, adding, ids>>

(* cancel called by another thread. *)
cancel(id) ==
  /\ Len(queue) < MaxQueue
  /\ queue' = Append(queue, Cancel(id.timer))
  /\ UNCHANGED <<clock, numCreated, heap, queueVars, timerfd, active, adding,
                 ids, dropped>>

(* doPendingFunctors runs the oldest functor; it comes after the handlers. *)
RunTimerFunctor ==
  /\ queue # <<>>
  /\ ~active /\ ~callingExpiredTimers_
  /\ queue' = Tail(queue)
  /\ LET f == Head(queue)
     IN  \/ /\ f.op = "add"
            /\ addTimerInLoop(f.timer[1], heap[f.timer[1]])
            /\ UNCHANGED <<heap, dropped>>
         \/ /\ f.op = "cancel"
            /\ cancelInLoop(f.timer)
            /\ UNCHANGED timerfd
  /\ UNCHANGED <<clock, numCreated, active, adding, ids>>

-----------------------------------------------------------------------------
(* handleRead.                                                             *)

(* poll reports timerfdChannel_; other handlers may still run before it.   *)
Poll ==
  /\ ~active /\ ~callingExpiredTimers_
  /\ Readable
  /\ active' = TRUE
  /\ UNCHANGED <<clock, numCreated, heap, queueVars, timerfd, queue, adding,
                 ids, dropped>>

(* The entries before the sentry (now, UINTPTR_MAX). *)
getExpired(t) == {e \in timers_ : e[1] <= t}

(* handleRead up to its loop over the expired timers.  The read of a       *)
(* timerfd that was set again since poll fails and changes nothing.        *)
TimerQueue_handleRead ==
  /\ active
  /\ active' = FALSE
  /\ timerfd' = IF Readable THEN Disarmed ELSE timerfd
  /\ now' = clock
  /\ expired' = getExpired(clock)
  /\ toRun' = getExpired(clock)
  /\ timers_' = timers_ \ getExpired(clock)
  /\ activeTimers_' = activeTimers_ \ {ActiveOf(e[2]) : e \in getExpired(clock)}
  /\ callingExpiredTimers_' = TRUE
  /\ cancelingTimers_' = {}
  /\ UNCHANGED <<clock, numCreated, heap, running, queue, adding, ids,
                 dropped>>

(* it.second->run(), in the order of the entries; the order of equal times *)
(* is that of the addresses, which the allocator decides.                  *)
RunTimer(e) ==
  /\ callingExpiredTimers_
  /\ e \in toRun
  /\ \A d \in toRun : e[1] <= d[1]
  /\ toRun' = toRun \ {e}
  /\ running' = TRUE
  /\ UNCHANGED <<clock, numCreated, heap, timers_, activeTimers_,
                 cancelingTimers_, callingExpiredTimers_, expired, now,
                 timerfd, active, queue, adding, ids, dropped>>

(* Faulty variant: every repeating timer is put back. *)
AllRepeating == {e[2] : e \in {d \in expired : heap[d[2]].interval > 0}}

(* The addresses of the expired timers that reset() puts back. *)
Repeating ==
  {e[2] : e \in {d \in expired : /\ heap[d[2]].interval > 0
                                 /\ ActiveOf(d[2]) \notin cancelingTimers_}}

(* Faulty variant: reset() deletes only the timers that do not repeat. *)
ResetHeapLeaks ==
  [a \in Addrs |->
    IF a \in Repeating THEN [heap[a] EXCEPT !.expiration = now + heap[a].interval]
    ELSE IF a \in {e[2] : e \in expired} /\ heap[a].interval = 0 THEN NoTimer
    ELSE heap[a]]

(* Timer::restart for the timers put back, delete for the other ones. *)
ResetHeap ==
  [a \in Addrs |->
    IF a \in Repeating THEN [heap[a] EXCEPT !.expiration = now + heap[a].interval]
    ELSE IF a \in {e[2] : e \in expired} THEN NoTimer
    ELSE heap[a]]

(* Faulty variant: the timerfd is set only when a timer was put back. *)
RearmIfRepeating ==
  IF timers_' = {} \/ Repeating = {} THEN timerfd
  ELSE resetTimerfd(CHOOSE w \in {e[1] : e \in timers_'} :
                      \A e \in timers_' : w <= e[1])

(* The timerfd after reset(): set for the earliest timer, if its time is   *)
(* valid (not zero).                                                       *)
Rearm ==
  LET nextExpire == IF timers_' = {} THEN 0
                    ELSE CHOOSE w \in {e[1] : e \in timers_'} :
                           \A e \in timers_' : w <= e[1]
  IN  IF nextExpire > 0 THEN resetTimerfd(nextExpire) ELSE timerfd

(* The end of handleRead: callingExpiredTimers_ = false; reset(). *)
reset ==
  /\ callingExpiredTimers_
  /\ toRun = {}
  /\ callingExpiredTimers_' = FALSE
  /\ heap' = ResetHeap
  /\ timers_' = timers_ \cup {<<heap'[a].expiration, a>> : a \in Repeating}
  /\ activeTimers_' = activeTimers_ \cup {ActiveOf(a) : a \in Repeating}
  /\ timerfd' = Rearm
  /\ expired' = {}
  /\ running' = FALSE
  /\ UNCHANGED <<clock, numCreated, cancelingTimers_, toRun, now, active,
                 queue, adding, ids, dropped>>

Tick ==
  /\ clock < MaxClock
  /\ clock' = clock + 1
  /\ UNCHANGED <<numCreated, heap, queueVars, timerfd, active, queue, adding,
                 ids, dropped>>

-----------------------------------------------------------------------------
TimerLoopStep ==
  \/ RunTimerFunctor
  \/ Poll
  \/ TimerQueue_handleRead
  \/ \E e \in toRun : RunTimer(e)
  \/ reset

TimerNext ==
  \/ \E a \in Addrs, when \in Whens, i \in Intervals :
       \/ addTimerHere(a, when, i)
       \/ \E t \in Adders : addTimer(t, a, when, i)
  \/ \E t \in Adders : addTimerReturns(t)
  \/ \E id \in ids : cancelHere(id) \/ cancel(id)
  \/ TimerLoopStep
  \/ Tick

TimerSpec == TimerInit /\ [][TimerNext]_timerVars

(* The loop's thread is scheduled, time passes, and a batch of functors is *)
(* finite: the loop gets back to poll however many functors keep coming.   *)
TimerFairSpec ==
  TimerSpec /\ WF_timerVars(TimerLoopStep) /\ WF_timerVars(Poll) /\ WF_timerVars(Tick)

-----------------------------------------------------------------------------
(* The two indexes hold the same timers, all alive, each under its current *)
(* expiration and its own sequence: the asserts of TimerQueue.cc 146-160,  *)
(* 185-200 and 238-257, and what lets cancelInLoop find the entry.         *)
IndexesAgree ==
  /\ \A e \in timers_ : Live(e[2]) /\ e = EntryOf(e[2])
  /\ activeTimers_ = {ActiveOf(e[2]) : e \in timers_}

Queued == {queue[i].timer[1] : i \in {j \in DOMAIN queue : queue[j].op = "add"}}

(* A timer that is alive has one owner: the functor that brings it, the    *)
(* index or the expired vector.  So none is leaked, none is deleted twice, *)
(* and none that a functor or the vector points to was deleted.            *)
OneOwner ==
  LET scheduled == {e[2] : e \in timers_}
      firing    == {e[2] : e \in expired}
  IN  /\ {a \in Addrs : Live(a)} = Queued \cup scheduled \cup firing
      /\ Queued \cap scheduled = {}
      /\ Queued \cap firing = {}
      /\ scheduled \cap firing = {}

(* Outside handleRead, with a timer scheduled, the timerfd is going to     *)
(* expire no later than the earliest of them (or one tick from now, or the *)
(* handler is due anyway): the loop never sleeps past a timer.             *)
NeverSleepsPastTimer ==
  ~callingExpiredTimers_ /\ ~active =>
    \A e \in timers_ :
      timerfd # Disarmed /\ (timerfd <= e[1] \/ timerfd <= clock + 1)

(* A timer that cancelInLoop found, waiting or in the batch being run, is  *)
(* never scheduled again (TimerQueue.cc 143-161, 211-216).                 *)
DroppedStaysOut == \A k \in activeTimers_ : k[2] \notin dropped

(* A timer that is scheduled and due within the clock leaves the index: it *)
(* is run, unless it is cancelled.                                         *)
ScheduledIsServed ==
  \A a \in Addrs, s \in 1 .. MaxTimers :
    (<<a, s>> \in activeTimers_ /\ heap[a].expiration <= MaxClock)
      ~> (heap[a].sequence # s \/ heap[a].expiration > MaxClock)

-----------------------------------------------------------------------------
(* What the documentation says and the code does not do.                   *)

(* addTimer "Must be thread safe": the TimerId it returns is that of the   *)
(* timer it created.                                                       *)
IdNamesItsTimer == \A id \in ids : id.timer[2] = id.of
=============================================================================

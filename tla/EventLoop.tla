------------------------------ MODULE EventLoop ------------------------------
(***************************************************************************)
(* muduo::net::EventLoop (muduo/net/EventLoop.cc): one thread that polls,  *)
(* runs the handlers of the active channels and then the functors other    *)
(* threads, or its own handlers, have queued; and the calls that any       *)
(* thread may make on it: runInLoop, queueInLoop, quit.                    *)
(*                                                                         *)
(* A call is not atomic: queueInLoop publishes the functor under mutex_    *)
(* and writes the eventfd after it has released it, quit stores quit_ and  *)
(* writes the eventfd after it.  call[t] records where thread t is.        *)
(*                                                                         *)
(* User code (an I/O handler, a functor, or whatever the loop's thread     *)
(* does outside loop()) may make any call; it is what the actions allow    *)
(* when UserCode(LoopThread) holds.                                        *)
(***************************************************************************)
EXTENDS Naturals, Sequences, Functions

CONSTANTS Callers,       \* the threads that are not the loop's own
          LoopThread,    \* threadId_
          Functors,      \* one element per call of runInLoop or queueInLoop
          Channels,      \* the I/O channels registered with the poller
          WakeupChannel  \* wakeupChannel_

ASSUME LoopAssumption ==
  /\ LoopThread \notin Callers
  /\ WakeupChannel \notin Channels

Threads == Callers \cup {LoopThread}

VARIABLES
  loopPc,                  \* where the loop's thread is in loop()
  quit_,
  activeChannels_,         \* those still to be handled in this iteration
  ready,                   \* Channels with an event the kernel would report
  wakeupFd,                \* the eventfd's counter is not zero
  pendingFunctors_,
  functors,                \* the local vector of doPendingFunctors
  callingPendingFunctors_,
  inCallback,              \* the loop's thread is in a handler or a functor
  call,                    \* per thread: inside a call, before its wakeup
  taken,                   \* functors handed to the loop so far
  early,                   \* those its own thread queued outside loop()
  ran                      \* functors run so far, in order

vars == <<loopPc, quit_, activeChannels_, ready, wakeupFd, pendingFunctors_,
          functors, callingPendingFunctors_, inCallback, call, taken, early,
          ran>>

TypeOK ==
  /\ loopPc \in {"out", "check", "poll", "handle", "pending", "run"}
  /\ quit_ \in BOOLEAN
  /\ activeChannels_ \in SUBSET (Channels \cup {WakeupChannel})
  /\ ready \in SUBSET Channels
  /\ wakeupFd \in BOOLEAN
  /\ pendingFunctors_ \in Seq(Functors)
  /\ functors \in Seq(Functors)
  /\ callingPendingFunctors_ \in BOOLEAN
  /\ inCallback \in BOOLEAN
  /\ call \in [Threads -> {"idle", "wake"}]
  /\ taken \in SUBSET Functors
  /\ early \in SUBSET taken
  /\ ran \in Seq(Functors)

Init ==
  /\ loopPc = "out"
  /\ quit_ = FALSE
  /\ activeChannels_ = {}
  /\ ready = {}
  /\ wakeupFd = FALSE
  /\ pendingFunctors_ = <<>>
  /\ functors = <<>>
  /\ callingPendingFunctors_ = FALSE
  /\ inCallback = FALSE
  /\ call = [t \in Threads |-> "idle"]
  /\ taken = {}
  /\ early = {}
  /\ ran = <<>>

-----------------------------------------------------------------------------
(* The calls.                                                              *)

(* Thread t runs code that may call the loop. *)
UserCode(t) ==
  /\ call[t] = "idle"
  /\ t = LoopThread => inCallback \/ loopPc = "out"

isInLoopThread(t) == t = LoopThread

loopVars == <<loopPc, activeChannels_, ready, functors,
              callingPendingFunctors_, inCallback>>

(* queueInLoop, first half: push_back under mutex_. *)
queueInLoop(t, f) ==
  /\ UserCode(t)
  /\ f \notin taken
  /\ pendingFunctors_' = Append(pendingFunctors_, f)
  /\ taken' = taken \cup {f}
  /\ early' = IF isInLoopThread(t) /\ loopPc = "out" THEN early \cup {f}
                                                     ELSE early
  /\ call' = [call EXCEPT ![t] = "wake"]
  /\ UNCHANGED <<loopVars, quit_, wakeupFd, ran>>

(* runInLoop: the loop's own thread calls the functor, others queue it. *)
runInLoop(t, f) ==
  \/ /\ isInLoopThread(t)
     /\ UserCode(t)
     /\ f \notin taken
     /\ taken' = taken \cup {f}
     /\ ran' = Append(ran, f)
     /\ UNCHANGED <<loopVars, quit_, wakeupFd, pendingFunctors_, call, early>>
  \/ /\ ~isInLoopThread(t)
     /\ queueInLoop(t, f)

(* Faulty variant: quit() that never writes the eventfd. *)
quitSilently(t) ==
  /\ UserCode(t)
  /\ quit_' = TRUE
  /\ UNCHANGED <<loopVars, call, wakeupFd, pendingFunctors_, taken, early, ran>>

(* quit, first half; the loop's own thread has no second half. *)
quit(t) ==
  /\ UserCode(t)
  /\ quit_' = TRUE
  /\ call' = [call EXCEPT ![t] = IF isInLoopThread(t) THEN "idle" ELSE "wake"]
  /\ UNCHANGED <<loopVars, wakeupFd, pendingFunctors_, taken, early, ran>>

(* Faulty variant: a functor queued by a functor wakes nobody. *)
NeedsWakeupFromOthersOnly(t) == ~isInLoopThread(t)

(* The test at the end of queueInLoop; that of quit is its first disjunct. *)
NeedsWakeup(t) == ~isInLoopThread(t) \/ callingPendingFunctors_

(* Second half of queueInLoop and of quit: write the eventfd if needed. *)
wakeup(t) ==
  /\ call[t] = "wake"
  /\ wakeupFd' = (wakeupFd \/ NeedsWakeup(t))
  /\ call' = [call EXCEPT ![t] = "idle"]
  /\ UNCHANGED <<loopVars, quit_, pendingFunctors_, taken, early, ran>>

-----------------------------------------------------------------------------
(* loop(), step by step.                                                   *)

callVars == <<quit_, pendingFunctors_, call, taken, early>>

(* Entering loop(): looping_ = true; quit_ = false. *)
StartLoop ==
  /\ loopPc = "out"
  /\ call[LoopThread] = "idle"
  /\ loopPc' = "check"
  /\ quit_' = FALSE
  /\ UNCHANGED <<activeChannels_, ready, wakeupFd, pendingFunctors_, functors,
                 callingPendingFunctors_, inCallback, call, taken, early, ran>>

(* while (!quit_) *)
CheckQuit ==
  /\ loopPc = "check"
  /\ loopPc' = IF quit_ THEN "out" ELSE "poll"
  /\ UNCHANGED <<callVars, activeChannels_, ready, wakeupFd, functors,
                 callingPendingFunctors_, inCallback, ran>>

(* The channels epoll_wait would report now. *)
ReadyChannels == ready \cup (IF wakeupFd THEN {WakeupChannel} ELSE {})

PollReturns(channels) ==
  /\ loopPc = "poll"
  /\ activeChannels_' = channels
  /\ loopPc' = "handle"
  /\ UNCHANGED <<callVars, ready, wakeupFd, functors, callingPendingFunctors_,
                 inCallback, ran>>

(* poll comes back because something is ready. *)
PollReady == ReadyChannels # {} /\ PollReturns(ReadyChannels)

(* kPollTimeMs have passed, or a signal interrupted epoll_wait. *)
PollTimeout == ReadyChannels = {} /\ PollReturns({})

(* EventLoop::handleRead, the wakeup channel's read callback. *)
handleRead ==
  /\ loopPc = "handle" /\ ~inCallback
  /\ WakeupChannel \in activeChannels_
  /\ activeChannels_' = activeChannels_ \ {WakeupChannel}
  /\ wakeupFd' = FALSE
  /\ UNCHANGED <<callVars, loopPc, ready, functors, callingPendingFunctors_,
                 inCallback, ran>>

(* Channel::handleEvent of an I/O channel enters its user's callback. *)
HandleEvent(c) ==
  /\ loopPc = "handle" /\ ~inCallback
  /\ c \in activeChannels_ \ {WakeupChannel}
  /\ activeChannels_' = activeChannels_ \ {c}
  /\ ready' = ready \ {c}
  /\ inCallback' = TRUE
  /\ UNCHANGED <<callVars, loopPc, wakeupFd, functors,
                 callingPendingFunctors_, ran>>

(* A handler or a functor returns to the loop. *)
CallbackReturns ==
  /\ inCallback
  /\ call[LoopThread] = "idle"
  /\ inCallback' = FALSE
  /\ UNCHANGED <<callVars, loopPc, activeChannels_, ready, wakeupFd, functors,
                 callingPendingFunctors_, ran>>

(* All active channels are handled: eventHandling_ = false. *)
EndHandling ==
  /\ loopPc = "handle" /\ ~inCallback
  /\ activeChannels_ = {}
  /\ loopPc' = "pending"
  /\ UNCHANGED <<callVars, activeChannels_, ready, wakeupFd, functors,
                 callingPendingFunctors_, inCallback, ran>>

(* Faulty variant: the pending functors are copied, not swapped. *)
CopyPendingFunctors ==
  /\ loopPc = "pending"
  /\ callingPendingFunctors_' = TRUE
  /\ functors' = pendingFunctors_
  /\ loopPc' = "run"
  /\ UNCHANGED <<quit_, activeChannels_, ready, wakeupFd, pendingFunctors_,
                 inCallback, call, taken, early, ran>>

(* doPendingFunctors up to the end of its critical section. *)
SwapPendingFunctors ==
  /\ loopPc = "pending"
  /\ callingPendingFunctors_' = TRUE
  /\ functors' = pendingFunctors_
  /\ pendingFunctors_' = <<>>
  /\ loopPc' = "run"
  /\ UNCHANGED <<quit_, activeChannels_, ready, wakeupFd, inCallback, call,
                 taken, early, ran>>

(* for (const Functor& functor : functors) functor(); *)
RunFunctor ==
  /\ loopPc = "run" /\ ~inCallback
  /\ functors # <<>>
  /\ ran' = Append(ran, Head(functors))
  /\ functors' = Tail(functors)
  /\ inCallback' = TRUE
  /\ UNCHANGED <<callVars, loopPc, activeChannels_, ready, wakeupFd,
                 callingPendingFunctors_>>

(* The batch is run: callingPendingFunctors_ = false, back to the test. *)
EndPendingFunctors ==
  /\ loopPc = "run" /\ ~inCallback
  /\ functors = <<>>
  /\ callingPendingFunctors_' = FALSE
  /\ loopPc' = "check"
  /\ UNCHANGED <<callVars, activeChannels_, ready, wakeupFd, functors,
                 inCallback, ran>>

(* The kernel has an event for channel c. *)
EventArrives(c) ==
  /\ ready' = ready \cup {c}
  /\ c \notin ready
  /\ UNCHANGED <<callVars, loopPc, activeChannels_, wakeupFd, functors,
                 callingPendingFunctors_, inCallback, ran>>

-----------------------------------------------------------------------------
Call(t) ==
  \/ \E f \in Functors : runInLoop(t, f) \/ queueInLoop(t, f)
  \/ quit(t)

(* The steps of the loop's thread that no user code and no clock decides. *)
LoopStep ==
  \/ CheckQuit
  \/ PollReady
  \/ handleRead
  \/ \E c \in Channels : HandleEvent(c)
  \/ CallbackReturns
  \/ EndHandling
  \/ SwapPendingFunctors
  \/ RunFunctor
  \/ EndPendingFunctors

Next ==
  \/ \E t \in Threads : Call(t) \/ wakeup(t)
  \/ StartLoop
  \/ LoopStep
  \/ PollTimeout
  \/ \E c \in Channels : EventArrives(c)

Spec == Init /\ [][Next]_vars

(* Threads are scheduled and callbacks return; the poll timeout and the    *)
(* start of loop() are not relied upon.                                    *)
FairSpec ==
  /\ Spec
  /\ WF_vars(LoopStep)
  /\ \A t \in Threads : WF_vars(wakeup(t))

-----------------------------------------------------------------------------
(* The loop never goes to sleep on a queued functor: whenever a functor    *)
(* waits in pendingFunctors_ and the next thing the loop can do is poll,   *)
(* the eventfd is readable or some thread is about to write it.  Functors  *)
(* the loop's own thread queued while it was not in loop() are excepted:   *)
(* EventLoop.cc:167 writes no eventfd for them.                            *)
Unrun == {i \in DOMAIN pendingFunctors_ : pendingFunctors_[i] \notin early}

WakeupComing == wakeupFd \/ \E t \in Threads : call[t] = "wake" /\ NeedsWakeup(t)

NoLostWakeup == loopPc = "poll" /\ Unrun # {} => WakeupComing

(* callingPendingFunctors_, which only the loop's thread may trust, is set *)
(* exactly while the batch is being run, and that thread is inside a call  *)
(* only from user code: neither is in progress when the loop polls.        *)
LoopThreadConsistent ==
  /\ callingPendingFunctors_ <=> loopPc = "run"
  /\ functors # <<>> => loopPc = "run"
  /\ inCallback => loopPc \in {"handle", "run"}
  /\ call[LoopThread] = "wake" => inCallback \/ loopPc = "out"

(* What EventLoop promises as an executor (module Executor): functors run  *)
(* once each, queued ones in the order they were queued.                   *)
Promise == INSTANCE Executor WITH Width <- 1,
                                  queue <- functors \o pendingFunctors_,
                                  log <- ran

ExecutorSpec == Promise!Spec

(* A functor queued from another thread, a handler or a functor is run,    *)
(* without any help from the poll timeout, unless the loop is left first.  *)
QueuedIsRun ==
  \A f \in Functors :
    f \in taken \ early ~> f \in Range(ran) \/ loopPc = "out"

(* Once quit() is called while the loop is in loop(), loop() returns, even *)
(* if the loop was asleep in poll.                                         *)
QuitLeavesLoop == quit_ /\ loopPc # "out" ~> loopPc = "out"
=============================================================================

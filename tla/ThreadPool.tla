----------------------------- MODULE ThreadPool -----------------------------
(***************************************************************************)
(* muduo::ThreadPool (muduo/base/ThreadPool.cc): a bounded queue of tasks, *)
(* the worker threads that take them, any threads that run() them, tasks   *)
(* themselves included, and the thread that stops the pool.  Everything    *)
(* between taking and releasing mutex_ is one step, as is everything       *)
(* between waking from a wait() and the next one; a task is popped in one  *)
(* step and called in another.                                             *)
(***************************************************************************)
EXTENDS Naturals, Sequences, FiniteSets, Functions, Condition

CONSTANTS
  Workers,        \* threads_
  Producers,      \* the other threads
  Tasks,          \* one element per call of run()
  Submitters,     \* the threads that call run(): Producers, Workers in a task
  maxQueueSize_,  \* 0: unbounded
  None

ASSUME PoolAssumption ==
  /\ maxQueueSize_ \in Nat
  /\ Workers \cap Producers = {}
  /\ Submitters \subseteq Workers \cup Producers
  /\ IsFiniteSet(Workers) /\ IsFiniteSet(Submitters)
  /\ None \notin Tasks

VARIABLES
  running_, queue_, notEmpty_, notFull_,
  worker,       \* where each worker is in runInThread
  popped,       \* what take() has returned and its worker has not called
                \* yet, in the order of the pops
  submitting,   \* the task of the run() each submitter is in
  stopping,     \* stop(): "no", "joining", "returned"
  handed,       \* the tasks run() has been called with
  started       \* the tasks called so far, in the order of the calls

vars == <<running_, queue_, notEmpty_, notFull_, worker, popped, submitting,
          stopping, handed, started>>

(* A task and the worker that has popped it. *)
PoppedTask == [worker : Workers, task : Tasks]

TypeOK ==
  /\ running_ \in BOOLEAN
  /\ queue_ \in Seq(Tasks)
  /\ notEmpty_ \in SUBSET Workers
  /\ notFull_ \in SUBSET Submitters
  /\ worker \in [Workers -> {"new", "check", "take", "call", "task", "done"}]
  /\ popped \in Seq(PoppedTask)
  /\ submitting \in [Submitters -> Tasks \cup {None}]
  /\ stopping \in {"no", "joining", "returned"}
  /\ handed \in SUBSET Tasks
  /\ started \in Seq(Tasks)

Init ==
  /\ running_ = FALSE
  /\ queue_ = <<>>
  /\ notEmpty_ = {}
  /\ notFull_ = {}
  /\ worker = [w \in Workers |-> "new"]
  /\ popped = <<>>
  /\ submitting = [s \in Submitters |-> None]
  /\ stopping = "no"
  /\ handed = {}
  /\ started = <<>>

-----------------------------------------------------------------------------
(* start and stop, called by the pool's owner.                             *)

start ==
  /\ ~running_ /\ stopping = "no"
  /\ running_' = TRUE
  /\ worker' = [w \in Workers |-> "check"]
  /\ UNCHANGED <<queue_, notEmpty_, notFull_, popped, submitting, stopping,
                 handed, started>>

(* Faulty variant: stop() wakes one worker only. *)
stopNotifiesOne ==
  /\ running_
  /\ running_' = FALSE
  /\ notEmpty_' \in notify(notEmpty_)
  /\ stopping' = "joining"
  /\ UNCHANGED <<queue_, notFull_, worker, popped, submitting, handed,
                 started>>

(* stop(), its critical section. *)
stop ==
  /\ running_
  /\ running_' = FALSE
  /\ notEmpty_' = {}
  /\ stopping' = "joining"
  /\ UNCHANGED <<queue_, notFull_, worker, popped, submitting, handed,
                 started>>

(* stop(), its joins. *)
join ==
  /\ stopping = "joining"
  /\ \A w \in Workers : worker[w] = "done"
  /\ stopping' = "returned"
  /\ UNCHANGED <<running_, queue_, notEmpty_, notFull_, worker, popped,
                 submitting, handed, started>>

-----------------------------------------------------------------------------
(* run.                                                                    *)

isFull == maxQueueSize_ > 0 /\ Len(queue_) >= maxQueueSize_

(* Thread s calls run(t): it is a producer, or a worker in a task; the pool *)
(* is started and, but for the tasks, is not destroyed.                    *)
run(s, t) ==
  /\ running_ \/ stopping = "joining"
  /\ s \in Workers => worker[s] = "task"
  /\ submitting[s] = None
  /\ t \notin handed
  /\ handed' = handed \cup {t}
  /\ IF Workers = {}
     THEN started' = Append(started, t) /\ UNCHANGED submitting
     ELSE submitting' = [submitting EXCEPT ![s] = t] /\ UNCHANGED started
  /\ UNCHANGED <<running_, queue_, notEmpty_, notFull_, worker, popped,
                 stopping>>

(* Thread s is in run(), awake, and gets the mutex. *)
Submitting(s) == submitting[s] # None /\ s \notin notFull_

RunWaits(s) ==
  /\ Submitting(s)
  /\ isFull
  /\ notFull_' = notFull_ \cup {s}
  /\ UNCHANGED <<running_, queue_, notEmpty_, worker, popped, submitting,
                 stopping, handed, started>>

(* Faulty variant: a worker is woken only when the queue was empty. *)
RunQueuesQuietly(s) ==
  /\ Submitting(s)
  /\ ~isFull
  /\ queue_' = Append(queue_, submitting[s])
  /\ notEmpty_' \in (IF queue_ = <<>> THEN notify(notEmpty_) ELSE {notEmpty_})
  /\ submitting' = [submitting EXCEPT ![s] = None]
  /\ UNCHANGED <<running_, notFull_, worker, popped, stopping, handed,
                 started>>

RunQueues(s) ==
  /\ Submitting(s)
  /\ ~isFull
  /\ queue_' = Append(queue_, submitting[s])
  /\ notEmpty_' \in notify(notEmpty_)
  /\ submitting' = [submitting EXCEPT ![s] = None]
  /\ UNCHANGED <<running_, notFull_, worker, popped, stopping, handed,
                 started>>

-----------------------------------------------------------------------------
(* What the pool is seen as from outside: the tasks it has accepted and    *)
(* not begun are the popped ones and the queued ones.                      *)
Waiting == [i \in DOMAIN popped |-> popped[i].task] \o queue_

Promise == INSTANCE Executor WITH Functors <- Tasks,
                                  Width <- Cardinality(Workers),
                                  queue <- Waiting, log <- started

-----------------------------------------------------------------------------
(* runInThread and take.                                                   *)

(* while (running_) *)
CheckRunning(w) ==
  /\ worker[w] = "check"
  /\ worker' = [worker EXCEPT ![w] = IF running_ THEN "take" ELSE "done"]
  /\ UNCHANGED <<running_, queue_, notEmpty_, notFull_, popped, submitting,
                 stopping, handed, started>>

(* Worker w is in take(), awake, and gets the mutex. *)
Taking(w) == worker[w] = "take" /\ w \notin notEmpty_

TakeWaits(w) ==
  /\ Taking(w)
  /\ queue_ = <<>> /\ running_
  /\ notEmpty_' = notEmpty_ \cup {w}
  /\ UNCHANGED <<running_, queue_, notFull_, worker, popped, submitting,
                 stopping, handed, started>>

(* Faulty variant: take() does not notify notFull_ for a bounded queue. *)
NotifyUnbounded == maxQueueSize_ = 0

(* if (maxQueueSize_ > 0) notFull_.notify() *)
NotifyNotFull == maxQueueSize_ > 0

(* Faulty variant: take() returns the newest task. *)
TakeNewest(w) ==
  /\ Taking(w)
  /\ queue_ # <<>>
  /\ queue_' = SubSeq(queue_, 1, Len(queue_) - 1)
  /\ popped' = Append(popped, [worker |-> w, task |-> queue_[Len(queue_)]])
  /\ notFull_' \in (IF NotifyNotFull THEN notify(notFull_) ELSE {notFull_})
  /\ worker' = [worker EXCEPT ![w] = "call"]
  /\ UNCHANGED <<running_, notEmpty_, submitting, stopping, handed, started>>

(* take() pops a task under the mutex and returns it. *)
Take(w) ==
  /\ Taking(w)
  /\ queue_ # <<>>
  /\ queue_' = Tail(queue_)
  /\ popped' = Append(popped, [worker |-> w, task |-> Head(queue_)])
  /\ notFull_' \in (IF NotifyNotFull THEN notify(notFull_) ELSE {notFull_})
  /\ worker' = [worker EXCEPT ![w] = "call"]
  /\ UNCHANGED <<running_, notEmpty_, submitting, stopping, handed, started>>

(* if (task) task(): the worker calls what it was given, with no mutex held *)
(* and whatever the others have popped, or stopped, in the meantime.       *)
CallTask(w) ==
  /\ worker[w] = "call"
  /\ \E i \in DOMAIN popped :
       /\ popped[i].worker = w
       /\ started' = Append(started, popped[i].task)
       /\ popped' = Promise!Without(popped, i)
  /\ worker' = [worker EXCEPT ![w] = "task"]
  /\ UNCHANGED <<running_, queue_, notEmpty_, notFull_, submitting, stopping,
                 handed>>

(* take() returns no task: the pool is stopped. *)
TakeNothing(w) ==
  /\ Taking(w)
  /\ queue_ = <<>> /\ ~running_
  /\ worker' = [worker EXCEPT ![w] = "check"]
  /\ UNCHANGED <<running_, queue_, notEmpty_, notFull_, popped, submitting,
                 stopping, handed, started>>

(* task() returns, in w and not in the middle of a run() it has called. *)
TaskReturns(w) ==
  /\ worker[w] = "task"
  /\ w \in Submitters => submitting[w] = None
  /\ worker' = [worker EXCEPT ![w] = "check"]
  /\ UNCHANGED <<running_, queue_, notEmpty_, notFull_, popped, submitting,
                 stopping, handed, started>>

Spurious ==
  /\ \/ notEmpty_' \in SpuriousWakeup(notEmpty_) /\ UNCHANGED notFull_
     \/ notFull_' \in SpuriousWakeup(notFull_) /\ UNCHANGED notEmpty_
  /\ UNCHANGED <<running_, queue_, worker, popped, submitting, stopping,
                 handed, started>>

-----------------------------------------------------------------------------
WorkerStep(w) ==
  \/ CheckRunning(w) \/ TakeWaits(w) \/ Take(w) \/ TakeNothing(w)
  \/ CallTask(w) \/ TaskReturns(w)

RunStep(s) == RunWaits(s) \/ RunQueues(s)

Next ==
  \/ start \/ stop \/ join
  \/ \E s \in Submitters : RunStep(s) \/ \E t \in Tasks : run(s, t)
  \/ \E w \in Workers : WorkerStep(w)
  \/ Spurious

Spec == Init /\ [][Next]_vars

(* Threads are scheduled, the mutex is granted, and tasks return.  Nothing *)
(* relies on spurious wakeups.                                             *)
FairSpec ==
  /\ Spec
  /\ \A w \in Workers : WF_vars(WorkerStep(w))
  /\ \A s \in Submitters : WF_vars(RunStep(s))
  /\ WF_vars(join)

-----------------------------------------------------------------------------
(* While a worker sleeps, every queued task has a worker of its own that   *)
(* is awake and on its way to take it: one notify() per push is enough,    *)
(* whichever thread gets the mutex first.  No worker sleeps once the pool  *)
(* is stopped.                                                             *)
NoStrandedTask ==
  notEmpty_ # {} =>
    /\ running_
    /\ Len(queue_) <= Cardinality({w \in Workers : Taking(w)})

(* While a thread sleeps in run(), every free place of the queue has a     *)
(* submitter of its own that is awake and on its way to fill it.           *)
NoStrandedSubmitter ==
  notFull_ # {} =>
    maxQueueSize_ <= Len(queue_) + Cardinality({s \in Submitters : Submitting(s)})

(* The pool is an executor as wide as it has workers: every task is called *)
(* once, and the one called next is among the first Cardinality(Workers)   *)
(* that run() queued: workers may call what they popped in any order, but  *)
(* a task overtakes no more than the tasks the other workers hold.  With   *)
(* one worker the order is exact; without threads, tasks run on the spot.  *)
ExecutorSpec == Promise!Spec

(* Nobody waits for ever: a queued task is started, unless the pool is     *)
(* stopped first, one that was popped is started even then, and stop()     *)
(* returns, no worker sleeping through it.                                 *)
NobodyWaitsForever ==
  /\ \A t \in Tasks :
       /\ t \in Range(queue_) ~> t \in Range(started) \/ ~running_
       /\ (\E i \in DOMAIN popped : popped[i].task = t) ~> t \in Range(started)
  /\ stopping = "joining" ~> stopping = "returned"
=============================================================================

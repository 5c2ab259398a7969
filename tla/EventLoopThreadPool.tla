------------------------- MODULE EventLoopThreadPool -------------------------
(***************************************************************************)
(* muduo::net::EventLoopThreadPool and EventLoopThread (muduo/net/         *)
(* EventLoopThreadPool.cc, EventLoopThread.cc): the owner, the thread of   *)
(* the base loop, starts one thread after the other and waits until each   *)
(* has published its EventLoop, hands the loops out round-robin, and at    *)
(* last destroys the EventLoopThreads in order.  A loop is an object on    *)
(* its thread's stack.  Of EventLoop only quit_ and loop() matter here:    *)
(* loop() sets quit_ to false and returns once quit_ is true.  The names   *)
(* differ from those of EventLoop, beside which the module is used.        *)
(***************************************************************************)
EXTENDS Naturals

CONSTANTS
  numThreads_,
  UserQuits,      \* the loops that users may quit() once they are handed out
  MaxServed       \* bound on the calls of getNextLoop

ASSUME PoolAssumption ==
  /\ numThreads_ \in Nat
  /\ UserQuits \subseteq 1 .. numThreads_
  /\ MaxServed \in Nat

Ids == 1 .. numThreads_

VARIABLES
  owner,      \* what the owner does: see PoolTypeOK
  cur,        \* the EventLoopThread it does it to
  thread,     \* per EventLoopThread: where threadFunc is
  loop_,      \* per EventLoopThread: the pointer is set
  quits,      \* per loop: its quit_
  next_,      \* getNextLoop's index, from 0
  served,     \* per loop: how often getNextLoop returned it; 0: the base loop
  wild        \* what of the destructors' quit() found no loop: <<loop, access>>

poolVars == <<owner, cur, thread, loop_, quits, next_, served, wild>>

PoolTypeOK ==
  /\ owner \in {"new", "start", "wait", "started", "dtor", "quit", "wake",
                 "join", "end"}
  /\ cur \in 0 .. numThreads_
  /\ thread \in [Ids -> {"none", "callback", "publish", "enter", "loop",
                         "left", "cleared", "gone"}]
  /\ loop_ \in [Ids -> BOOLEAN]
  /\ quits \in [Ids -> BOOLEAN]
  /\ next_ \in Nat /\ (next_ = 0 \/ next_ < numThreads_)
  /\ served \in [0 .. numThreads_ -> 0 .. MaxServed]
  /\ wild \subseteq Ids \X {"store", "wakeup"}

PoolInit ==
  /\ owner = "new" /\ cur = 0
  /\ thread = [i \in Ids |-> "none"]
  /\ loop_ = [i \in Ids |-> FALSE]
  /\ quits = [i \in Ids |-> FALSE]
  /\ next_ = 0
  /\ served = [i \in 0 .. numThreads_ |-> 0]
  /\ wild = {}

-----------------------------------------------------------------------------
(* The owner.                                                              *)

ownerVars == <<next_, served>>
threadVars == <<thread, loop_, quits, wild>>

(* The for loop of start(), its test; loops_ has cur elements. *)
start ==
  /\ owner \in {"new", "start"}
  /\ IF cur < numThreads_ THEN owner' = "wait" /\ cur' = cur + 1
                               /\ thread' = [thread EXCEPT ![cur + 1] = "callback"]
                          ELSE owner' = "started" /\ UNCHANGED <<cur, thread>>
  /\ UNCHANGED <<loop_, quits, wild, ownerVars>>

(* Faulty variant: startLoop does not wait for the thread. *)
startLoopAtOnce ==
  /\ owner = "wait"
  /\ owner' = "start"
  /\ UNCHANGED <<cur, threadVars, ownerVars>>

(* startLoop returns: loop_ is set, and the owner has the mutex. *)
startLoop ==
  /\ owner = "wait"
  /\ loop_[cur]
  /\ owner' = "start"
  /\ UNCHANGED <<cur, threadVars, ownerVars>>

(* next_ after ++next_; if (next_ >= loops_.size()) next_ = 0 *)
Advance == IF next_ + 1 >= numThreads_ THEN 0 ELSE next_ + 1

getNextLoop ==
  /\ owner = "started"
  /\ LET i == IF numThreads_ = 0 THEN 0 ELSE next_ + 1
     IN  served[i] < MaxServed /\ served' = [served EXCEPT ![i] = @ + 1]
  /\ next_' = IF numThreads_ = 0 THEN next_ ELSE Advance
  /\ UNCHANGED <<owner, cur, threadVars>>

(* ~EventLoopThreadPool destroys threads_[0], threads_[1], ... *)
destroy ==
  /\ owner = "started"
  /\ owner' = IF numThreads_ = 0 THEN "end" ELSE "dtor"
  /\ cur' = IF numThreads_ = 0 THEN cur ELSE 1
  /\ UNCHANGED <<threadVars, ownerVars>>

NextDtor == IF cur = numThreads_ THEN owner' = "end" /\ UNCHANGED cur
                                 ELSE owner' = "dtor" /\ cur' = cur + 1

(* ~EventLoopThread: if (loop_ != NULL), without the mutex; a thread that  *)
(* is over is not joined.                                                  *)
dtorTests ==
  /\ owner = "dtor"
  /\ IF loop_[cur] THEN owner' = "quit" /\ UNCHANGED cur ELSE NextDtor
  /\ UNCHANGED <<threadVars, ownerVars>>

(* Faulty variant: the destructor does not tell the loop to quit. *)
dtorJoinsOnly ==
  /\ owner = "quit"
  /\ owner' = "join"
  /\ UNCHANGED <<cur, threadVars, ownerVars>>

(* loop_->quit(), its quit_ = true.  The pointer is read again without the *)
(* mutex: once the thread has cleared it the outcome of the race is NULL   *)
(* or the old value, and with NULL, or when the loop is gone, the store    *)
(* finds no loop.                                                          *)
dtorQuits ==
  /\ owner = "quit"
  /\ \/ thread[cur] # "gone" /\ UNCHANGED wild
     \/ ~loop_[cur] /\ wild' = wild \cup {<<cur, "store">>}
  /\ quits' = [quits EXCEPT ![cur] = TRUE]
  /\ owner' = "wake"
  /\ UNCHANGED <<cur, thread, loop_, ownerVars>>

(* loop_->quit(), its wakeup(): the owner is not in the loop's thread. *)
dtorWakesUp ==
  /\ owner = "wake"
  /\ wild' = IF thread[cur] = "gone" THEN wild \cup {<<cur, "wakeup">>} ELSE wild
  /\ owner' = "join"
  /\ UNCHANGED <<cur, thread, loop_, quits, ownerVars>>

(* thread_.join() *)
dtorJoins ==
  /\ owner = "join"
  /\ thread[cur] = "gone"
  /\ NextDtor
  /\ UNCHANGED <<threadVars, ownerVars>>

-----------------------------------------------------------------------------
(* threadFunc of EventLoopThread i.                                        *)

Goes(i, from, to) ==
  /\ thread[i] = from
  /\ thread' = [thread EXCEPT ![i] = to]

(* callback_(&loop) *)
callback(i) ==
  /\ Goes(i, "callback", "publish")
  /\ UNCHANGED <<owner, cur, loop_, quits, wild, ownerVars>>

(* loop_ = &loop; cond_.notify() *)
publish(i) ==
  /\ Goes(i, "publish", "enter")
  /\ loop_' = [loop_ EXCEPT ![i] = TRUE]
  /\ UNCHANGED <<owner, cur, quits, wild, ownerVars>>

(* loop.loop() begins: quit_ = false *)
EnterLoop(i) ==
  /\ Goes(i, "enter", "loop")
  /\ quits' = [quits EXCEPT ![i] = FALSE]
  /\ UNCHANGED <<owner, cur, loop_, wild, ownerVars>>

LeaveLoop(i) ==
  /\ quits[i]
  /\ Goes(i, "loop", "left")
  /\ UNCHANGED <<owner, cur, loop_, quits, wild, ownerVars>>

(* Faulty variant: the pointer is left as it is. *)
keepPointer(i) ==
  /\ Goes(i, "left", "cleared")
  /\ UNCHANGED <<owner, cur, loop_, quits, wild, ownerVars>>

(* loop_ = NULL, under the mutex *)
clearPointer(i) ==
  /\ Goes(i, "left", "cleared")
  /\ loop_' = [loop_ EXCEPT ![i] = FALSE]
  /\ UNCHANGED <<owner, cur, quits, wild, ownerVars>>

(* The mutex is released, the function returns, and ~EventLoop runs. *)
ThreadEnds(i) ==
  /\ Goes(i, "cleared", "gone")
  /\ UNCHANGED <<owner, cur, loop_, quits, wild, ownerVars>>

(* A user quits a loop that was handed out, from a functor of that loop. *)
UserQuit(i) ==
  /\ i \in UserQuits
  /\ thread[i] = "loop" /\ ~quits[i]
  /\ served[i] > 0
  /\ quits' = [quits EXCEPT ![i] = TRUE]
  /\ UNCHANGED <<owner, cur, thread, loop_, wild, ownerVars>>

-----------------------------------------------------------------------------
OwnerStep ==
  start \/ startLoop \/ dtorTests \/ dtorQuits \/ dtorWakesUp \/ dtorJoins

ThreadStep(i) ==
  \/ callback(i) \/ publish(i) \/ EnterLoop(i) \/ LeaveLoop(i)
  \/ clearPointer(i) \/ ThreadEnds(i)

PoolNext ==
  \/ OwnerStep \/ getNextLoop \/ destroy
  \/ \E i \in Ids : ThreadStep(i) \/ UserQuit(i)

PoolSpec == PoolInit /\ [][PoolNext]_poolVars

(* All threads are scheduled; nobody has to call getNextLoop or to destroy *)
(* the pool.                                                               *)
PoolFairSpec ==
  PoolSpec /\ WF_poolVars(OwnerStep) /\ \A i \in Ids : WF_poolVars(ThreadStep(i))

-----------------------------------------------------------------------------
(* The loop of thread i exists, and its init callback has run. *)
Usable(i) == thread[i] \in {"publish", "enter", "loop", "left", "cleared"}

(* The loops_ that start() has collected so far. *)
Started(i) ==
  \/ owner = "start" /\ i <= cur
  \/ owner = "wait" /\ i < cur
  \/ owner = "started"

(* A loop that startLoop has returned has run its init callback and lives  *)
(* until its EventLoopThread is destroyed, or a user quits it.             *)
HandedOutAlive == \A i \in Ids : Started(i) /\ ~quits[i] => Usable(i)

(* loop_ points to a loop that is usable, and ~EventLoopThread, which      *)
(* reads it twice without the mutex, makes the store of its quit() into a  *)
(* loop that exists: the exceptions are loops that users quit.  Not so its *)
(* wakeup(), which comes after the store that lets the loop go             *)
(* (EventLoop.cc:139-141, EventLoopThread.cc:32-33): it may find no loop.  *)
QuitOnLiveLoop ==
  \A i \in Ids :
    /\ loop_[i] => Usable(i)
    /\ <<i, "store">> \in wild => i \in UserQuits

(* Round-robin: no loop is ever more than one connection ahead of another. *)
RoundRobinEven == \A i, j \in Ids : served[i] <= served[j] + 1

(* The owner is not left waiting: start() returns, and a loop that is in   *)
(* loop() when the destructor quits it is joined.                          *)
StartAndJoinReturn ==
  /\ owner = "wait" ~> owner = "started"
  /\ \A i \in Ids :
       owner = "quit" /\ cur = i /\ thread[i] = "loop" ~> owner = "end" \/ cur # i

-----------------------------------------------------------------------------
(* What a test says and the code does not do.                              *)

(* "dtor calls quit()": the destruction of a pool that is started ends.    *)
DtorReturns == owner = "dtor" ~> owner = "end"
=============================================================================

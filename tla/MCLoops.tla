------------------------------- MODULE MCLoops -------------------------------
(***************************************************************************)
(* Model-checking instance of EventLoop, TimerQueue and                    *)
(* EventLoopThreadPool.  They share no state here: a behaviour is one of   *)
(* the loop, of the timers or of the pool, and the others stay as they     *)
(* were created.                                                           *)
(***************************************************************************)
EXTENDS EventLoop, TimerQueue, EventLoopThreadPool

VARIABLE moves  \* which of the three this behaviour is about

MCInit == Init /\ TimerInit /\ PoolInit /\ moves \in {"loop", "timers", "pool"}

MCNext ==
  \/ moves = "loop" /\ Next /\ UNCHANGED <<timerVars, poolVars, moves>>
  \/ moves = "timers" /\ TimerNext /\ UNCHANGED <<vars, poolVars, moves>>
  \/ moves = "pool" /\ PoolNext /\ UNCHANGED <<vars, timerVars, moves>>

(* The fairness of FairSpec, TimerFairSpec and PoolFairSpec, each for its  *)
(* behaviours.                                                             *)
MCSpec ==
  /\ MCInit /\ [][MCNext]_<<vars, timerVars, poolVars, moves>>
  /\ WF_vars(moves = "loop" /\ LoopStep)
  /\ \A t \in Threads : WF_vars(moves = "loop" /\ wakeup(t))
  /\ WF_timerVars(moves = "timers" /\ TimerLoopStep)
  /\ WF_timerVars(moves = "timers" /\ Poll)
  /\ WF_timerVars(moves = "timers" /\ Tick)
  /\ WF_poolVars(moves = "pool" /\ OwnerStep)
  /\ \A i \in Ids : WF_poolVars(moves = "pool" /\ ThreadStep(i))
=============================================================================

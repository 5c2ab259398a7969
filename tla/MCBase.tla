------------------------------- MODULE MCBase -------------------------------
(***************************************************************************)
(* Model-checking instance of the two components of muduo/base that have   *)
(* threads of their own, ThreadPool and AsyncLogging.  They share no       *)
(* state: a behaviour is one of the pool or one of the log, and the other  *)
(* one stays as it was created.                                            *)
(***************************************************************************)
EXTENDS ThreadPool, AsyncLogging

VARIABLE moves  \* which of the two this behaviour is about

MCInit == Init /\ LogInit /\ moves \in {"pool", "log"}

MCNext ==
  \/ moves = "pool" /\ Next /\ UNCHANGED <<logVars, moves>>
  \/ moves = "log" /\ LogNext /\ UNCHANGED <<vars, moves>>

(* The fairness of FairSpec and of LogFairSpec, each for its behaviours. *)
MCSpec ==
  /\ MCInit /\ [][MCNext]_<<vars, logVars, moves>>
  /\ \A w \in Workers : WF_vars(moves = "pool" /\ WorkerStep(w))
  /\ \A s \in Submitters : WF_vars(moves = "pool" /\ RunStep(s))
  /\ WF_vars(moves = "pool" /\ join)
  /\ WF_logVars(moves = "log" /\ ThreadStep)
  /\ WF_logVars(moves = "log" /\ (StopNotifies \/ StopJoins))
=============================================================================

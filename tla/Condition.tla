------------------------------ MODULE Condition ------------------------------
(***************************************************************************)
(* muduo::Condition (muduo/base/Condition.h), a pthread condition variable.*)
(* Its state is the set of threads asleep in wait(): wait() puts a thread  *)
(* in, a thread that is taken out competes for the mutex again, like any   *)
(* thread that enters the monitor, and tests its predicate again.          *)
(***************************************************************************)

(* What notify() may leave of the sleepers: one of them, if any, is out.   *)
notify(sleepers) ==
  IF sleepers = {} THEN {{}} ELSE {sleepers \ {t} : t \in sleepers}

(* What a spurious wakeup may leave of them. *)
SpuriousWakeup(sleepers) == {sleepers \ {t} : t \in sleepers}
=============================================================================

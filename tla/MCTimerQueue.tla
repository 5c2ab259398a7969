---------------------------- MODULE MCTimerQueue ----------------------------
(***************************************************************************)
(* Model-checking instance of TimerQueue.                                  *)
(***************************************************************************)
EXTENDS TimerQueue, TLC

(* The allocator may return any free address. *)
AddrSymmetry == Permutations(Addrs)
=============================================================================

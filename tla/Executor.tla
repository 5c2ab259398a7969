------------------------------ MODULE Executor ------------------------------
(***************************************************************************)
(* What EventLoop and ThreadPool promise the code that hands them          *)
(* functors, seen from outside (EventLoop.h:67-75): every functor is taken *)
(* once and begun at most once, some on the spot, the queued ones in the   *)
(* order they were queued but for what Width threads do to it: the one     *)
(* begun next is among the first Width that wait, so that it overtakes     *)
(* fewer than Width others.  With Width = 1 the order is exact.  Nothing   *)
(* here knows about polling, wakeups, batches or conditions.               *)
(***************************************************************************)
EXTENDS Naturals, Sequences

CONSTANTS Functors,   \* what is handed over, one element per call
          Width       \* the number of threads that run functors

VARIABLES queue,      \* functors accepted and not yet begun, oldest first
          log         \* functors begun so far, in the order they began

xvars == <<queue, log>>

(* The functors that have been handed over, whatever became of them. *)
Known == {queue[i] : i \in DOMAIN queue} \cup {log[i] : i \in DOMAIN log}

Init ==
  /\ queue = <<>>
  /\ log = <<>>

Submit(f) ==
  /\ f \notin Known
  /\ queue' = Append(queue, f)
  /\ UNCHANGED log

RunNow(f) ==
  /\ f \notin Known
  /\ log' = Append(log, f)
  /\ UNCHANGED queue

(* Sequence q without its i-th element. *)
Without(q, i) == [k \in 1..(Len(q) - 1) |-> IF k < i THEN q[k] ELSE q[k + 1]]

RunNext(i) ==
  /\ i <= Width
  /\ log' = Append(log, queue[i])
  /\ queue' = Without(queue, i)

Next ==
  \/ \E f \in Functors : Submit(f) \/ RunNow(f)
  \/ \E i \in DOMAIN queue : RunNext(i)

Spec == Init /\ [][Next]_xvars
=============================================================================

-------------------------- MODULE ThreadPoolProofs --------------------------
(***************************************************************************)
(* Theorems about ThreadPool, for any workers, submitters and tasks and    *)
(* any maxQueueSize_: its types, that the two condition variables strand   *)
(* nobody, and that the pool implements Executor.                          *)
(***************************************************************************)
EXTENDS ThreadPool, FiniteSetTheorems, SequenceTheorems, TLAPS

(* The threads that wait are in take() and in run(). *)
SleepersWait ==
  /\ \A w \in notEmpty_ : worker[w] = "take"
  /\ \A s \in notFull_ : submitting[s] # None

(* The popped tasks are those of the workers about to call one, one each.  *)
PoppedByWorkers ==
  /\ ~running_ /\ stopping = "no" => \A w \in Workers : worker[w] = "new"
  /\ \A i \in DOMAIN popped :
       /\ worker[popped[i].worker] = "call"
       /\ \A j \in DOMAIN popped \ {i} : popped[j].worker # popped[i].worker

(* A task is handed over once: it is with its submitter, or with the pool. *)
HandedOver ==
  /\ \A i \in DOMAIN queue_ : queue_[i] \in handed
  /\ \A i \in DOMAIN popped : popped[i].task \in handed
  /\ \A i \in DOMAIN started : started[i] \in handed
  /\ \A s \in Submitters :
       submitting[s] # None =>
         /\ submitting[s] \in handed
         /\ \A i \in DOMAIN queue_ : queue_[i] # submitting[s]
         /\ \A i \in DOMAIN popped : popped[i].task # submitting[s]
         /\ \A i \in DOMAIN started : started[i] # submitting[s]
         /\ \A r \in Submitters \ {s} : submitting[r] # submitting[s]

AwakeWorkers == {w \in Workers : Taking(w)}
AwakeSubmitters == {s \in Submitters : Submitting(s)}

IInv == TypeOK /\ SleepersWait /\ NoStrandedTask /\ NoStrandedSubmitter

-----------------------------------------------------------------------------
(* What notify() leaves: the sleepers without one of them. *)
LEMMA NotifyOne ==
  ASSUME NEW S, NEW T \in notify(S)
  PROVE  /\ T \subseteq S
         /\ S = {} => T = {}
         /\ S # {} => \E x \in S : T = S \ {x}
  BY DEF notify

(* A spurious wakeup takes one sleeper out. *)
LEMMA SpuriousOne ==
  ASSUME NEW S, NEW T \in SpuriousWakeup(S)
  PROVE  T \subseteq S
  BY DEF SpuriousWakeup

(* A sequence without one of its elements. *)
LEMMA WithoutOne ==
  ASSUME NEW T, NEW q \in Seq(T), NEW i \in DOMAIN q
  PROVE  /\ Promise!Without(q, i) \in Seq(T)
         /\ Len(Promise!Without(q, i)) = Len(q) - 1
         /\ \A k \in 1..(Len(q) - 1) :
              Promise!Without(q, i)[k] = IF k < i THEN q[k] ELSE q[k + 1]
<1>1. Len(q) \in Nat /\ i \in 1..Len(q) /\ Len(q) - 1 \in Nat
  OBVIOUS
<1>2. Promise!Without(q, i) \in [1..(Len(q) - 1) -> T]
  BY <1>1 DEF Promise!Without
<1>3. Promise!Without(q, i) \in Seq(T)
  BY <1>1, <1>2, SeqDef
<1> QED BY <1>1, <1>2, <1>3 DEF Promise!Without

(* A popped task and its worker. *)
LEMMA PoppedFacts ==
  ASSUME NEW p \in Seq(PoppedTask)
  PROVE  /\ Len(p) \in Nat /\ DOMAIN p = 1..Len(p)
         /\ \A i \in 1..Len(p) : p[i].worker \in Workers /\ p[i].task \in Tasks
<1>1. Len(p) \in Nat /\ DOMAIN p = 1..Len(p)
  OBVIOUS
<1>2. \A i \in 1..Len(p) : p[i] \in PoppedTask
  BY <1>1, ElementOfSeq
<1> QED BY <1>1, <1>2 DEF PoppedTask

(* Every step keeps the variables in their types. *)
LEMMA TypeStep == ASSUME TypeOK, [Next]_vars PROVE TypeOK'
<1> USE PoolAssumption
<1>1. CASE start \/ stop \/ join
  <2>1. running_' \in BOOLEAN
    BY <1>1, Zenon DEF start, stop, join, TypeOK
  <2>2. /\ notEmpty_' \in SUBSET Workers
        /\ worker' \in [Workers -> {"new", "check", "take", "call", "task", "done"}]
        /\ stopping' \in {"no", "joining", "returned"}
    BY <1>1 DEF start, stop, join, TypeOK
  <2>3. UNCHANGED <<queue_, notFull_, popped, submitting, handed, started>>
    BY <1>1 DEF start, stop, join
  <2> QED BY <2>1, <2>2, <2>3, Zenon DEF TypeOK
<1>2. ASSUME NEW s \in Submitters, NEW t \in Tasks, run(s, t) PROVE TypeOK'
  <2>1. /\ started' \in Seq(Tasks)
        /\ submitting' \in [Submitters -> Tasks \cup {None}]
    <3>1. CASE Workers = {}
      <4>1. started' = Append(started, t) /\ submitting' = submitting
        BY <1>2, <3>1 DEF run
      <4> QED BY <4>1 DEF TypeOK
    <3>2. CASE Workers # {}
      <4>1. started' = started /\ submitting' = [submitting EXCEPT ![s] = t]
        BY <1>2, <3>2 DEF run
      <4> QED BY <4>1 DEF TypeOK
    <3> QED BY <3>1, <3>2
  <2>2. handed' \in SUBSET Tasks
    BY <1>2 DEF run, TypeOK
  <2>3. UNCHANGED <<running_, queue_, notEmpty_, notFull_, worker, popped,
                    stopping>>
    BY <1>2 DEF run
  <2> QED BY <2>1, <2>2, <2>3, Zenon DEF TypeOK
<1>3. ASSUME NEW s \in Submitters, RunWaits(s) PROVE TypeOK'
  BY <1>3 DEF RunWaits, TypeOK
<1>4. ASSUME NEW s \in Submitters, RunQueues(s) PROVE TypeOK'
  <2>1. notEmpty_' \subseteq notEmpty_
    BY <1>4, NotifyOne DEF RunQueues
  <2> QED BY <1>4, <2>1 DEF RunQueues, Submitting, TypeOK
<1>5. ASSUME NEW w \in Workers, CheckRunning(w) \/ TakeWaits(w) \/ TakeNothing(w)
                                 \/ TaskReturns(w)
      PROVE TypeOK'
  BY <1>5 DEF CheckRunning, TakeWaits, TakeNothing, TaskReturns, TypeOK
<1>6. ASSUME NEW w \in Workers, Take(w) PROVE TypeOK'
  <2>1. notFull_' \subseteq notFull_
    BY <1>6, NotifyOne DEF Take
  <2>2. queue_' \in Seq(Tasks) /\ Head(queue_) \in Tasks
    BY <1>6 DEF Take, TypeOK
  <2>3. popped' \in Seq(PoppedTask)
    <3>1. [worker |-> w, task |-> Head(queue_)] \in PoppedTask
      BY <2>2 DEF PoppedTask
    <3> QED BY <1>6, <3>1 DEF Take, TypeOK
  <2> QED BY <1>6, <2>1, <2>2, <2>3 DEF Take, TypeOK
<1>7. CASE Spurious
  <2>1. notEmpty_' \subseteq notEmpty_ /\ notFull_' \subseteq notFull_
    BY <1>7, SpuriousOne DEF Spurious
  <2> QED BY <1>7, <2>1 DEF Spurious, TypeOK
<1>8. CASE UNCHANGED vars
  BY <1>8 DEF vars, TypeOK
<1>9. ASSUME NEW w \in Workers, CallTask(w) PROVE TypeOK'
  <2>1. PICK i \in DOMAIN popped : started' = Append(started, popped[i].task)
                                   /\ popped' = Promise!Without(popped, i)
    BY <1>9 DEF CallTask
  <2>2. popped' \in Seq(PoppedTask)
    BY <2>1, WithoutOne DEF TypeOK
  <2>3. started' \in Seq(Tasks)
    <3>1. popped[i].task \in Tasks
      BY PoppedFacts DEF TypeOK
    <3> QED BY <2>1, <3>1 DEF TypeOK
  <2> QED BY <1>9, <2>2, <2>3 DEF CallTask, TypeOK
<1> QED BY <1>1, <1>2, <1>3, <1>4, <1>5, <1>6, <1>7, <1>8, <1>9
        DEF Next, RunStep, WorkerStep

(* Initially the state is well typed. *)
LEMMA TypeInit == Init => TypeOK
<1> SUFFICES ASSUME Init PROVE TypeOK
  OBVIOUS
<1>1. running_ \in BOOLEAN
  BY Zenon DEF Init
<1>2. /\ queue_ \in Seq(Tasks) /\ started \in Seq(Tasks)
      /\ notEmpty_ \in SUBSET Workers /\ notFull_ \in SUBSET Submitters
      /\ handed \in SUBSET Tasks
      /\ worker \in [Workers -> {"new", "check", "take", "call", "task", "done"}]
      /\ popped \in Seq(PoppedTask)
      /\ submitting \in [Submitters -> Tasks \cup {None}]
      /\ stopping \in {"no", "joining", "returned"}
  BY DEF Init
<1> QED BY <1>1, <1>2, Zenon DEF TypeOK

(* The state of the pool stays well typed. *)
THEOREM TypeCorrect == Spec => []TypeOK
  BY TypeInit, TypeStep, PTL DEF Spec

-----------------------------------------------------------------------------
(* Every step keeps the waiting threads where they wait. *)
LEMMA SleepersStep == ASSUME TypeOK, SleepersWait, NoStrandedTask, [Next]_vars
                      PROVE  SleepersWait'
<1> USE PoolAssumption DEF TypeOK, SleepersWait
<1>1. CASE start
  BY <1>1 DEF start, NoStrandedTask
<1>2. CASE stop \/ join
  BY <1>2 DEF stop, join
<1>3. ASSUME NEW s \in Submitters, NEW t \in Tasks, run(s, t) PROVE SleepersWait'
  BY <1>3 DEF run
<1>4. ASSUME NEW s \in Submitters, RunWaits(s) PROVE SleepersWait'
  BY <1>4 DEF RunWaits, Submitting
<1>5. ASSUME NEW s \in Submitters, RunQueues(s) PROVE SleepersWait'
  <2>1. notEmpty_' \subseteq notEmpty_
    BY <1>5, NotifyOne DEF RunQueues
  <2> QED BY <1>5, <2>1 DEF RunQueues, Submitting
<1>6. ASSUME NEW w \in Workers, CheckRunning(w) \/ TakeWaits(w) \/ TakeNothing(w)
                                 \/ CallTask(w) \/ TaskReturns(w)
      PROVE SleepersWait'
  BY <1>6 DEF CheckRunning, TakeWaits, TakeNothing, CallTask, TaskReturns, Taking
<1>7. ASSUME NEW w \in Workers, Take(w) PROVE SleepersWait'
  <2>1. notFull_' \subseteq notFull_
    BY <1>7, NotifyOne DEF Take
  <2> QED BY <1>7, <2>1 DEF Take, Taking
<1>8. CASE Spurious
  <2>1. notEmpty_' \subseteq notEmpty_ /\ notFull_' \subseteq notFull_
    BY <1>8, SpuriousOne DEF Spurious
  <2> QED BY <1>8, <2>1 DEF Spurious
<1>9. CASE UNCHANGED vars
  BY <1>9 DEF vars
<1> QED BY <1>1, <1>2, <1>3, <1>4, <1>5, <1>6, <1>7, <1>8, <1>9
        DEF Next, RunStep, WorkerStep

-----------------------------------------------------------------------------
(* Counting: a larger set, and sets that differ by one element. *)
LEMMA CountMore ==
  ASSUME NEW B, IsFiniteSet(B), NEW A, A \subseteq B
  PROVE  /\ Cardinality(A) \in Nat /\ Cardinality(B) \in Nat
         /\ Cardinality(A) <= Cardinality(B)
  BY FS_Subset, FS_CardinalityType

LEMMA CountOneMore ==
  ASSUME NEW B, IsFiniteSet(B), NEW A, A \subseteq B, NEW x \in B, x \notin A
  PROVE  Cardinality(A) + 1 <= Cardinality(B)
<1>1. A \cup {x} \subseteq B /\ IsFiniteSet(A)
  BY FS_Subset
<1>2. Cardinality(A \cup {x}) = Cardinality(A) + 1
  BY <1>1, FS_AddElement
<1> QED BY <1>1, <1>2, CountMore

LEMMA CountOneLess ==
  ASSUME NEW A, IsFiniteSet(A), NEW B, IsFiniteSet(B), NEW x, A \ {x} \subseteq B
  PROVE  Cardinality(A) <= Cardinality(B) + 1
<1>1. /\ Cardinality(A \ {x}) \in Nat
      /\ Cardinality(B) \in Nat
      /\ Cardinality(A \ {x}) <= Cardinality(B)
  BY CountMore
<1>2. Cardinality(A) \in Nat
  BY FS_CardinalityType
<1>3. Cardinality(A \ {x}) = IF x \in A THEN Cardinality(A) - 1 ELSE Cardinality(A)
  BY FS_RemoveElement
<1> QED BY <1>1, <1>2, <1>3

(* The awake threads are finitely many, before and after a step. *)
LEMMA AwakeFinite ==
  /\ IsFiniteSet(AwakeWorkers) /\ IsFiniteSet(AwakeWorkers')
  /\ IsFiniteSet(AwakeSubmitters) /\ IsFiniteSet(AwakeSubmitters')
<1>1. /\ AwakeWorkers \subseteq Workers /\ AwakeWorkers' \subseteq Workers
      /\ AwakeSubmitters \subseteq Submitters /\ AwakeSubmitters' \subseteq Submitters
  BY DEF AwakeWorkers, AwakeSubmitters
<1> QED BY <1>1, PoolAssumption, FS_Subset

(* The two invariants in terms of the awake threads. *)
LEMMA StrandedTask ==
  NoStrandedTask <=>
    (notEmpty_ # {} => running_ /\ Len(queue_) <= Cardinality(AwakeWorkers))
  BY DEF NoStrandedTask, AwakeWorkers

LEMMA StrandedSubmitter ==
  NoStrandedSubmitter <=>
    (notFull_ # {} =>
       maxQueueSize_ <= Len(queue_) + Cardinality(AwakeSubmitters))
  BY DEF NoStrandedSubmitter, AwakeSubmitters

(* Steps that add no task and put no worker to sleep lose no awake worker. *)
LEMMA TaskStable ==
  ASSUME NoStrandedTask, TypeOK, UNCHANGED <<running_, queue_>>,
         notEmpty_' \subseteq notEmpty_, AwakeWorkers \subseteq AwakeWorkers'
  PROVE  NoStrandedTask'
<1>1. /\ Cardinality(AwakeWorkers) \in Nat
      /\ Cardinality(AwakeWorkers') \in Nat
      /\ Cardinality(AwakeWorkers) <= Cardinality(AwakeWorkers')
  BY AwakeFinite, CountMore
<1>2. Len(queue_) \in Nat
  BY DEF TypeOK
<1>3. SUFFICES ASSUME notEmpty_' # {}
               PROVE  running_' /\ Len(queue_') <= Cardinality(AwakeWorkers')
  BY DEF NoStrandedTask, AwakeWorkers
<1>4. running_ /\ Len(queue_) <= Cardinality(AwakeWorkers)
  BY <1>3, StrandedTask
<1> QED BY <1>1, <1>2, <1>4

(* Likewise for the threads in run(). *)
LEMMA SubmitterStable ==
  ASSUME NoStrandedSubmitter, TypeOK, UNCHANGED queue_,
         notFull_' \subseteq notFull_, AwakeSubmitters \subseteq AwakeSubmitters'
  PROVE  NoStrandedSubmitter'
<1>1. /\ Cardinality(AwakeSubmitters) \in Nat
      /\ Cardinality(AwakeSubmitters') \in Nat
      /\ Cardinality(AwakeSubmitters) <= Cardinality(AwakeSubmitters')
  BY AwakeFinite, CountMore
<1>2. Len(queue_) \in Nat /\ maxQueueSize_ \in Nat
  BY PoolAssumption DEF TypeOK
<1>3. SUFFICES ASSUME notFull_' # {}
               PROVE  maxQueueSize_ <= Len(queue_') + Cardinality(AwakeSubmitters')
  BY DEF NoStrandedSubmitter, AwakeSubmitters
<1>4. maxQueueSize_ <= Len(queue_) + Cardinality(AwakeSubmitters)
  BY <1>3, StrandedSubmitter
<1> QED BY <1>1, <1>2, <1>4

(* Every queued task keeps an awake worker of its own while a worker sleeps: *)
(* a push wakes a sleeper, a take() uses up one worker and one task.       *)
LEMMA TaskStep ==
  ASSUME TypeOK, SleepersWait, NoStrandedTask, [Next]_vars
  PROVE  NoStrandedTask'
<1>1. CASE start \/ stop
  <2>1. notEmpty_' = {}
    BY <1>1 DEF start, stop, NoStrandedTask
  <2> QED BY <2>1 DEF NoStrandedTask
<1>2. CASE join
  <2>1. AwakeWorkers \subseteq AwakeWorkers'
    BY <1>2 DEF join, AwakeWorkers, Taking
  <2> QED BY <1>2, <2>1, TaskStable DEF join
<1>3. ASSUME NEW s \in Submitters, RunWaits(s) \/ \E t \in Tasks : run(s, t)
      PROVE  NoStrandedTask'
  <2>1. AwakeWorkers \subseteq AwakeWorkers'
    BY <1>3 DEF run, RunWaits, AwakeWorkers, Taking
  <2>2. UNCHANGED <<running_, queue_, notEmpty_>>
    BY <1>3 DEF run, RunWaits
  <2> QED BY <2>1, <2>2, TaskStable
<1>4. ASSUME NEW s \in Submitters, RunQueues(s) PROVE NoStrandedTask'
  <2>1. SUFFICES ASSUME notEmpty_' # {}
                 PROVE  running_' /\ Len(queue_') <= Cardinality(AwakeWorkers')
    BY DEF NoStrandedTask, AwakeWorkers
  <2>2. notEmpty_' \subseteq notEmpty_ /\ notEmpty_ # {}
    BY <1>4, <2>1, NotifyOne DEF RunQueues
  <2>3. PICK x \in notEmpty_ : notEmpty_' = notEmpty_ \ {x}
    BY <1>4, <2>2, NotifyOne DEF RunQueues
  <2>4. AwakeWorkers \subseteq AwakeWorkers' /\ x \in AwakeWorkers' /\ x \notin AwakeWorkers
    BY <1>4, <2>3 DEF RunQueues, AwakeWorkers, Taking, TypeOK, SleepersWait
  <2>5. /\ Cardinality(AwakeWorkers) + 1 <= Cardinality(AwakeWorkers')
        /\ Cardinality(AwakeWorkers) \in Nat /\ Cardinality(AwakeWorkers') \in Nat
    BY <2>4, AwakeFinite, CountOneMore, CountMore
  <2>6. running_ /\ Len(queue_) <= Cardinality(AwakeWorkers)
    BY <2>2, StrandedTask
  <2>7. running_' = running_ /\ Len(queue_') = Len(queue_) + 1 /\ Len(queue_) \in Nat
    BY <1>4 DEF RunQueues, TypeOK, Submitting
  <2> QED BY <2>5, <2>6, <2>7
<1>5. ASSUME NEW w \in Workers, CheckRunning(w) \/ CallTask(w) \/ TaskReturns(w)
      PROVE  NoStrandedTask'
  <2>1. AwakeWorkers \subseteq AwakeWorkers'
    BY <1>5 DEF CheckRunning, CallTask, TaskReturns, AwakeWorkers, Taking, TypeOK
  <2>2. UNCHANGED <<running_, queue_, notEmpty_>>
    BY <1>5 DEF CheckRunning, CallTask, TaskReturns
  <2> QED BY <2>1, <2>2, TaskStable
<1>6. ASSUME NEW w \in Workers, TakeWaits(w) PROVE NoStrandedTask'
  <2>1. Cardinality(AwakeWorkers') \in Nat
    BY AwakeFinite, FS_CardinalityType
  <2>2. running_' /\ Len(queue_') = 0
    BY <1>6 DEF TakeWaits
  <2>3. running_' /\ Len(queue_') <= Cardinality(AwakeWorkers')
    BY <2>1, <2>2
  <2> QED BY <2>3 DEF NoStrandedTask, AwakeWorkers
<1>7. ASSUME NEW w \in Workers, Take(w) PROVE NoStrandedTask'
  <2>1. SUFFICES ASSUME notEmpty_' # {}
                 PROVE  running_' /\ Len(queue_') <= Cardinality(AwakeWorkers')
    BY DEF NoStrandedTask, AwakeWorkers
  <2>2. running_ /\ Len(queue_) <= Cardinality(AwakeWorkers)
    BY <1>7, <2>1, StrandedTask DEF Take
  <2>3. AwakeWorkers \ {w} \subseteq AwakeWorkers'
    BY <1>7 DEF Take, AwakeWorkers, Taking, TypeOK
  <2>4. /\ Cardinality(AwakeWorkers) <= Cardinality(AwakeWorkers') + 1
        /\ Cardinality(AwakeWorkers) \in Nat /\ Cardinality(AwakeWorkers') \in Nat
    BY <2>3, AwakeFinite, CountOneLess, FS_CardinalityType
  <2>5. running_' = running_ /\ Len(queue_') = Len(queue_) - 1 /\ Len(queue_) \in Nat
    BY <1>7 DEF Take, TypeOK
  <2> QED BY <2>2, <2>4, <2>5
<1>8. ASSUME NEW w \in Workers, TakeNothing(w) PROVE NoStrandedTask'
  <2>1. notEmpty_' = {}
    BY <1>8 DEF TakeNothing, NoStrandedTask
  <2> QED BY <2>1 DEF NoStrandedTask
<1>9. CASE Spurious
  <2>1. notEmpty_' \subseteq notEmpty_
    BY <1>9, SpuriousOne DEF Spurious
  <2>2. AwakeWorkers \subseteq AwakeWorkers'
    BY <1>9, <2>1 DEF Spurious, AwakeWorkers, Taking
  <2> QED BY <1>9, <2>1, <2>2, TaskStable DEF Spurious
<1>10. CASE UNCHANGED vars
  <2>1. AwakeWorkers \subseteq AwakeWorkers'
    BY <1>10 DEF vars, AwakeWorkers, Taking
  <2> QED BY <1>10, <2>1, TaskStable DEF vars
<1> QED BY <1>1, <1>2, <1>3, <1>4, <1>5, <1>6, <1>7, <1>8, <1>9, <1>10
        DEF Next, RunStep, WorkerStep

(* Every free place keeps an awake submitter of its own while a submitter   *)
(* sleeps: a take() wakes one, a push uses up one submitter and one place.  *)
LEMMA SubmitterStep ==
  ASSUME TypeOK, SleepersWait, NoStrandedSubmitter, [Next]_vars
  PROVE  NoStrandedSubmitter'
<1>1. CASE start \/ stop \/ join
  <2>1. AwakeSubmitters \subseteq AwakeSubmitters' /\ UNCHANGED <<queue_, notFull_>>
    BY <1>1 DEF start, stop, join, AwakeSubmitters, Submitting
  <2> QED BY <2>1, SubmitterStable
<1>2. ASSUME NEW s \in Submitters, NEW t \in Tasks, run(s, t)
      PROVE  NoStrandedSubmitter'
  <2>1. submitting' = submitting \/ submitting' = [submitting EXCEPT ![s] = t]
    BY <1>2 DEF run
  <2>2. submitting[s] = None /\ UNCHANGED <<queue_, notFull_>>
    BY <1>2 DEF run
  <2>3. AwakeSubmitters \subseteq AwakeSubmitters'
    BY <2>1, <2>2 DEF AwakeSubmitters, Submitting, TypeOK
  <2> QED BY <2>2, <2>3, SubmitterStable
<1>3. ASSUME NEW s \in Submitters, RunWaits(s) PROVE NoStrandedSubmitter'
  <2>1. Cardinality(AwakeSubmitters') \in Nat
    BY AwakeFinite, FS_CardinalityType
  <2>2. /\ maxQueueSize_ <= Len(queue_') /\ Len(queue_') \in Nat
        /\ maxQueueSize_ \in Nat
    BY <1>3, PoolAssumption DEF RunWaits, isFull, TypeOK
  <2>3. maxQueueSize_ <= Len(queue_') + Cardinality(AwakeSubmitters')
    BY <2>1, <2>2
  <2> QED BY <2>3 DEF NoStrandedSubmitter, AwakeSubmitters
<1>4. ASSUME NEW s \in Submitters, RunQueues(s) PROVE NoStrandedSubmitter'
  <2>1. SUFFICES ASSUME notFull_' # {}
                 PROVE  maxQueueSize_ <= Len(queue_') + Cardinality(AwakeSubmitters')
    BY DEF NoStrandedSubmitter, AwakeSubmitters
  <2>2. maxQueueSize_ <= Len(queue_) + Cardinality(AwakeSubmitters)
    BY <1>4, <2>1, StrandedSubmitter DEF RunQueues
  <2>3. AwakeSubmitters \ {s} \subseteq AwakeSubmitters'
    BY <1>4 DEF RunQueues, AwakeSubmitters, Submitting, TypeOK
  <2>4. /\ Cardinality(AwakeSubmitters) <= Cardinality(AwakeSubmitters') + 1
        /\ Cardinality(AwakeSubmitters) \in Nat
        /\ Cardinality(AwakeSubmitters') \in Nat
    BY <2>3, AwakeFinite, CountOneLess, FS_CardinalityType
  <2>5. /\ Len(queue_') = Len(queue_) + 1 /\ Len(queue_) \in Nat
        /\ maxQueueSize_ \in Nat
    BY <1>4, PoolAssumption DEF RunQueues, Submitting, TypeOK
  <2> QED BY <2>2, <2>4, <2>5
<1>5. ASSUME NEW w \in Workers, CheckRunning(w) \/ TakeWaits(w) \/ TakeNothing(w)
                                 \/ CallTask(w) \/ TaskReturns(w)
      PROVE  NoStrandedSubmitter'
  <2>1. UNCHANGED <<queue_, notFull_, submitting>>
    BY <1>5 DEF CheckRunning, TakeWaits, TakeNothing, CallTask, TaskReturns
  <2>2. AwakeSubmitters \subseteq AwakeSubmitters'
    BY <2>1 DEF AwakeSubmitters, Submitting
  <2> QED BY <2>1, <2>2, SubmitterStable
<1>6. ASSUME NEW w \in Workers, Take(w) PROVE NoStrandedSubmitter'
  <2>1. SUFFICES ASSUME notFull_' # {}
                 PROVE  maxQueueSize_ <= Len(queue_') + Cardinality(AwakeSubmitters')
    BY DEF NoStrandedSubmitter, AwakeSubmitters
  <2>2. /\ Len(queue_') = Len(queue_) - 1 /\ Len(queue_) \in Nat /\ Len(queue_') \in Nat
        /\ maxQueueSize_ \in Nat
    BY <1>6, PoolAssumption DEF Take, TypeOK
  <2>3. /\ Cardinality(AwakeSubmitters) \in Nat
        /\ Cardinality(AwakeSubmitters') \in Nat
    BY AwakeFinite, FS_CardinalityType
  <2>4. CASE maxQueueSize_ > 0
    <3>1. notFull_' \in notify(notFull_)
      BY <1>6, <2>4 DEF Take, NotifyNotFull
    <3>2. notFull_ # {}
      BY <2>1, <3>1, NotifyOne
    <3>3. PICK x \in notFull_ : notFull_' = notFull_ \ {x}
      BY <3>1, <3>2, NotifyOne
    <3>4. /\ AwakeSubmitters \subseteq AwakeSubmitters'
          /\ x \in AwakeSubmitters' /\ x \notin AwakeSubmitters
      BY <1>6, <3>3 DEF Take, AwakeSubmitters, Submitting, TypeOK, SleepersWait
    <3>5. Cardinality(AwakeSubmitters) + 1 <= Cardinality(AwakeSubmitters')
      BY <3>4, AwakeFinite, CountOneMore
    <3>6. maxQueueSize_ <= Len(queue_) + Cardinality(AwakeSubmitters)
      BY <3>2, StrandedSubmitter
    <3> QED BY <2>2, <2>3, <3>5, <3>6
  <2>5. CASE ~(maxQueueSize_ > 0)
    BY <2>2, <2>3, <2>5
  <2> QED BY <2>4, <2>5
<1>7. CASE Spurious
  <2>1. notFull_' \subseteq notFull_
    BY <1>7, SpuriousOne DEF Spurious
  <2>2. AwakeSubmitters \subseteq AwakeSubmitters'
    BY <1>7, <2>1 DEF Spurious, AwakeSubmitters, Submitting
  <2> QED BY <1>7, <2>1, <2>2, SubmitterStable DEF Spurious
<1>8. CASE UNCHANGED vars
  <2>1. AwakeSubmitters \subseteq AwakeSubmitters'
    BY <1>8 DEF vars, AwakeSubmitters, Submitting
  <2> QED BY <1>8, <2>1, SubmitterStable DEF vars
<1> QED BY <1>1, <1>2, <1>3, <1>4, <1>5, <1>6, <1>7, <1>8
        DEF Next, RunStep, WorkerStep

-----------------------------------------------------------------------------
(* The inductive invariant of the pool: types, waiting threads where they  *)
(* wait, and nobody stranded.                                              *)
THEOREM Invariant == Spec => []IInv
<1>1. Init => IInv
  <2> SUFFICES ASSUME Init PROVE SleepersWait /\ NoStrandedTask /\ NoStrandedSubmitter
    BY TypeInit DEF IInv
  <2> QED BY DEF Init, SleepersWait, NoStrandedTask, NoStrandedSubmitter
<1>2. IInv /\ [Next]_vars => IInv'
  BY TypeStep, SleepersStep, TaskStep, SubmitterStep DEF IInv
<1> QED BY <1>1, <1>2, PTL DEF Spec

(* For any number of workers: while one sleeps in take(), each queued task *)
(* has a worker of its own on its way, and none sleeps after stop().       *)
THEOREM NoTaskIsStranded == Spec => []NoStrandedTask
<1>1. IInv => NoStrandedTask
  BY DEF IInv
<1> QED BY <1>1, Invariant, PTL

(* For any number of submitters and any bound: while one sleeps in run(),  *)
(* each free place has a submitter of its own on its way.                  *)
THEOREM NoSubmitterIsStranded == Spec => []NoStrandedSubmitter
<1>1. IInv => NoStrandedSubmitter
  BY DEF IInv
<1> QED BY <1>1, Invariant, PTL

-----------------------------------------------------------------------------
(* The popped tasks stay with their workers, whatever the step. *)
LEMMA PoppedStep ==
  ASSUME TypeOK, PoppedByWorkers, [Next]_vars PROVE PoppedByWorkers'
<1>0. /\ popped \in Seq(PoppedTask)
      /\ Len(popped) \in Nat /\ DOMAIN popped = 1..Len(popped)
      /\ \A i \in DOMAIN popped : popped[i].worker \in Workers
      /\ DOMAIN worker = Workers
  BY PoppedFacts DEF TypeOK
<1> USE DEF PoppedByWorkers
<1>1. CASE start
  <2>1. popped' = popped /\ worker' = [w \in Workers |-> "check"] /\ ~running_
        /\ stopping = "no"
    BY <1>1 DEF start
  <2>2. DOMAIN popped = {}
    BY <1>0, <2>1
  <2> QED BY <1>1, <2>1, <2>2 DEF start
<1>2. ASSUME NEW w \in Workers, Take(w) PROVE PoppedByWorkers'
  <2>1. /\ popped' = Append(popped, [worker |-> w, task |-> Head(queue_)])
        /\ worker' = [worker EXCEPT ![w] = "call"] /\ worker[w] = "take"
        /\ Head(queue_) \in Tasks /\ UNCHANGED <<running_, stopping>>
    BY <1>2 DEF Take, Taking, TypeOK
  <2>2. [worker |-> w, task |-> Head(queue_)] \in PoppedTask
    BY <2>1 DEF PoppedTask
  <2>3. /\ DOMAIN popped' = 1..(Len(popped) + 1)
        /\ popped'[Len(popped) + 1] = [worker |-> w, task |-> Head(queue_)]
        /\ \A i \in DOMAIN popped : popped'[i] = popped[i]
    BY <1>0, <2>1, <2>2
  <2>4. popped'[Len(popped) + 1].worker = w
    BY <2>3
  <2>5. \A i \in DOMAIN popped : popped[i].worker # w
    BY <2>1
  <2>6. \A i \in DOMAIN popped' : worker'[popped'[i].worker] = "call"
    BY <1>0, <2>1, <2>3, <2>4
  <2>7. \A i, j \in DOMAIN popped' : i # j => popped'[i].worker # popped'[j].worker
    BY <1>0, <2>3, <2>4, <2>5
  <2> QED BY <1>0, <2>1, <2>6, <2>7
<1>3. ASSUME NEW w \in Workers, CallTask(w) PROVE PoppedByWorkers'
  <2>1. PICK i \in DOMAIN popped : popped[i].worker = w
                                   /\ popped' = Promise!Without(popped, i)
    BY <1>3 DEF CallTask
  <2>2. worker' = [worker EXCEPT ![w] = "task"] /\ worker[w] = "call"
    BY <1>3 DEF CallTask
  <2>3. /\ popped' \in Seq(PoppedTask)
        /\ Len(popped') = Len(popped) - 1
        /\ \A k \in 1..(Len(popped) - 1) :
             popped'[k] = IF k < i THEN popped[k] ELSE popped[k + 1]
    BY <1>0, <2>1, WithoutOne
  <2>4. \A k \in DOMAIN popped' : \E j \in DOMAIN popped \ {i} :
          popped'[k] = popped[j] /\ j = (IF k < i THEN k ELSE k + 1)
    BY <1>0, <2>3
  <2>5. \A k \in DOMAIN popped' : worker'[popped'[k].worker] = "call"
    BY <1>0, <2>1, <2>2, <2>4
  <2>6. \A k, l \in DOMAIN popped' : k # l => popped'[k].worker # popped'[l].worker
    BY <1>0, <2>3, <2>4
  <2>7. ~running_' /\ stopping' = "no" => \A v \in Workers : worker'[v] = "new"
    BY <1>0, <1>3, <2>2 DEF CallTask
  <2> QED BY <2>5, <2>6, <2>7
<1>4. CASE stop \/ join
  BY <1>4 DEF stop, join
<1>5. ASSUME NEW s \in Submitters,
             RunWaits(s) \/ RunQueues(s) \/ \E t \in Tasks : run(s, t)
      PROVE  PoppedByWorkers'
  BY <1>5 DEF RunWaits, RunQueues, run
<1>6. ASSUME NEW w \in Workers, CheckRunning(w) \/ TakeWaits(w) \/ TakeNothing(w)
                                 \/ TaskReturns(w)
      PROVE  PoppedByWorkers'
  <2>1. UNCHANGED <<popped, running_, stopping>> /\ worker[w] \notin {"call", "new"}
        /\ (worker' = worker \/ \E x : worker' = [worker EXCEPT ![w] = x])
    BY <1>6 DEF CheckRunning, TakeWaits, TakeNothing, TaskReturns, Taking
  <2> QED BY <1>0, <2>1
<1>7. CASE Spurious \/ UNCHANGED vars
  BY <1>7 DEF Spurious, vars
<1> QED BY <1>1, <1>2, <1>3, <1>4, <1>5, <1>6, <1>7
        DEF Next, RunStep, WorkerStep

(* Workers differ, so that no more tasks are popped than there are workers. *)
LEMMA PoppedFew ==
  ASSUME TypeOK, PoppedByWorkers PROVE Len(popped) <= Cardinality(Workers)
<1> DEFINE f == [i \in 1..Len(popped) |-> popped[i].worker]
<1>1. Len(popped) \in Nat /\ DOMAIN popped = 1..Len(popped)
  BY PoppedFacts DEF TypeOK
<1>2. \A i \in 1..Len(popped) : popped[i].worker \in Workers
  BY PoppedFacts DEF TypeOK
<1>3. f \in [1..Len(popped) -> Workers]
  BY <1>2
<1>4. \A i, j \in 1..Len(popped) : f[i] = f[j] => i = j
  BY <1>1 DEF PoppedByWorkers
<1>5. f \in Injection(1..Len(popped), Workers)
  BY <1>3, <1>4, Zenon DEF Injection, IsInjective
<1>6. Cardinality(1..Len(popped)) <= Cardinality(Workers)
  BY <1>5, FS_Injection, PoolAssumption
<1>7. Cardinality(1..Len(popped)) = IF 1 > Len(popped) THEN 0 ELSE Len(popped) - 1 + 1
  BY <1>1, FS_Interval
<1>8. Cardinality(1..Len(popped)) = Len(popped)
  BY <1>1, <1>7
<1> QED BY <1>6, <1>8

-----------------------------------------------------------------------------
(* The tasks that wait, from outside: the popped ones, then the queued.    *)
Joined(p, q) == [i \in DOMAIN p |-> p[i].task] \o q

LEMMA WaitingIs ==
  ASSUME NEW p \in Seq(PoppedTask), NEW q \in Seq(Tasks)
  PROVE  /\ Joined(p, q) \in Seq(Tasks)
         /\ Len(Joined(p, q)) = Len(p) + Len(q)
         /\ \A i \in 1..(Len(p) + Len(q)) :
              Joined(p, q)[i] = IF i <= Len(p) THEN p[i].task ELSE q[i - Len(p)]
<1> DEFINE t == [i \in DOMAIN p |-> p[i].task]
<1>1. Len(p) \in Nat /\ DOMAIN p = 1..Len(p)
  BY PoppedFacts
<1>2. t \in [1..Len(p) -> Tasks]
  BY <1>1, PoppedFacts
<1>3. t \in Seq(Tasks)
  BY <1>1, <1>2, SeqDef
<1>4. Len(t) = Len(p) /\ \A i \in 1..Len(p) : t[i] = p[i].task
  BY <1>1, <1>2, <1>3
<1>5. Joined(p, q) = t \o q
  BY DEF Joined
<1> HIDE DEF t
<1>6. /\ t \o q \in Seq(Tasks) /\ Len(t \o q) = Len(t) + Len(q)
      /\ \A i \in 1..(Len(t) + Len(q)) :
           (t \o q)[i] = IF i <= Len(t) THEN t[i] ELSE q[i - Len(t)]
  BY <1>3, ConcatProperties
<1>7. ASSUME NEW i \in 1..(Len(p) + Len(q))
      PROVE  (t \o q)[i] = IF i <= Len(p) THEN p[i].task ELSE q[i - Len(p)]
  BY <1>1, <1>4, <1>6
<1> QED BY <1>4, <1>5, <1>6, <1>7

(* A task is handed over once, whatever the step. *)
LEMMA HandedStep == ASSUME TypeOK, HandedOver, [Next]_vars PROVE HandedOver'
<1> USE PoolAssumption DEF TypeOK
<1>1. CASE UNCHANGED <<queue_, popped, started, submitting, handed>>
  BY <1>1 DEF HandedOver
<1>2. ASSUME NEW s \in Submitters, NEW t \in Tasks, run(s, t) PROVE HandedOver'
  <2>1. /\ handed' = handed \cup {t} /\ t \notin handed /\ queue_' = queue_
        /\ popped' = popped /\ submitting[s] = None
    BY <1>2 DEF run
  <2>2. CASE Workers = {}
    <3>1. started' = Append(started, t) /\ submitting' = submitting
      BY <1>2, <2>2 DEF run
    <3>2. \A i \in DOMAIN started' : started'[i] = t \/ (i \in DOMAIN started /\ started'[i] = started[i])
      BY <3>1
    <3> QED BY <2>1, <3>1, <3>2 DEF HandedOver
  <2>3. CASE Workers # {}
    <3>1. started' = started /\ submitting' = [submitting EXCEPT ![s] = t]
      BY <1>2, <2>3 DEF run
    <3> QED BY <2>1, <3>1 DEF HandedOver
  <2> QED BY <2>2, <2>3
<1>3. ASSUME NEW s \in Submitters, RunQueues(s) PROVE HandedOver'
  <2>1. /\ queue_' = Append(queue_, submitting[s]) /\ submitting[s] # None
        /\ submitting[s] \in Tasks
        /\ submitting' = [submitting EXCEPT ![s] = None]
        /\ UNCHANGED <<handed, popped, started>>
    BY <1>3 DEF RunQueues, Submitting
  <2>2. \A i \in DOMAIN queue_' : queue_'[i] = submitting[s]
                                  \/ (i \in DOMAIN queue_ /\ queue_'[i] = queue_[i])
    BY <2>1
  <2>3. \A r \in Submitters : submitting'[r] # None =>
          r # s /\ submitting'[r] = submitting[r]
    BY <2>1
  <2> QED BY <2>1, <2>2, <2>3 DEF HandedOver
<1>4. ASSUME NEW w \in Workers, Take(w) PROVE HandedOver'
  <2>1. /\ queue_ # <<>> /\ queue_' = Tail(queue_) /\ Head(queue_) \in Tasks
        /\ popped' = Append(popped, [worker |-> w, task |-> Head(queue_)])
        /\ UNCHANGED <<handed, started, submitting>>
    BY <1>4 DEF Take
  <2>2. \A i \in DOMAIN queue_' : i + 1 \in DOMAIN queue_ /\ queue_'[i] = queue_[i + 1]
    BY <2>1
  <2>3. \A i \in DOMAIN popped' :
          popped'[i].task = queue_[1] \/ (i \in DOMAIN popped /\ popped'[i] = popped[i])
    BY <2>1
  <2>4. 1 \in DOMAIN queue_
    BY <2>1
  <2> QED BY <2>1, <2>2, <2>3, <2>4 DEF HandedOver
<1>9. ASSUME NEW w \in Workers, CallTask(w) PROVE HandedOver'
  <2>1. PICK i \in DOMAIN popped : started' = Append(started, popped[i].task)
                                   /\ popped' = Promise!Without(popped, i)
    BY <1>9 DEF CallTask
  <2>2. UNCHANGED <<queue_, handed, submitting>>
    BY <1>9 DEF CallTask
  <2>3. \A k \in DOMAIN popped' : \E j \in DOMAIN popped : popped'[k] = popped[j]
    <3>1. /\ popped' \in Seq(PoppedTask) /\ Len(popped') = Len(popped) - 1
          /\ \A k \in 1..(Len(popped) - 1) :
               popped'[k] = IF k < i THEN popped[k] ELSE popped[k + 1]
      BY <2>1, WithoutOne
    <3>2. Len(popped) \in Nat /\ DOMAIN popped = 1..Len(popped)
          /\ DOMAIN popped' = 1..(Len(popped) - 1)
      BY <3>1
    <3>3. ASSUME NEW k \in DOMAIN popped'
          PROVE  \E j \in DOMAIN popped : popped'[k] = popped[j]
      <4>1. k \in DOMAIN popped /\ k + 1 \in DOMAIN popped
        BY <3>2
      <4>2. popped'[k] = popped[k] \/ popped'[k] = popped[k + 1]
        BY <3>1, <3>2
      <4> QED BY <4>1, <4>2
    <3> QED BY <3>3
  <2>4. \A k \in DOMAIN started' : started'[k] = popped[i].task
                                   \/ (k \in DOMAIN started /\ started'[k] = started[k])
    BY <2>1
  <2> QED BY <2>2, <2>3, <2>4 DEF HandedOver
<1>5. CASE start \/ stop \/ join \/ Spurious
  BY <1>1, <1>5 DEF start, stop, join, Spurious
<1>6. ASSUME NEW s \in Submitters, RunWaits(s) PROVE HandedOver'
  BY <1>1, <1>6 DEF RunWaits
<1>7. ASSUME NEW w \in Workers, CheckRunning(w) \/ TakeWaits(w) \/ TakeNothing(w)
                                 \/ TaskReturns(w)
      PROVE  HandedOver'
  BY <1>1, <1>7 DEF CheckRunning, TakeWaits, TakeNothing, TaskReturns
<1>8. CASE UNCHANGED vars
  BY <1>1, <1>8 DEF vars
<1> QED BY <1>2, <1>3, <1>4, <1>5, <1>6, <1>7, <1>8, <1>9
        DEF Next, RunStep, WorkerStep

(* A step of the pool is a step of the executor, or none. *)
LEMMA StepRefines ==
  ASSUME TypeOK, TypeOK', PoppedByWorkers, HandedOver, [Next]_vars
  PROVE  [Promise!Next]_(Promise!xvars)
<1>0. /\ popped \in Seq(PoppedTask)
      /\ popped' \in Seq(PoppedTask)
      /\ queue_ \in Seq(Tasks) /\ queue_' \in Seq(Tasks)
      /\ started \in Seq(Tasks)
  BY DEF TypeOK
<1>1. /\ Waiting \in Seq(Tasks) /\ Len(Waiting) = Len(popped) + Len(queue_)
      /\ \A i \in 1..Len(Waiting) :
           Waiting[i] = IF i <= Len(popped) THEN popped[i].task
                                            ELSE queue_[i - Len(popped)]
  <2>1. Waiting = Joined(popped, queue_)
    BY DEF Waiting, Joined
  <2> QED BY <1>0, <2>1, WaitingIs
<1>2. /\ Waiting' \in Seq(Tasks) /\ Len(Waiting') = Len(popped') + Len(queue_')
      /\ \A i \in 1..Len(Waiting') :
           Waiting'[i] = IF i <= Len(popped') THEN popped'[i].task
                                              ELSE queue_'[i - Len(popped')]
  <2>1. Waiting' = Joined(popped', queue_')
    BY DEF Waiting, Joined
  <2> QED BY <1>0, <2>1, WaitingIs
<1>3. /\ Len(popped) \in Nat /\ Len(queue_) \in Nat
      /\ DOMAIN popped = 1..Len(popped) /\ DOMAIN queue_ = 1..Len(queue_)
      /\ DOMAIN Waiting = 1..Len(Waiting)
  BY <1>0, <1>1, PoppedFacts
<1>4. CASE UNCHANGED <<popped, queue_, started>>
  BY <1>4 DEF Waiting, Promise!xvars
<1>5. ASSUME NEW t \in Tasks, \A i \in DOMAIN queue_ : queue_[i] # t,
             \A i \in DOMAIN popped : popped[i].task # t,
             \A i \in DOMAIN started : started[i] # t
      PROVE  t \notin Promise!Known
  <2>1. ASSUME NEW i \in DOMAIN Waiting PROVE Waiting[i] # t
    <3>1. CASE i <= Len(popped)
      BY <1>1, <1>3, <1>5, <3>1
    <3>2. CASE ~(i <= Len(popped))
      <4>1. i - Len(popped) \in DOMAIN queue_
        BY <1>1, <1>3, <3>2
      <4> QED BY <1>1, <1>3, <1>5, <3>2, <4>1
    <3> QED BY <3>1, <3>2
  <2> QED BY <1>5, <2>1 DEF Promise!Known
<1>6. ASSUME NEW s \in Submitters, NEW t \in Tasks, run(s, t)
      PROVE  [Promise!Next]_(Promise!xvars)
  <2>1. CASE Workers = {}
    <3>1. t \notin Promise!Known
      BY <1>5, <1>6 DEF run, HandedOver
    <3>2. started' = Append(started, t) /\ Waiting' = Waiting
      BY <1>6, <2>1 DEF run, Waiting
    <3>3. Promise!RunNow(t)
      BY <3>1, <3>2 DEF Promise!RunNow
    <3> QED BY <3>3 DEF Promise!Next
  <2>2. CASE Workers # {}
    BY <1>4, <1>6, <2>2 DEF run
  <2> QED BY <2>1, <2>2
<1>7. ASSUME NEW s \in Submitters, RunQueues(s)
      PROVE  [Promise!Next]_(Promise!xvars)
  <2>0. submitting[s] \in Tasks
    BY <1>7 DEF RunQueues, Submitting, TypeOK
  <2>1. submitting[s] \in Tasks /\ submitting[s] \notin Promise!Known
    BY <1>5, <1>7, <2>0 DEF RunQueues, Submitting, HandedOver
  <2>2. /\ queue_' = Append(queue_, submitting[s])
        /\ UNCHANGED <<popped, started>>
    BY <1>7 DEF RunQueues
  <2>3. Append(Waiting, submitting[s]) \in Seq(Tasks)
    BY <1>1, <2>1
  <2>4. Len(Waiting') = Len(Append(Waiting, submitting[s]))
    BY <1>1, <1>2, <2>1, <2>2
  <2>5. \A i \in 1..Len(Waiting') : Waiting'[i] = Append(Waiting, submitting[s])[i]
    BY <1>1, <1>2, <1>3, <2>1, <2>2
  <2>6. Waiting' = Append(Waiting, submitting[s])
    BY <1>2, <2>3, <2>4, <2>5, SeqEqual
  <2>7. Promise!Submit(submitting[s])
    BY <2>1, <2>2, <2>6 DEF Promise!Submit
  <2> QED BY <2>1, <2>7 DEF Promise!Next
<1>8. ASSUME NEW w \in Workers, Take(w) PROVE [Promise!Next]_(Promise!xvars)
  <2>1. /\ queue_ # <<>> /\ queue_' = Tail(queue_) /\ started' = started
        /\ popped' = Append(popped, [worker |-> w, task |-> Head(queue_)])
    BY <1>8 DEF Take
  <2>2. /\ Len(queue_') = Len(queue_) - 1 /\ Len(popped') = Len(popped) + 1
        /\ \A i \in 1..Len(popped) : popped'[i] = popped[i]
        /\ popped'[Len(popped) + 1].task = queue_[1]
        /\ \A i \in 1..(Len(queue_) - 1) : queue_'[i] = queue_[i + 1]
    BY <2>1
  <2>3. Len(Waiting') = Len(Waiting)
    BY <1>1, <1>2, <1>3, <2>2
  <2>4. ASSUME NEW i \in 1..Len(Waiting') PROVE Waiting'[i] = Waiting[i]
    <3>1. CASE i <= Len(popped)
      BY <1>1, <1>2, <1>3, <2>2, <2>3, <3>1
    <3>2. CASE i = Len(popped) + 1
      BY <1>1, <1>2, <1>3, <2>2, <2>3, <3>2
    <3>3. CASE i > Len(popped) + 1
      <4>1. i - Len(popped') = i - Len(popped) - 1
            /\ i - Len(popped') \in 1..(Len(queue_) - 1)
        BY <1>1, <1>3, <2>2, <2>3, <3>3
      <4>2. Waiting'[i] = queue_'[i - Len(popped')] /\ Waiting[i] = queue_[i - Len(popped)]
        BY <1>1, <1>2, <1>3, <2>2, <2>3, <3>3
      <4>3. queue_'[i - Len(popped')] = queue_[(i - Len(popped')) + 1]
        BY <2>2, <4>1
      <4>4. (i - Len(popped')) + 1 = i - Len(popped)
        BY <1>3, <2>2
      <4> QED BY <4>2, <4>3, <4>4
    <3> QED BY <1>3, <2>3, <3>1, <3>2, <3>3
  <2>5. Waiting' = Waiting
    BY <1>1, <1>2, <2>3, <2>4, SeqEqual
  <2> QED BY <2>1, <2>5 DEF Promise!xvars
<1>9. ASSUME NEW w \in Workers, CallTask(w) PROVE [Promise!Next]_(Promise!xvars)
  <2>1. PICK i \in DOMAIN popped : started' = Append(started, popped[i].task)
                                   /\ popped' = Promise!Without(popped, i)
    BY <1>9 DEF CallTask
  <2>2. queue_' = queue_
    BY <1>9 DEF CallTask
  <2>3. /\ Len(popped') = Len(popped) - 1
        /\ \A k \in 1..(Len(popped) - 1) :
             popped'[k] = IF k < i THEN popped[k] ELSE popped[k + 1]
    BY <1>0, <2>1, WithoutOne
  <2>4. i \in DOMAIN Waiting /\ Waiting[i] = popped[i].task
    BY <1>1, <1>3
  <2>5. /\ Promise!Without(Waiting, i) \in Seq(Tasks)
        /\ Len(Promise!Without(Waiting, i)) = Len(Waiting) - 1
        /\ \A k \in 1..(Len(Waiting) - 1) :
             Promise!Without(Waiting, i)[k] = IF k < i THEN Waiting[k]
                                                       ELSE Waiting[k + 1]
    BY <1>1, <2>4, WithoutOne
  <2>6. Len(Waiting') = Len(Promise!Without(Waiting, i))
    BY <1>1, <1>2, <1>3, <2>2, <2>3, <2>5
  <2>7. ASSUME NEW k \in 1..Len(Waiting')
        PROVE  Waiting'[k] = Promise!Without(Waiting, i)[k]
    <3>1. k \in 1..(Len(Waiting) - 1) /\ k \in Nat /\ i \in 1..Len(popped)
      BY <1>1, <1>3, <2>5, <2>6
    <3>2. CASE k < i
      <4>1. Waiting'[k] = popped'[k].task /\ popped'[k] = popped[k]
        BY <1>2, <1>3, <2>3, <3>1, <3>2
      <4>2. Waiting[k] = popped[k].task
        BY <1>1, <1>3, <3>1, <3>2
      <4> QED BY <2>5, <3>1, <3>2, <4>1, <4>2
    <3>3. CASE ~(k < i) /\ k <= Len(popped) - 1
      <4>1. Waiting'[k] = popped'[k].task /\ popped'[k] = popped[k + 1]
        BY <1>2, <1>3, <2>3, <3>1, <3>3
      <4>2. Waiting[k + 1] = popped[k + 1].task
        BY <1>1, <1>3, <3>1, <3>3
      <4> QED BY <2>5, <3>1, <3>3, <4>1, <4>2
    <3>4. CASE ~(k < i) /\ k > Len(popped) - 1
      <4>1. Waiting'[k] = queue_[k - (Len(popped) - 1)]
        BY <1>2, <1>3, <2>2, <2>3, <3>1, <3>4
      <4>2. Waiting[k + 1] = queue_[(k + 1) - Len(popped)]
        BY <1>1, <1>3, <3>1, <3>4
      <4>3. k - (Len(popped) - 1) = (k + 1) - Len(popped)
        BY <1>3, <3>1
      <4> QED BY <2>5, <3>1, <3>4, <4>1, <4>2, <4>3
    <3> QED BY <1>3, <3>1, <3>2, <3>3, <3>4
  <2>8. Waiting' = Promise!Without(Waiting, i)
    BY <1>2, <2>5, <2>6, <2>7, SeqEqual
  <2>9. i <= Cardinality(Workers)
    <3>1. Len(popped) <= Cardinality(Workers) /\ Cardinality(Workers) \in Nat
      BY PoppedFew, FS_CardinalityType, PoolAssumption
    <3> QED BY <1>3, <3>1
  <2>10. Promise!RunNext(i)
    BY <2>1, <2>4, <2>8, <2>9 DEF Promise!RunNext
  <2> QED BY <2>4, <2>10 DEF Promise!Next
<1>10. CASE start \/ stop \/ join \/ Spurious \/ UNCHANGED vars
  BY <1>4, <1>10 DEF start, stop, join, Spurious, vars
<1>11. ASSUME NEW s \in Submitters, RunWaits(s)
       PROVE  [Promise!Next]_(Promise!xvars)
  BY <1>4, <1>11 DEF RunWaits
<1>12. ASSUME NEW w \in Workers, CheckRunning(w) \/ TakeWaits(w) \/ TakeNothing(w)
                                  \/ TaskReturns(w)
       PROVE  [Promise!Next]_(Promise!xvars)
  BY <1>4, <1>12 DEF CheckRunning, TakeWaits, TakeNothing, TaskReturns
<1> QED BY <1>6, <1>7, <1>8, <1>9, <1>10, <1>11, <1>12 DEF Next, RunStep, WorkerStep

(* For any number of workers, ThreadPool calls every task once, and a task *)
(* overtakes fewer tasks than there are workers: those that the other      *)
(* workers have popped (ThreadPool.cc:102-103) and not called (128-131).   *)
THEOREM ImplementsExecutor == Spec => ExecutorSpec
<1>1. Init => HandedOver /\ PoppedByWorkers /\ Promise!Init
  <2> SUFFICES ASSUME Init PROVE HandedOver /\ PoppedByWorkers /\ Promise!Init
    OBVIOUS
  <2>1. HandedOver /\ PoppedByWorkers
    BY DEF Init, HandedOver, PoppedByWorkers
  <2>2. Len(Waiting) = 0 /\ Waiting \in Seq(Tasks)
    <3>1. Waiting = Joined(<<>>, <<>>)
      BY DEF Init, Waiting, Joined
    <3>2. <<>> \in Seq(PoppedTask) /\ <<>> \in Seq(Tasks)
      OBVIOUS
    <3>3. Joined(<<>>, <<>>) \in Seq(Tasks) /\ Len(Joined(<<>>, <<>>)) = 0 + 0
      BY <3>2, WaitingIs
    <3> QED BY <3>1, <3>3
  <2>3. Waiting = <<>>
    BY <2>2
  <2> QED BY <2>1, <2>3 DEF Init, Promise!Init
<1>2. TypeOK /\ HandedOver /\ [Next]_vars => HandedOver'
  BY HandedStep
<1>3. TypeOK /\ PoppedByWorkers /\ [Next]_vars => PoppedByWorkers'
  BY PoppedStep
<1>4. TypeOK /\ TypeOK' /\ PoppedByWorkers /\ HandedOver /\ [Next]_vars
        => [Promise!Next]_(Promise!xvars)
  BY StepRefines
<1> QED
  BY <1>1, <1>2, <1>3, <1>4, TypeCorrect, PTL DEF Spec, ExecutorSpec, Promise!Spec
=============================================================================

--------------------------- MODULE EventLoopProofs ---------------------------
(***************************************************************************)
(* Proofs about EventLoop, for any set of calling threads, functors and    *)
(* channels: its state is well formed, no wakeup is lost, and functors are *)
(* run as Executor promises.  And about EventLoopThreadPool, for any       *)
(* number of loops: their hand-over, the round robin and quit().           *)
(***************************************************************************)
EXTENDS EventLoop, EventLoopThreadPool, SequenceTheorems, TLAPS

(* Outside the part of an iteration that ends in the swap of the pending   *)
(* functors, a functor that waits has a wakeup under way.  NoLostWakeup is *)
(* the case of the loop about to poll; the others make it inductive.       *)
WakeupOwed ==
  loopPc \in {"out", "check", "poll", "run"} /\ Unrun # {} => WakeupComing

IInv == TypeOK /\ LoopThreadConsistent /\ WakeupOwed

-----------------------------------------------------------------------------
(* The constructor leaves every variable in its type. *)
LEMMA TypeInit == Init => TypeOK
<1> SUFFICES ASSUME Init PROVE TypeOK
  OBVIOUS
<1>1. quit_ \in BOOLEAN /\ wakeupFd \in BOOLEAN /\ inCallback \in BOOLEAN
      /\ callingPendingFunctors_ \in BOOLEAN
  BY Zenon DEF Init
<1> QED BY <1>1 DEF Init, TypeOK, Threads

(* Every step keeps the variables in their types. *)
LEMMA TypeStep == TypeOK /\ [Next]_vars => TypeOK'
<1> SUFFICES ASSUME TypeOK, [Next]_vars PROVE TypeOK'
  OBVIOUS
<1> USE DEF TypeOK, Threads
<1>1. ASSUME NEW t \in Threads, NEW f \in Functors, queueInLoop(t, f)
      PROVE  TypeOK'
  BY <1>1 DEF queueInLoop, loopVars
<1>2. ASSUME NEW t \in Threads, NEW f \in Functors, runInLoop(t, f)
      PROVE  TypeOK'
  <2>1. CASE ~isInLoopThread(t) /\ queueInLoop(t, f)
    BY <1>1, <2>1
  <2>2. CASE isInLoopThread(t)
    BY <1>2, <2>2, SMTT(60) DEF runInLoop, loopVars
  <2> QED BY <1>1, <1>2, <2>1, <2>2 DEF runInLoop
<1>3. ASSUME NEW t \in Threads, quit(t) PROVE TypeOK'
  BY <1>3 DEF quit, loopVars
<1>4. ASSUME NEW t \in Threads, wakeup(t) PROVE TypeOK'
  <2>1. wakeupFd' \in BOOLEAN
    BY <1>4, Zenon DEF wakeup
  <2> QED BY <1>4, <2>1 DEF wakeup, loopVars
<1>5. CASE StartLoop
  BY <1>5 DEF StartLoop
<1>6. CASE CheckQuit
  BY <1>6 DEF CheckQuit, callVars
<1>7. CASE PollReady \/ PollTimeout
  BY <1>7 DEF PollReady, PollTimeout, PollReturns, ReadyChannels, callVars
<1>8. CASE handleRead
  BY <1>8 DEF handleRead, callVars
<1>9. ASSUME NEW c \in Channels, HandleEvent(c) PROVE TypeOK'
  BY <1>9 DEF HandleEvent, callVars
<1>10. CASE CallbackReturns
  BY <1>10 DEF CallbackReturns, callVars
<1>11. CASE EndHandling
  BY <1>11 DEF EndHandling, callVars
<1>12. CASE SwapPendingFunctors
  BY <1>12 DEF SwapPendingFunctors
<1>13. CASE RunFunctor
  BY <1>13 DEF RunFunctor, callVars
<1>14. CASE EndPendingFunctors
  BY <1>14 DEF EndPendingFunctors, callVars
<1>15. ASSUME NEW c \in Channels, EventArrives(c) PROVE TypeOK'
  BY <1>15 DEF EventArrives, callVars
<1>16. CASE UNCHANGED vars
  BY <1>16 DEF vars
<1> QED
  BY <1>1, <1>2, <1>3, <1>4, <1>5, <1>6, <1>7, <1>8, <1>9, <1>10, <1>11,
     <1>12, <1>13, <1>14, <1>15, <1>16 DEF Next, Call, LoopStep

(* The loop's state is well formed whatever threads call it (EventLoop.cc).*)
THEOREM TypeCorrect == Spec => []TypeOK
  BY TypeInit, TypeStep, PTL DEF Spec

-----------------------------------------------------------------------------
(* Every step keeps the loop thread's bookkeeping consistent. *)
LEMMA ConsistentStep ==
  TypeOK /\ LoopThreadConsistent /\ [Next]_vars => LoopThreadConsistent'
<1> SUFFICES ASSUME TypeOK, LoopThreadConsistent, [Next]_vars
             PROVE  LoopThreadConsistent'
  OBVIOUS
<1> USE DEF TypeOK, LoopThreadConsistent, Threads
<1>1. ASSUME NEW t \in Threads, NEW f \in Functors, queueInLoop(t, f)
      PROVE  LoopThreadConsistent'
  BY <1>1 DEF queueInLoop, loopVars, UserCode
<1>2. ASSUME NEW t \in Threads, NEW f \in Functors, runInLoop(t, f)
      PROVE  LoopThreadConsistent'
  <2>1. CASE ~isInLoopThread(t) /\ queueInLoop(t, f)
    BY <1>1, <2>1
  <2>2. CASE isInLoopThread(t)
    BY <1>2, <2>2 DEF runInLoop, loopVars
  <2> QED BY <1>1, <1>2, <2>1, <2>2 DEF runInLoop
<1>3. ASSUME NEW t \in Threads, quit(t) PROVE LoopThreadConsistent'
  BY <1>3 DEF quit, loopVars, UserCode, isInLoopThread
<1>4. ASSUME NEW t \in Threads, wakeup(t) PROVE LoopThreadConsistent'
  BY <1>4 DEF wakeup, loopVars
<1>5. CASE StartLoop
  BY <1>5 DEF StartLoop
<1>6. CASE CheckQuit
  BY <1>6 DEF CheckQuit, callVars
<1>7. CASE PollReady \/ PollTimeout
  BY <1>7 DEF PollReady, PollTimeout, PollReturns, callVars
<1>8. CASE handleRead
  BY <1>8 DEF handleRead, callVars
<1>9. ASSUME NEW c \in Channels, HandleEvent(c) PROVE LoopThreadConsistent'
  BY <1>9 DEF HandleEvent, callVars
<1>10. CASE CallbackReturns
  BY <1>10 DEF CallbackReturns, callVars
<1>11. CASE EndHandling
  BY <1>11 DEF EndHandling, callVars
<1>12. CASE SwapPendingFunctors
  BY <1>12 DEF SwapPendingFunctors
<1>13. CASE RunFunctor
  BY <1>13 DEF RunFunctor, callVars
<1>14. CASE EndPendingFunctors
  BY <1>14 DEF EndPendingFunctors, callVars
<1>15. ASSUME NEW c \in Channels, EventArrives(c) PROVE LoopThreadConsistent'
  BY <1>15 DEF EventArrives, callVars
<1>16. CASE UNCHANGED vars
  BY <1>16 DEF vars
<1> QED
  BY <1>1, <1>2, <1>3, <1>4, <1>5, <1>6, <1>7, <1>8, <1>9, <1>10, <1>11,
     <1>12, <1>13, <1>14, <1>15, <1>16 DEF Next, Call, LoopStep

(* Queueing a functor leaves a wakeup under way, or the swap to come. *)
LEMMA QueueOwes ==
  ASSUME IInv, NEW t \in Threads, NEW f \in Functors, queueInLoop(t, f)
  PROVE  WakeupOwed'
<1> USE DEF IInv, TypeOK, LoopThreadConsistent, Threads, queueInLoop, loopVars,
            isInLoopThread, NeedsWakeup
<1>1. CASE t # LoopThread \/ loopPc = "run"
  BY <1>1 DEF WakeupOwed, WakeupComing
<1>2. CASE t = LoopThread /\ loopPc = "out"
  <2>1. ASSUME Unrun' # {} PROVE Unrun # {}
    <3>1. PICK i \in DOMAIN pendingFunctors_' : pendingFunctors_'[i] \notin early'
      BY <2>1 DEF Unrun
    <3>2. i \in DOMAIN pendingFunctors_ /\ pendingFunctors_[i] \notin early
      BY <1>2, <3>1
    <3> QED BY <3>2 DEF Unrun
  <2>2. WakeupComing => WakeupComing'
    BY <1>2 DEF UserCode, WakeupComing
  <2> QED BY <1>2, <2>1, <2>2 DEF WakeupOwed
<1>3. CASE loopPc \notin {"out", "run"} /\ t = LoopThread
  BY <1>3 DEF UserCode, WakeupOwed
<1> QED BY <1>1, <1>2, <1>3

(* Every step preserves the inductive invariant. *)
LEMMA InvStep == IInv /\ [Next]_vars => IInv'
<1> SUFFICES ASSUME IInv, [Next]_vars PROVE WakeupOwed'
  BY TypeStep, ConsistentStep DEF IInv
<1> USE DEF IInv, TypeOK, LoopThreadConsistent, Threads, isInLoopThread,
            WakeupOwed, WakeupComing, Unrun, NeedsWakeup
<1>1. ASSUME NEW t \in Threads, NEW f \in Functors, queueInLoop(t, f)
      PROVE  WakeupOwed'
  BY <1>1, QueueOwes
<1>2. ASSUME NEW t \in Threads, NEW f \in Functors, runInLoop(t, f)
      PROVE  WakeupOwed'
  <2>1. CASE ~isInLoopThread(t) /\ queueInLoop(t, f)
    BY <1>1, <2>1
  <2>2. CASE isInLoopThread(t)
    BY <1>2, <2>2 DEF runInLoop, loopVars
  <2> QED BY <1>1, <1>2, <2>1, <2>2 DEF runInLoop
<1>3. ASSUME NEW t \in Threads, quit(t) PROVE WakeupOwed'
  BY <1>3 DEF quit, loopVars, UserCode
<1>4. ASSUME NEW t \in Threads, wakeup(t) PROVE WakeupOwed'
  BY <1>4 DEF wakeup, loopVars
<1>5. CASE StartLoop
  BY <1>5 DEF StartLoop
<1>6. CASE CheckQuit
  BY <1>6 DEF CheckQuit, callVars
<1>7. CASE PollReady \/ PollTimeout
  BY <1>7 DEF PollReady, PollTimeout, PollReturns, callVars
<1>8. CASE handleRead
  BY <1>8 DEF handleRead, callVars
<1>9. ASSUME NEW c \in Channels, HandleEvent(c) PROVE WakeupOwed'
  BY <1>9 DEF HandleEvent, callVars
<1>10. CASE CallbackReturns
  BY <1>10 DEF CallbackReturns, callVars
<1>11. CASE EndHandling
  BY <1>11 DEF EndHandling, callVars
<1>12. CASE SwapPendingFunctors
  BY <1>12 DEF SwapPendingFunctors
<1>13. CASE RunFunctor
  BY <1>13 DEF RunFunctor, callVars
<1>14. CASE EndPendingFunctors
  BY <1>14 DEF EndPendingFunctors, callVars
<1>15. ASSUME NEW c \in Channels, EventArrives(c) PROVE WakeupOwed'
  BY <1>15 DEF EventArrives, callVars
<1>16. CASE UNCHANGED vars
  BY <1>16 DEF vars
<1> QED
  BY <1>1, <1>2, <1>3, <1>4, <1>5, <1>6, <1>7, <1>8, <1>9, <1>10, <1>11,
     <1>12, <1>13, <1>14, <1>15, <1>16 DEF Next, Call, LoopStep

(* The inductive invariant holds of every reachable state. *)
THEOREM Invariant == Spec => []IInv
<1>1. Init => TypeOK
  BY TypeInit
<1>2. Init => LoopThreadConsistent /\ WakeupOwed
  BY DEF Init, LoopThreadConsistent, WakeupOwed, Unrun, Threads
<1>3. Init => IInv
  BY <1>1, <1>2 DEF IInv
<1> QED BY <1>3, InvStep, PTL DEF Spec

(* No interleaving of queueInLoop with the loop makes it sleep in poll on  *)
(* a functor that was queued (EventLoop.cc:160-171, 254-269).              *)
THEOREM NoWakeupIsLost == Spec => []NoLostWakeup
<1>1. IInv => NoLostWakeup
  BY DEF IInv, WakeupOwed, NoLostWakeup
<1> QED BY <1>1, Invariant, PTL

(* callingPendingFunctors_ is exactly "the batch is being run", for every  *)
(* number of calling threads.                                              *)
THEOREM LoopThreadIsConsistent == Spec => []LoopThreadConsistent
<1>1. IInv => LoopThreadConsistent
  BY DEF IInv
<1> QED BY <1>1, Invariant, PTL

-----------------------------------------------------------------------------
(* The functors the loop holds or has run are functors it was given: with  *)
(* it a functor just handed over is new to Executor too.                   *)
HandedOver ==
  /\ \A i \in DOMAIN functors : functors[i] \in taken
  /\ \A i \in DOMAIN pendingFunctors_ : pendingFunctors_[i] \in taken
  /\ \A i \in DOMAIN ran : ran[i] \in taken

Mapped == functors \o pendingFunctors_

(* The first element of a concatenation and the rest of it. *)
LEMMA HeadTailConcat ==
  ASSUME NEW S, NEW s \in Seq(S), NEW t \in Seq(S), s # <<>>
  PROVE  s \o t # <<>> /\ Head(s \o t) = Head(s) /\ Tail(s \o t) = Tail(s) \o t
<1>1. s \o t \in Seq(S) /\ s \o t # <<>>
  BY ConcatProperties, EmptySeq
<1>2. Head(s \o t) = Head(s)
  BY <1>1, ConcatProperties
<1>3. Tail(s) \in Seq(S) /\ Tail(s \o t) \in Seq(S)
  BY <1>1
<1>4. Len(Tail(s \o t)) = Len(Tail(s) \o t)
  BY <1>1, <1>3, ConcatProperties, HeadTailProperties
<1>5. ASSUME NEW i \in 1 .. Len(Tail(s \o t))
      PROVE  Tail(s \o t)[i] = (Tail(s) \o t)[i]
  BY <1>1, <1>3, <1>5, ConcatProperties, HeadTailProperties
<1>6. Tail(s) \o t \in Seq(S)
  BY <1>3, ConcatProperties
<1> QED BY <1>1, <1>2, <1>3, <1>4, <1>5, <1>6, SeqEqual

(* Appending to the second of two sequences appends to the concatenation. *)
LEMMA ConcatAppend ==
  ASSUME NEW S, NEW s \in Seq(S), NEW t \in Seq(S), NEW e \in S
  PROVE  s \o Append(t, e) = Append(s \o t, e)
<1>1. <<e>> \in Seq(S) /\ s \o t \in Seq(S)
  BY ConcatProperties
<1>2. s \o Append(t, e) = s \o (t \o <<e>>)
  BY AppendIsConcat
<1>3. Append(s \o t, e) = (s \o t) \o <<e>>
  BY <1>1, AppendIsConcat
<1> QED BY <1>1, <1>2, <1>3, ConcatAssociative

(* Every step keeps what the loop holds among what it was given. *)
LEMMA HandedOverStep == TypeOK /\ HandedOver /\ [Next]_vars => HandedOver'
<1> SUFFICES ASSUME TypeOK, HandedOver, [Next]_vars PROVE HandedOver'
  OBVIOUS
<1> USE DEF TypeOK, HandedOver, Threads
<1>1. ASSUME NEW t \in Threads, NEW f \in Functors, queueInLoop(t, f)
      PROVE  HandedOver'
  BY <1>1 DEF queueInLoop, loopVars
<1>2. ASSUME NEW t \in Threads, NEW f \in Functors, runInLoop(t, f)
      PROVE  HandedOver'
  <2>1. CASE ~isInLoopThread(t) /\ queueInLoop(t, f)
    BY <1>1, <2>1
  <2>2. CASE isInLoopThread(t)
    <3>1. \A i \in DOMAIN ran' : ran'[i] \in taken'
      BY <1>2, <2>2, SMTT(60) DEF runInLoop
    <3> QED BY <1>2, <2>2, <3>1 DEF runInLoop, loopVars
  <2> QED BY <1>1, <1>2, <2>1, <2>2 DEF runInLoop
<1>3. CASE SwapPendingFunctors
  BY <1>3 DEF SwapPendingFunctors
<1>4. CASE RunFunctor
  <2>1. Head(functors) = functors[1] /\ 1 \in DOMAIN functors
    BY <1>4 DEF RunFunctor
  <2>2. \A i \in DOMAIN functors' : functors'[i] \in taken'
    BY <1>4 DEF RunFunctor, callVars
  <2>3. \A i \in DOMAIN ran' : ran'[i] \in taken'
    BY <1>4, <2>1 DEF RunFunctor, callVars
  <2> QED BY <1>4, <2>2, <2>3 DEF RunFunctor, callVars
<1>5. CASE UNCHANGED <<functors, pendingFunctors_, ran, taken>>
  BY <1>5
<1> QED
  BY <1>1, <1>2, <1>3, <1>4, <1>5
  DEF Next, Call, LoopStep, quit, wakeup, StartLoop, CheckQuit, PollReady,
      PollTimeout, PollReturns, handleRead, HandleEvent, CallbackReturns,
      EndHandling, EndPendingFunctors, EventArrives, vars, loopVars, callVars

(* A functor that was not handed over is new to Executor. *)
LEMMA NewFunctor ==
  ASSUME TypeOK, HandedOver, NEW f \in Functors, f \notin taken
  PROVE  f \notin Promise!Known
<1>1. ASSUME NEW i \in DOMAIN Mapped PROVE Mapped[i] # f
  <2>1. Mapped \in Seq(Functors) /\ Len(Mapped) = Len(functors) + Len(pendingFunctors_)
    BY ConcatProperties DEF TypeOK, Mapped
  <2>2. Mapped[i] = IF i <= Len(functors) THEN functors[i]
                    ELSE pendingFunctors_[i - Len(functors)]
    BY <2>1, ConcatProperties DEF TypeOK, Mapped
  <2> QED BY <2>1, <2>2 DEF TypeOK, HandedOver
<1> QED BY <1>1 DEF Promise!Known, Mapped, HandedOver

(* A queue without its first element. *)
LEMMA FirstOut ==
  ASSUME NEW T, NEW q \in Seq(T), q # <<>>
  PROVE  /\ 1 \in DOMAIN q /\ q[1] = Head(q)
         /\ Promise!Without(q, 1) = Tail(q)
<1> DEFINE w == Promise!Without(q, 1)
<1>1. Len(q) \in Nat /\ Len(q) - 1 \in Nat /\ 1 \in DOMAIN q /\ q[1] = Head(q)
  OBVIOUS
<1>2. w \in [1..(Len(q) - 1) -> T]
  BY <1>1 DEF Promise!Without
<1>3. w \in Seq(T)
  BY <1>1, <1>2, SeqDef
<1>4. Len(w) = Len(Tail(q)) /\ Tail(q) \in Seq(T)
  BY <1>1, <1>2, <1>3
<1>5. \A k \in 1..Len(w) : w[k] = Tail(q)[k]
  BY <1>1, <1>2, <1>3, <1>4 DEF Promise!Without
<1>6. w = Tail(q)
  BY <1>3, <1>4, <1>5, SeqEqual
<1> QED BY <1>1, <1>6

(* Every step of the loop and its callers is a step of Executor, or leaves *)
(* the queue and the log as they were.                                     *)
LEMMA ExecutorStep ==
  TypeOK /\ LoopThreadConsistent /\ HandedOver /\ [Next]_vars
    => [Promise!Next]_(Promise!xvars)
<1> SUFFICES ASSUME TypeOK, LoopThreadConsistent, HandedOver, [Next]_vars
             PROVE  [Promise!Next]_(Promise!xvars)
  OBVIOUS
<1>1. ASSUME NEW t \in Threads, NEW f \in Functors, queueInLoop(t, f)
      PROVE  Promise!Next
  <2>1. f \notin Promise!Known
    BY <1>1, NewFunctor DEF queueInLoop
  <2>2. Mapped' = Append(Mapped, f)
    BY <1>1, ConcatAppend DEF queueInLoop, loopVars, TypeOK, Mapped
  <2>3. Promise!Submit(f)
    BY <1>1, <2>1, <2>2 DEF Promise!Submit, queueInLoop, Mapped
  <2> QED BY <2>3 DEF Promise!Next
<1>2. ASSUME NEW t \in Threads, NEW f \in Functors, runInLoop(t, f)
      PROVE  Promise!Next
  <2>1. CASE ~isInLoopThread(t) /\ queueInLoop(t, f)
    BY <1>1, <2>1
  <2>2. CASE isInLoopThread(t)
    <3>1. f \notin Promise!Known
      BY <1>2, <2>2, NewFunctor DEF runInLoop
    <3>2. Promise!RunNow(f)
      BY <1>2, <2>2, <3>1 DEF Promise!RunNow, runInLoop, loopVars
    <3> QED BY <3>2 DEF Promise!Next
  <2> QED BY <1>2, <2>1, <2>2 DEF runInLoop
<1>3. ASSUME RunFunctor PROVE Promise!Next
  <2>1. Mapped # <<>> /\ Head(Mapped) = Head(functors)
        /\ Tail(Mapped) = Tail(functors) \o pendingFunctors_
    BY <1>3, HeadTailConcat DEF RunFunctor, TypeOK, Mapped
  <2>2. Mapped \in Seq(Functors)
    BY ConcatProperties DEF TypeOK, Mapped
  <2>3. 1 \in DOMAIN Mapped /\ Mapped[1] = Head(Mapped)
        /\ Promise!Without(Mapped, 1) = Tail(Mapped)
    BY <2>1, <2>2, FirstOut
  <2>4. Mapped' = Tail(Mapped) /\ ran' = Append(ran, Mapped[1])
    BY <1>3, <2>1, <2>3 DEF RunFunctor, callVars, Mapped
  <2>5. Promise!RunNext(1)
    BY <2>3, <2>4 DEF Promise!RunNext, Mapped
  <2> QED BY <2>3, <2>5 DEF Promise!Next, Mapped
<1>4. ASSUME SwapPendingFunctors PROVE UNCHANGED Promise!xvars
  <2>1. functors = <<>>
    BY <1>4 DEF SwapPendingFunctors, LoopThreadConsistent
  <2>2. Mapped' = Mapped
    BY <1>4, <2>1, ConcatEmptySeq DEF SwapPendingFunctors, TypeOK, Mapped
  <2> QED BY <1>4, <2>2 DEF SwapPendingFunctors, Promise!xvars, Mapped
<1>5. ASSUME UNCHANGED <<functors, pendingFunctors_, ran>>
      PROVE  UNCHANGED Promise!xvars
  BY <1>5 DEF Promise!xvars
<1> QED
  BY <1>1, <1>2, <1>3, <1>4, <1>5
  DEF Next, Call, LoopStep, quit, wakeup, StartLoop, CheckQuit, PollReady,
      PollTimeout, PollReturns, handleRead, HandleEvent, CallbackReturns,
      EndHandling, EndPendingFunctors, EventArrives, vars, loopVars, callVars

(* EventLoop implements Executor: whatever the interleaving of callers,    *)
(* handlers and batches, each functor runs at most once and the queued     *)
(* ones run in the order of their push_back (EventLoop.h:67-75).           *)
THEOREM ImplementsExecutor == Spec => ExecutorSpec
<1>1. Init => Promise!Init
  BY ConcatEmptySeq DEF Init, Promise!Init
<1>2. Init => HandedOver
  BY DEF Init, HandedOver
<1>3. IInv => TypeOK /\ LoopThreadConsistent
  BY DEF IInv
<1>4. Spec => []HandedOver
  BY <1>2, TypeCorrect, HandedOverStep, PTL DEF Spec
<1> QED
  BY <1>1, <1>3, <1>4, Invariant, ExecutorStep, PTL
  DEF Spec, ExecutorSpec, Promise!Spec

-----------------------------------------------------------------------------
(* EventLoopThreadPool.                                                    *)

Entered == {"enter", "loop", "left"}

(* loop_ is set from the publication of the loop until the end of the      *)
(* thread, and a thread has left loop() only because of a quit().          *)
PointerInv ==
  \A i \in Ids :
    /\ loop_[i] <=> thread[i] \in Entered
    /\ thread[i] \in {"left", "cleared", "gone"} => quits[i]

(* Where the owner is, and that the loops it has collected were published. *)
OwnerInv ==
  /\ owner \in {"wait", "dtor", "quit", "wake", "join"} => cur \in Ids
  /\ owner = "new" => cur = 0
  /\ owner = "started" => cur = numThreads_
  /\ owner \in {"new", "start", "wait"} => \A i \in Ids : cur < i => thread[i] = "none"
  /\ \A i \in Ids :
       (owner \in {"started", "dtor", "quit", "wake", "join", "end"} \/ Started(i))
         => thread[i] \in Entered \cup {"cleared", "gone"}

(* A loop that users leave alone is quit by its own destructor only. *)
QuitInv ==
  \A i \in Ids \ UserQuits :
    /\ <<i, "store">> \notin wild
    /\ quits[i] => \/ owner = "end"
                   \/ owner \in {"dtor", "quit", "wake", "join"} /\ i < cur
                   \/ owner \in {"wake", "join"} /\ i = cur

(* The loops before next_ have been handed out once more than the others. *)
RobinInv ==
  \A i, j \in Ids :
    /\ (i <= next_ <=> j <= next_) => served[i] = served[j]
    /\ (i <= next_ /\ next_ < j) => served[i] = served[j] + 1

PoolInv == PoolTypeOK /\ PointerInv /\ OwnerInv /\ QuitInv /\ RobinInv

(* The state is well typed initially and after every step. *)
LEMMA PoolTypeInit == ASSUME PoolInit PROVE PoolTypeOK
  BY PoolAssumption DEF PoolInit, PoolTypeOK, Ids

LEMMA PoolTypeStep ==
  ASSUME PoolTypeOK, OwnerInv, [PoolNext]_poolVars
  PROVE  PoolTypeOK'
<1> USE PoolAssumption DEF Ids, threadVars, ownerVars
<1>1. CASE start
  <2>1. CASE cur < numThreads_
    <3>1. cur + 1 \in Ids /\ cur' = cur + 1 /\ owner' = "wait"
      BY <1>1, <2>1 DEF start, PoolTypeOK
    <3>2. thread' \in [Ids -> {"none", "callback", "publish", "enter", "loop",
                               "left", "cleared", "gone"}]
      BY <1>1, <2>1 DEF start, PoolTypeOK
    <3> QED BY <1>1, <3>1, <3>2 DEF start, PoolTypeOK
  <2>2. CASE ~(cur < numThreads_)
    BY <1>1, <2>2 DEF start, PoolTypeOK
  <2> QED BY <2>1, <2>2
<1>2. CASE startLoop
  BY <1>2 DEF startLoop, PoolTypeOK
<1>3. CASE getNextLoop
  <2>1. next_' \in Nat /\ (next_' = 0 \/ next_' < numThreads_)
    BY <1>3 DEF getNextLoop, PoolTypeOK, Advance
  <2>2. served' \in [0 .. numThreads_ -> 0 .. MaxServed]
    BY <1>3 DEF getNextLoop, PoolTypeOK
  <2> QED BY <1>3, <2>1, <2>2 DEF getNextLoop, PoolTypeOK
<1>4. CASE destroy
  BY <1>4 DEF destroy, PoolTypeOK
<1>5. CASE dtorTests
  BY <1>5 DEF dtorTests, NextDtor, PoolTypeOK, OwnerInv
<1>6. CASE dtorQuits \/ dtorWakesUp
  <2>1. cur \in Ids
    BY <1>6 DEF dtorQuits, dtorWakesUp, OwnerInv
  <2>2. wild' \subseteq Ids \X {"store", "wakeup"}
    BY <1>6, <2>1 DEF dtorQuits, dtorWakesUp, PoolTypeOK
  <2> QED BY <1>6, <2>1, <2>2 DEF dtorQuits, dtorWakesUp, PoolTypeOK
<1>7. CASE dtorJoins
  BY <1>7 DEF dtorJoins, NextDtor, PoolTypeOK, OwnerInv
<1>8. ASSUME NEW i \in Ids, ThreadStep(i) \/ UserQuit(i) PROVE PoolTypeOK'
  <2>1. thread' \in [Ids -> {"none", "callback", "publish", "enter", "loop",
                             "left", "cleared", "gone"}]
    BY <1>8 DEF ThreadStep, Goes, callback, publish, EnterLoop,
         LeaveLoop, clearPointer, ThreadEnds, UserQuit, PoolTypeOK
  <2>2. loop_' \in [Ids -> BOOLEAN] /\ quits' \in [Ids -> BOOLEAN]
    BY <1>8 DEF ThreadStep, Goes, callback, publish, EnterLoop,
         LeaveLoop, clearPointer, ThreadEnds, UserQuit, PoolTypeOK
  <2>3. UNCHANGED <<owner, cur, next_, served, wild>>
    BY <1>8 DEF ThreadStep, callback, publish, EnterLoop, LeaveLoop,
                clearPointer, ThreadEnds, UserQuit
  <2> QED BY <2>1, <2>2, <2>3 DEF PoolTypeOK
<1>9. CASE UNCHANGED poolVars
  BY <1>9 DEF poolVars, PoolTypeOK
<1> QED BY <1>1, <1>2, <1>3, <1>4, <1>5, <1>6, <1>7, <1>8, <1>9
        DEF PoolNext, OwnerStep

-----------------------------------------------------------------------------
(* Initially no thread is there, and the owner has nothing. *)
LEMMA PoolInvInit == ASSUME PoolInit PROVE PoolInv
<1> USE PoolAssumption DEF Ids
<1>1. PoolTypeOK
  BY PoolTypeInit
<1>2. PointerInv
  BY DEF PoolInit, PointerInv, Entered
<1>3. OwnerInv
  BY DEF PoolInit, OwnerInv, Started
<1>4. QuitInv /\ RobinInv
  BY DEF PoolInit, QuitInv, RobinInv
<1> QED BY <1>1, <1>2, <1>3, <1>4 DEF PoolInv

(* What a step of a thread, or of a user in it, leaves alone. *)
LEMMA ThreadStepLocal ==
  ASSUME NEW i \in Ids, ThreadStep(i) \/ UserQuit(i)
  PROVE  UNCHANGED <<owner, cur, next_, served, wild>>
  BY DEF ThreadStep, callback, publish, EnterLoop, LeaveLoop,
       clearPointer, ThreadEnds, UserQuit, ownerVars

(* The pointers follow their threads. *)
LEMMA PointerStep == ASSUME PoolInv, [PoolNext]_poolVars PROVE PointerInv'
<1> USE PoolAssumption DEF Ids, threadVars, ownerVars, Entered
<1>1. CASE start
  <2>1. CASE cur < numThreads_
    <3>1. cur + 1 \in Ids /\ thread' = [thread EXCEPT ![cur + 1] = "callback"]
          /\ UNCHANGED <<loop_, quits>>
      BY <1>1, <2>1 DEF start, PoolInv, PoolTypeOK
    <3>2. thread[cur + 1] = "none"
      BY <1>1, <3>1 DEF start, PoolInv, PoolTypeOK, OwnerInv
    <3>3. loop_[cur + 1] <=> thread[cur + 1] \in Entered
      BY <3>1 DEF PoolInv, PointerInv
    <3> QED BY <3>1, <3>2, <3>3 DEF PoolInv, PoolTypeOK, PointerInv
  <2>2. CASE ~(cur < numThreads_)
    BY <1>1, <2>2 DEF start, PoolInv, PoolTypeOK, PointerInv
  <2> QED BY <2>1, <2>2
<1>2. CASE startLoop \/ getNextLoop \/ destroy \/ dtorTests \/ dtorJoins
  BY <1>2 DEF startLoop, getNextLoop, destroy, dtorTests, dtorJoins,
       PoolInv, PointerInv
<1>3. CASE dtorQuits \/ dtorWakesUp
  BY <1>3 DEF dtorQuits, dtorWakesUp, PoolInv, PoolTypeOK, PointerInv
<1>4. ASSUME NEW i \in Ids, ThreadStep(i) \/ UserQuit(i) PROVE PointerInv'
  BY <1>4, ZenonT(60) DEF ThreadStep, Goes, callback, publish,
       EnterLoop, LeaveLoop, clearPointer, ThreadEnds, UserQuit, PoolInv, PoolTypeOK,
       PointerInv
<1>5. CASE UNCHANGED poolVars
  BY <1>5 DEF poolVars, PoolInv, PointerInv
<1> QED BY <1>1, <1>2, <1>3, <1>4, <1>5 DEF PoolNext, OwnerStep

(* The owner collects loops that have been published, and no thread goes   *)
(* back.                                                                   *)
LEMMA OwnerInvStep == ASSUME PoolInv, [PoolNext]_poolVars PROVE OwnerInv'
<1> USE PoolAssumption DEF Ids, threadVars, ownerVars, Entered
<1>1. CASE start
  <2>1. CASE cur < numThreads_
    BY <1>1, <2>1 DEF start, PoolInv, PoolTypeOK, OwnerInv, Started
  <2>2. CASE ~(cur < numThreads_)
    BY <1>1, <2>2 DEF start, PoolInv, PoolTypeOK, OwnerInv, Started
  <2> QED BY <2>1, <2>2
<1>2. CASE startLoop
  BY <1>2 DEF startLoop, PoolInv, PoolTypeOK, OwnerInv, PointerInv, Started
<1>3. CASE getNextLoop
  BY <1>3 DEF getNextLoop, PoolInv, OwnerInv, Started
<1>4. CASE destroy
  BY <1>4 DEF destroy, PoolInv, PoolTypeOK, OwnerInv, Started
<1>5. CASE dtorTests \/ dtorQuits \/ dtorWakesUp \/ dtorJoins
  BY <1>5, SMTT(60) DEF dtorTests, dtorQuits, dtorWakesUp, dtorJoins, NextDtor,
       PoolInv, PoolTypeOK, OwnerInv, Started
<1>6. ASSUME NEW i \in Ids, ThreadStep(i) \/ UserQuit(i) PROVE OwnerInv'
  <2>1. UNCHANGED <<owner, cur>>
    BY <1>6, ThreadStepLocal
  <2>2. \A j \in Ids : thread[j] \in Entered \cup {"cleared", "gone"}
                         => thread'[j] \in Entered \cup {"cleared", "gone"}
    BY <1>6 DEF ThreadStep, Goes, callback, publish, EnterLoop,
         LeaveLoop, clearPointer, ThreadEnds, UserQuit, PoolInv, PoolTypeOK
  <2>3. \A j \in Ids : thread[j] = "none" => thread'[j] = "none"
    BY <1>6 DEF ThreadStep, Goes, callback, publish, EnterLoop,
         LeaveLoop, clearPointer, ThreadEnds, UserQuit, PoolInv, PoolTypeOK
  <2> QED BY <2>1, <2>2, <2>3 DEF PoolInv, OwnerInv, Started
<1>7. CASE UNCHANGED poolVars
  BY <1>7 DEF poolVars, PoolInv, OwnerInv, Started
<1> QED BY <1>1, <1>2, <1>3, <1>4, <1>5, <1>6, <1>7 DEF PoolNext, OwnerStep

(* quit() reaches a loop that users leave alone once, from its destructor, *)
(* when its thread is still there.                                         *)
LEMMA QuitStep == ASSUME PoolInv, [PoolNext]_poolVars PROVE QuitInv'
<1> USE PoolAssumption DEF Ids, threadVars, ownerVars
<1>1. CASE start \/ startLoop \/ getNextLoop
  BY <1>1 DEF start, startLoop, getNextLoop, PoolInv, PoolTypeOK, QuitInv
<1>2. CASE destroy
  BY <1>2 DEF destroy, PoolInv, PoolTypeOK, QuitInv
<1>3. CASE dtorTests \/ dtorJoins
  <2>1. UNCHANGED <<quits, wild>> /\ owner \in {"dtor", "join"} /\ cur \in Ids
    BY <1>3 DEF dtorTests, dtorJoins, PoolInv, OwnerInv
  <2>2. CASE NextDtor
    <3>1. QuitInv
      BY DEF PoolInv
    <3>2. owner' = "end" \/ (owner' = "dtor" /\ cur' = cur + 1)
      BY <2>2 DEF NextDtor
    <3>3. \A i \in Ids : i < cur \/ i = cur => i < cur + 1
      BY <2>1
    <3> QED BY <2>1, <3>1, <3>2, <3>3, Zenon DEF QuitInv
  <2>3. CASE ~NextDtor
    BY <1>3, <2>1, <2>3 DEF dtorTests, dtorJoins, PoolInv, QuitInv
  <2> QED BY <2>2, <2>3
<1>4. CASE dtorQuits
  <2>1. cur \in Ids /\ owner = "quit" /\ owner' = "wake" /\ cur' = cur
        /\ quits' = [quits EXCEPT ![cur] = TRUE]
    BY <1>4 DEF dtorQuits, PoolInv, OwnerInv
  <2>2. thread[cur] \in Entered \cup {"cleared", "gone"}
    BY <2>1 DEF PoolInv, OwnerInv
  <2>3. cur \notin UserQuits => ~quits[cur]
    <3>1. cur \in Int /\ ~(cur < cur)
      BY <2>1
    <3>2. cur \notin UserQuits /\ quits[cur] => cur < cur
      BY <2>1, Zenon DEF PoolInv, QuitInv
    <3> QED BY <3>1, <3>2
  <2>4. cur \notin UserQuits => loop_[cur]
    BY <2>1, <2>2, <2>3 DEF PoolInv, PointerInv
  <2>5. cur \notin UserQuits => wild' = wild
    BY <1>4, <2>4 DEF dtorQuits
  <2>6. \A i \in Ids \ UserQuits : <<i, "store">> \in wild' => <<i, "store">> \in wild
    BY <1>4, <2>5 DEF dtorQuits
  <2>7. \A i \in Ids : i # cur => quits'[i] = quits[i]
    BY <2>1 DEF PoolInv, PoolTypeOK
  <2> QED BY <2>1, <2>6, <2>7 DEF PoolInv, QuitInv
<1>7. CASE dtorWakesUp
  <2>1. \A i \in Ids : <<i, "store">> \in wild' => <<i, "store">> \in wild
    BY <1>7 DEF dtorWakesUp
  <2> QED BY <1>7, <2>1 DEF dtorWakesUp, PoolInv, QuitInv
<1>5. ASSUME NEW i \in Ids, ThreadStep(i) \/ UserQuit(i) PROVE QuitInv'
  <2>1. UNCHANGED <<owner, cur, wild>>
    BY <1>5, ThreadStepLocal
  <2>2. \A j \in Ids \ UserQuits : quits'[j] => quits[j]
    BY <1>5 DEF ThreadStep, callback, publish, EnterLoop, LeaveLoop,
                clearPointer, ThreadEnds, UserQuit, PoolInv, PoolTypeOK
  <2> QED BY <2>1, <2>2 DEF PoolInv, QuitInv
<1>6. CASE UNCHANGED poolVars
  BY <1>6 DEF poolVars, PoolInv, QuitInv
<1> QED BY <1>1, <1>2, <1>3, <1>4, <1>5, <1>6, <1>7 DEF PoolNext, OwnerStep

(* getNextLoop serves the loop at next_ and moves on. *)
LEMMA RobinStep == ASSUME PoolInv, [PoolNext]_poolVars PROVE RobinInv'
<1> USE PoolAssumption DEF Ids, threadVars, ownerVars
<1>1. CASE getNextLoop
  <2>1. CASE numThreads_ = 0
    BY <2>1 DEF RobinInv
  <2>2. CASE numThreads_ > 0
    <3> DEFINE n == next_ + 1
    <3>1. /\ n \in Ids
          /\ served' = [served EXCEPT ![n] = served[n] + 1]
          /\ next_' = Advance
      <4>1. n \in Ids
        BY <2>2 DEF PoolInv, PoolTypeOK
      <4>2. numThreads_ # 0
        BY <2>2
      <4>3. served' = [served EXCEPT ![next_ + 1] = served[next_ + 1] + 1]
        BY <1>1, <4>2, Zenon DEF getNextLoop
      <4>4. next_' = Advance
        BY <1>1, <4>2, Zenon DEF getNextLoop
      <4> QED BY <4>1, <4>3, <4>4
    <3>2. next_' = IF n = numThreads_ THEN 0 ELSE n
      BY <3>1 DEF Advance, PoolInv, PoolTypeOK
    <3>3. \A i \in Ids : served[i] \in Nat /\ served'[i] = IF i = n THEN served[i] + 1
                                                                  ELSE served[i]
      BY <3>1 DEF PoolInv, PoolTypeOK
    <3> QED BY <3>1, <3>2, <3>3 DEF PoolInv, PoolTypeOK, RobinInv
  <2> QED BY <2>1, <2>2
<1>2. CASE \/ start \/ startLoop \/ destroy
           \/ dtorTests \/ dtorQuits \/ dtorWakesUp \/ dtorJoins
  BY <1>2 DEF start, startLoop, destroy, dtorTests, dtorQuits, dtorWakesUp,
       dtorJoins, PoolInv, RobinInv
<1>3. ASSUME NEW i \in Ids, ThreadStep(i) \/ UserQuit(i) PROVE RobinInv'
  BY <1>3, ThreadStepLocal DEF PoolInv, RobinInv
<1>4. CASE UNCHANGED poolVars
  BY <1>4 DEF poolVars, PoolInv, RobinInv
<1> QED BY <1>1, <1>2, <1>3, <1>4 DEF PoolNext, OwnerStep

-----------------------------------------------------------------------------
(* The inductive invariant holds: types, pointers, owner, quits and round  *)
(* robin.                                                                  *)
THEOREM PoolInvariant ==
  PoolSpec => []PoolInv
<1>1. PoolInit => PoolInv
  BY PoolInvInit
<1>2. PoolInv /\ [PoolNext]_poolVars => PoolInv'
  <2> SUFFICES ASSUME PoolInv, [PoolNext]_poolVars PROVE PoolInv'
    OBVIOUS
  <2>1. PoolTypeOK'
    BY PoolTypeStep DEF PoolInv
  <2> QED BY <2>1, PointerStep, OwnerInvStep, QuitStep, RobinStep DEF PoolInv
<1> QED BY <1>1, <1>2, PTL DEF PoolSpec

(* The state of the pool stays well typed: next_ indexes loops_, the wrap  *)
(* of getNextLoop included.                                                *)
THEOREM PoolTypeCorrect ==
  PoolSpec => []PoolTypeOK
<1>1. PoolInv => PoolTypeOK
  BY DEF PoolInv
<1>2. PoolSpec => []PoolInv
  BY PoolInvariant
<1> QED BY <1>1, <1>2, PTL

(* startLoop returns a loop that has run its callback, and the loop lives  *)
(* until its EventLoopThread is destroyed or a user quits it.              *)
THEOREM LoopsAreAlive ==
  PoolSpec => []HandedOutAlive
<1>1. PoolInv => HandedOutAlive
  BY DEF PoolInv, PoolTypeOK, OwnerInv, PointerInv, HandedOutAlive, Usable, Entered
<1>2. PoolSpec => []PoolInv
  BY PoolInvariant
<1> QED BY <1>1, <1>2, PTL

(* ~EventLoopThread stores quit_ in a loop that is still there, unless     *)
(* users quit it before: of its two unlocked accesses only wakeup(), after *)
(* that store, can come too late.                                          *)
THEOREM QuitsLiveLoops ==
  PoolSpec => []QuitOnLiveLoop
<1>1. PoolInv => QuitOnLiveLoop
  BY DEF PoolInv, PoolTypeOK, PointerInv, QuitInv, QuitOnLiveLoop, Usable, Entered
<1>2. PoolSpec => []PoolInv
  BY PoolInvariant
<1> QED BY <1>1, <1>2, PTL

(* getNextLoop hands the loops out evenly. *)
THEOREM RoundRobinIsEven ==
  PoolSpec => []RoundRobinEven
<1>1. PoolInv => RoundRobinEven
  <2> SUFFICES ASSUME PoolInv, NEW i \in Ids, NEW j \in Ids
               PROVE  served[i] <= served[j] + 1
    BY DEF RoundRobinEven
  <2>1. served[i] \in Nat /\ served[j] \in Nat /\ next_ \in Nat /\ i \in Nat /\ j \in Nat
    BY PoolAssumption DEF PoolInv, PoolTypeOK, Ids
  <2>2. (i <= next_ <=> j <= next_) => served[i] = served[j]
    BY DEF PoolInv, RobinInv
  <2>3. (i <= next_ /\ next_ < j) => served[i] = served[j] + 1
    BY DEF PoolInv, RobinInv
  <2>4. (j <= next_ /\ next_ < i) => served[j] = served[i] + 1
    BY DEF PoolInv, RobinInv
  <2> QED BY <2>1, <2>2, <2>3, <2>4
<1>2. PoolSpec => []PoolInv
  BY PoolInvariant
<1> QED BY <1>1, <1>2, PTL
=============================================================================

------------------------------ MODULE Connector ------------------------------
(***************************************************************************)
(* muduo::net::Connector (muduo/net/Connector.cc): the handlers of one     *)
(* Connector, as relations between its state before and after them.  The   *)
(* loop that runs them, the timers and the calls are those of module       *)
(* TcpClient, which composes it.                                           *)
(*                                                                         *)
(* channel_ is "none", "on" (registered with the poller) or "off" (removed *)
(* from it, its deletion being queued: resetChannel).                      *)
(***************************************************************************)
EXTENDS Naturals, Sequences, FiniteSetsExt

CONSTANTS kInitRetryDelayMs, kMaxRetryDelayMs

ASSUME DelayAssumption ==
  /\ kInitRetryDelayMs \in Nat \ {0}
  /\ kMaxRetryDelayMs \in Nat /\ kInitRetryDelayMs <= kMaxRetryDelayMs

VARIABLES
  trying,        \* Connector::connect_
  state_, channel_, retryDelayMs_,
  timers,        \* startInLoop timers pending
  queue,         \* the loop's functors
  aborted        \* the assert that failed, if one has

connectorVars == <<trying, state_, channel_, retryDelayMs_, timers, queue,
                   aborted>>

ConnectorInit ==
  /\ trying = FALSE
  /\ state_ = "kDisconnected"
  /\ channel_ = "none"
  /\ retryDelayMs_ = kInitRetryDelayMs
  /\ timers = 0
  /\ queue = <<>>
  /\ aborted = "no"

(* The handlers are given q, the functors, and n, the timers, that are      *)
(* pending when they begin.                                                *)

Fail(why, n, q) ==
  /\ aborted' = why
  /\ timers' = n /\ queue' = q
  /\ UNCHANGED <<state_, channel_, retryDelayMs_>>

Nothing(n, q) ==
  /\ timers' = n /\ queue' = q
  /\ UNCHANGED <<state_, channel_, retryDelayMs_, aborted>>

(* Faulty variant: the delay is doubled, and no timer is set. *)
retryForgotten(delay, n) ==
  /\ state_' = "kDisconnected"
  /\ timers' = n
  /\ retryDelayMs_' = Min({2 * delay, kMaxRetryDelayMs})

(* retry(), the close of the socket apart. *)
retry(delay, n) ==
  /\ state_' = "kDisconnected"
  /\ timers' = n + (IF trying' THEN 1 ELSE 0)
  /\ retryDelayMs_' = IF trying' THEN Min({2 * delay, kMaxRetryDelayMs}) ELSE delay

(* connecting(). *)
connecting(delay, n, q) ==
  IF channel_ # "none" THEN Fail("connecting: channel_", n, q)
  ELSE /\ state_' = "kConnecting"
       /\ channel_' = "on"
       /\ retryDelayMs_' = delay
       /\ timers' = n /\ queue' = q
       /\ UNCHANGED aborted

(* connect(), for each of the outcomes of connect(2) that it tells apart. *)
connect(outcome, delay, n, q) ==
  \/ outcome = "inprogress" /\ connecting(delay, n, q)
  \/ /\ outcome = "refused"
     /\ retry(delay, n)
     /\ queue' = q
     /\ UNCHANGED <<channel_, aborted>>
  \/ /\ outcome = "fatal"
     /\ state_' = "kDisconnected"
     /\ retryDelayMs_' = delay
     /\ timers' = n /\ queue' = q
     /\ UNCHANGED <<channel_, aborted>>

startInLoop(outcome, n, q) ==
  IF state_ # "kDisconnected" THEN Fail("startInLoop: state_", n, q)
  ELSE IF trying' THEN connect(outcome, retryDelayMs_, n, q)
  ELSE Nothing(n, q)

(* restart(): back to the first delay, whatever state_ was. *)
restart(outcome) ==
  /\ trying' = TRUE
  /\ connect(outcome, kInitRetryDelayMs, timers, queue)

(* removeAndResetChannel(), and then retry(). *)
FailAttempt(q) ==
  /\ channel_' = "off"
  /\ queue' = Append(q, "resetChannel")
  /\ retry(retryDelayMs_, timers)
  /\ UNCHANGED aborted

(* Faulty variant: the attempt in progress is not given up. *)
stopInLoopLazy(q) == Nothing(timers, q)

stopInLoop(q) ==
  IF state_ = "kConnecting" THEN FailAttempt(q) ELSE Nothing(timers, q)

resetChannel(q) ==
  /\ channel_' = "none"
  /\ queue' = q
  /\ UNCHANGED <<state_, retryDelayMs_, timers, aborted>>

(* handleWrite, when the connection is established. *)
established ==
  /\ state_' = "kConnected"
  /\ channel_' = "off"
  /\ queue' = Append(queue, "resetChannel")
  /\ UNCHANGED <<retryDelayMs_, timers, aborted>>
=============================================================================

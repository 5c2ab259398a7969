-------------------------- MODULE TcpClientProofs --------------------------
(***************************************************************************)
(* Theorems about TcpClient and its Connector, with any retry delays, any  *)
(* outcomes of connect(2) and calls of two threads, under the assumptions  *)
(* named Disciplined: no assert fails, there is one attempt at a time, the *)
(* client does not give up, and a stop is final.                           *)
(***************************************************************************)
EXTENDS TcpClient, SequenceTheorems, TLAPS

(* Nothing in the code makes these so, and without them the statements     *)
(* fail (runs tcp_client_slow_loop, tcp_client_dtor, tcp_client_stop):     *)
(* users do not connect() again, the loop runs the functors it has queued  *)
(* within the keeper's second, a client is not destroyed at the moment it  *)
(* has connected, and the other thread does not stop() a client that       *)
(* retries.                                                                *)
Disciplined ==
  /\ Again = {}
  /\ ClientRisks = {}
  /\ retry_ => "stop" \notin Outside

(* f is in q; at most once; among the first b. *)
Has(q, f) == \E i \in DOMAIN q : q[i] = f
Once(q, f) == \A i, j \in DOMAIN q : q[i] = f /\ q[j] = f => i = j
Within(q, f, b) == \E i \in DOMAIN q : i <= b /\ q[i] = f
NoConnectorFunctor(q) ==
  ~Has(q, "startInLoop") /\ ~Has(q, "stopInLoop") /\ ~Has(q, "resetChannel")

(* connect() was called and startInLoop has not run yet. *)
Due == caller = "connect" \/ Has(queue, "startInLoop")

(* The batch is the first b functors of q. *)
Fits(q, b) == b \in 0 .. Len(q)

Delays == kInitRetryDelayMs .. kMaxRetryDelayMs
ConnectCounts == 0 .. MaxConnects
CallCounts == 0 .. MaxCalls

(* TypeOK, and which calls and timers there can be. *)
Types ==
  /\ trying \in BOOLEAN /\ connect_ \in BOOLEAN
  /\ state_ \in {"kDisconnected", "kConnecting", "kConnected"}
  /\ channel_ \in {"none", "on", "off"}
  /\ retryDelayMs_ \in Delays
  /\ timers \in {0, 1}
  /\ queue \in Seq(Functors)
  /\ connection_ \in {"none", "up", "shut"}
  /\ clientTurn \in {"poll", "handle", "run"}
  /\ activeChannel \subseteq {"channel", "timer", "keeper", "connection"}
  /\ Fits(queue, batch)
  /\ caller \in {"connect", "stop", "none"}
  /\ connects \in ConnectCounts /\ connects \in {0, 1} /\ calls \in CallCounts
  /\ client \in BOOLEAN /\ keeper \in BOOLEAN
  /\ closeCallback \in {"client", "detail"}
  /\ reconnecting \in BOOLEAN /\ stopped \in BOOLEAN /\ gaveUp \in BOOLEAN
  /\ aborted = "no"

(* Where the one attempt is: due, waiting for its timer, being connected,  *)
(* connected, or to be restarted.                                          *)
AttemptInv ==
  /\ state_ = "kDisconnected" => connection_ = "none" /\ ~reconnecting
  /\ state_ = "kConnecting" => connection_ = "none" /\ ~reconnecting /\ timers = 0
  /\ state_ = "kConnected" => timers = 0 /\ ~(connection_ # "none" /\ reconnecting)
  /\ Due => state_ = "kDisconnected" /\ timers = 0 /\ channel_ = "none" /\ connects = 1
  /\ caller = "connect" => ~Has(queue, "startInLoop")
  /\ Once(queue, "startInLoop")
  /\ connects = 0 => state_ = "kDisconnected" /\ timers = 0 /\ channel_ = "none"

(* The channel is registered while connecting, and a channel that is       *)
(* removed has its deletion queued, which comes before the next poll as    *)
(* long as the connector has not been told to stop.                        *)
ChannelInv ==
  /\ channel_ = "on" <=> state_ = "kConnecting"
  /\ channel_ = "off" <=> Has(queue, "resetChannel")
  /\ Once(queue, "resetChannel")
  /\ channel_ = "off" /\ trying =>
       clientTurn = "handle" \/ (clientTurn = "run" /\ Within(queue, "resetChannel", batch))
  /\ activeChannel # {} => clientTurn = "handle"
  /\ "channel" \in activeChannel => state_ = "kConnecting"
  /\ "timer" \in activeChannel => timers = 1 /\ (trying => channel_ = "none")
  /\ "connection" \in activeChannel => connection_ # "none" /\ (trying => channel_ = "none")
  /\ reconnecting => channel_ = "none"

(* Who has been told to stop stays so. *)
StopInv ==
  /\ trying => connects = 1
  /\ ~trying /\ connects = 1 /\ client => ~connect_
  /\ Has(queue, "stopInLoop") => ~trying /\ (client => connects = 1)
  /\ caller = "stop" => ~trying /\ connects = 1
  /\ reconnecting => trying /\ client /\ retry_
  /\ stopped => ~trying /\ state_ # "kConnecting"

(* After ~TcpClient: the connection does without it, or there was none and *)
(* the connector is stopped; the keeper outlasts the connector's functors. *)
LifeInv ==
  /\ client => closeCallback = "client" /\ ~keeper
  /\ ~client => caller = "none" /\ ~reconnecting
  /\ ~client /\ closeCallback = "client" => ~trying /\ connection_ = "none"
  /\ ~client /\ closeCallback = "detail" => state_ = "kConnected" /\ ~keeper
  /\ ~client /\ ~keeper => channel_ = "none" /\ NoConnectorFunctor(queue)
  /\ keeper /\ channel_ = "on" => Has(queue, "stopInLoop")
  /\ "keeper" \in activeChannel => keeper /\ channel_ = "none" /\ NoConnectorFunctor(queue)
  /\ Has(queue, "forceCloseInLoop") => ~client

(* NeverGivesUp. *)
RetryInv ==
  (client /\ connects > 0 /\ connect_ /\ ~gaveUp /\ (retry_ \/ state_ # "kConnected")) =>
    \/ connection_ # "none" \/ reconnecting
    \/ state_ = "kConnecting" \/ timers > 0 \/ Due

IInv == Types /\ AttemptInv /\ ChannelInv /\ StopInv /\ LifeInv /\ RetryInv

-----------------------------------------------------------------------------
(* What holds of the loop's queue.                                         *)

(* A functor is added at the end. *)
LEMMA AppendFacts ==
  ASSUME NEW q \in Seq(Functors), NEW f \in Functors
  PROVE  /\ Append(q, f) \in Seq(Functors)
         /\ \A b : Fits(q, b) => Fits(Append(q, f), b)
         /\ \A g : Has(Append(q, f), g) <=> Has(q, g) \/ f = g
         /\ \A g : Once(q, g) /\ (f = g => ~Has(q, g)) => Once(Append(q, f), g)
         /\ \A g, b : Within(q, g, b) => Within(Append(q, f), g, b)
<1>1. /\ Append(q, f) \in Seq(Functors)
      /\ Len(Append(q, f)) = Len(q) + 1
      /\ Len(q) \in Nat /\ DOMAIN q = 1 .. Len(q)
      /\ DOMAIN Append(q, f) = 1 .. Len(q) + 1
      /\ \A i \in 1 .. Len(q) : Append(q, f)[i] = q[i]
      /\ Append(q, f)[Len(q) + 1] = f
  OBVIOUS
<1>2. ASSUME NEW g PROVE Has(Append(q, f), g) <=> Has(q, g) \/ f = g
  <2>1. Has(q, g) => Has(Append(q, f), g)
    BY <1>1 DEF Has
  <2>2. f = g => Has(Append(q, f), g)
    BY <1>1 DEF Has
  <2>3. Has(Append(q, f), g) => Has(q, g) \/ f = g
    BY <1>1 DEF Has
  <2> QED BY <2>1, <2>2, <2>3
<1>3. ASSUME NEW g, Once(q, g), f = g => ~Has(q, g) PROVE Once(Append(q, f), g)
  BY <1>1, <1>3 DEF Once, Has
<1>4. ASSUME NEW g, NEW b, Within(q, g, b) PROVE Within(Append(q, f), g, b)
  BY <1>1, <1>4 DEF Within
<1>5. ASSUME NEW b, Fits(q, b) PROVE Fits(Append(q, f), b)
  BY <1>1, <1>5 DEF Fits
<1> QED BY <1>1, <1>2, <1>3, <1>4, <1>5

(* A functor is taken off the front. *)
LEMMA TailFacts ==
  ASSUME NEW q \in Seq(Functors), q # <<>>
  PROVE  /\ Head(q) \in Functors
         /\ Tail(q) \in Seq(Functors)
         /\ Len(Tail(q)) = Len(q) - 1
         /\ Len(q) \in Nat /\ Len(q) > 0
         /\ DOMAIN q = 1 .. Len(q)
         /\ DOMAIN Tail(q) = 1 .. Len(q) - 1
         /\ \A i \in 1 .. Len(q) - 1 : Tail(q)[i] = q[i + 1]
         /\ Head(q) = q[1]
OBVIOUS

LEMMA HasTail ==
  ASSUME NEW q \in Seq(Functors), q # <<>>, NEW f
  PROVE  /\ Has(q, f) <=> Has(Tail(q), f) \/ Head(q) = f
         /\ Once(q, f) => Once(Tail(q), f)
         /\ Once(q, f) /\ Head(q) = f => ~Has(Tail(q), f)
<1> USE TailFacts
<1>1. Has(Tail(q), f) => Has(q, f)
  <2>1. ASSUME NEW i \in DOMAIN Tail(q), Tail(q)[i] = f PROVE Has(q, f)
    <3>1. i + 1 \in DOMAIN q /\ q[i + 1] = f
      BY <2>1
    <3> QED BY <3>1 DEF Has
  <2> QED BY <2>1 DEF Has
<1>2. Has(q, f) => Has(Tail(q), f) \/ Head(q) = f
  <2>1. ASSUME NEW i \in DOMAIN q, q[i] = f, Head(q) # f
        PROVE  Has(Tail(q), f)
    <3>1. i - 1 \in DOMAIN Tail(q) /\ Tail(q)[i - 1] = f
      BY <2>1
    <3> QED BY <3>1 DEF Has
  <2> QED BY <2>1 DEF Has
<1>3. Head(q) = f => Has(q, f)
  BY DEF Has
<1>4. Once(q, f) => Once(Tail(q), f)
  <2>1. ASSUME Once(q, f), NEW i \in DOMAIN Tail(q), NEW j \in DOMAIN Tail(q),
               Tail(q)[i] = f, Tail(q)[j] = f
        PROVE  i = j
    <3>1. /\ i + 1 \in DOMAIN q /\ q[i + 1] = f
          /\ j + 1 \in DOMAIN q /\ q[j + 1] = f
      BY <2>1
    <3>2. i + 1 = j + 1
      BY <2>1, <3>1 DEF Once
    <3> QED BY <3>2
  <2> QED BY <2>1 DEF Once
<1>5. Once(q, f) /\ Head(q) = f => ~Has(Tail(q), f)
  <2>1. ASSUME Once(q, f), Head(q) = f, NEW i \in DOMAIN Tail(q), Tail(q)[i] = f
        PROVE  FALSE
    <3>1. i + 1 \in DOMAIN q /\ q[i + 1] = f /\ 1 \in DOMAIN q
      BY <2>1
    <3>2. i + 1 = 1
      BY <2>1, <3>1 DEF Once
    <3> QED BY <3>2
  <2> QED BY <2>1 DEF Has
<1> QED BY <1>1, <1>2, <1>3, <1>4, <1>5

LEMMA WithinTail ==
  ASSUME NEW q \in Seq(Functors), q # <<>>, NEW f, NEW b \in Nat,
         Within(q, f, b), Head(q) # f
  PROVE  Within(Tail(q), f, b - 1)
<1> USE TailFacts
<1>1. PICK i \in DOMAIN q : i <= b /\ q[i] = f
  BY DEF Within
<1>2. i - 1 \in DOMAIN Tail(q) /\ Tail(q)[i - 1] = f /\ i - 1 <= b - 1
  BY <1>1
<1> QED BY <1>2 DEF Within

LEMMA WithinAll ==
  ASSUME NEW q \in Seq(Functors), NEW f
  PROVE  /\ Has(q, f) => Within(q, f, Len(q))
         /\ ~Within(q, f, 0)
BY DEF Has, Within

(* Which functors there are. *)
LEMMA FunctorNames ==
  /\ "startInLoop" \in Functors /\ "stopInLoop" \in Functors
  /\ "resetChannel" \in Functors /\ "connectDestroyed" \in Functors
  /\ "forceCloseInLoop" \in Functors
BY DEF Functors, ConnectorFunctors

-----------------------------------------------------------------------------
(* What an attempt does.                                                   *)

(* The delay is doubled up to its limit. *)
LEMMA Doubled ==
  ASSUME NEW d \in Delays
  PROVE  Min({2 * d, kMaxRetryDelayMs}) \in Delays
<1> USE DEF Delays
<1>1. /\ d \in Nat /\ kMaxRetryDelayMs \in Nat /\ kInitRetryDelayMs \in Nat
      /\ kInitRetryDelayMs <= d /\ d <= kMaxRetryDelayMs
  BY DelayAssumption
<1>2. 2 * d \in Nat /\ d <= 2 * d
  BY <1>1
<1>3. \E x \in {2 * d, kMaxRetryDelayMs} : \A y \in {2 * d, kMaxRetryDelayMs} : x <= y
  BY <1>1, <1>2
<1>4. /\ Min({2 * d, kMaxRetryDelayMs}) \in {2 * d, kMaxRetryDelayMs}
      /\ \A y \in {2 * d, kMaxRetryDelayMs} : Min({2 * d, kMaxRetryDelayMs}) <= y
  BY <1>3 DEF Min
<1> QED BY <1>1, <1>2, <1>4

(* With no channel and no timer, connect() is under way, has a timer (if   *)
(* the connector is to go on), or has failed for good.                     *)
Attempted(o, q) ==
  /\ queue' = q /\ aborted' = aborted
  /\ retryDelayMs_' \in Delays
  /\ \/ /\ o # "fatal"
        /\ state_' = "kConnecting" /\ channel_' = "on" /\ timers' = 0
     \/ /\ o # "fatal"
        /\ state_' = "kDisconnected" /\ channel_' = "none"
        /\ timers' = IF trying' THEN 1 ELSE 0
     \/ /\ o = "fatal"
        /\ state_' = "kDisconnected" /\ channel_' = "none" /\ timers' = 0

LEMMA ConnectAttempts ==
  ASSUME NEW o, NEW d \in Delays, NEW n, n = 0, NEW q,
         channel_ = "none", connect(o, d, n, q)
  PROVE  Attempted(o, q)
<1>1. CASE o = "inprogress" /\ connecting(d, n, q)
  BY <1>1 DEF connecting, Attempted
<1>2. CASE /\ o = "refused"
           /\ retry(d, n)
           /\ queue' = q
           /\ UNCHANGED <<channel_, aborted>>
  BY <1>2, Doubled DEF retry, Attempted
<1>3. CASE /\ o = "fatal"
           /\ state_' = "kDisconnected"
           /\ retryDelayMs_' = d
           /\ timers' = n /\ queue' = q
           /\ UNCHANGED <<channel_, aborted>>
  BY <1>3 DEF Attempted
<1> QED BY <1>1, <1>2, <1>3 DEF connect

(* The attempt fails: the channel is removed, its deletion queued, and a   *)
(* timer set if the connector is to go on.                                 *)
LEMMA FailedAttempt ==
  ASSUME Types, timers = 0, NEW q, FailAttempt(q)
  PROVE  /\ channel_' = "off" /\ state_' = "kDisconnected" /\ aborted' = aborted
         /\ queue' = Append(q, "resetChannel")
         /\ timers' = IF trying' THEN 1 ELSE 0
         /\ retryDelayMs_' \in Delays
BY Doubled DEF FailAttempt, retry, Types

-----------------------------------------------------------------------------
(* Every step keeps the invariant.                                         *)

LEMMA Begins == ClientInit => IInv
<1> SUFFICES ASSUME ClientInit PROVE IInv
  OBVIOUS
<1>1. \A f : ~Has(queue, f) /\ Once(queue, f)
  BY DEF ClientInit, ConnectorInit, Has, Once
<1>2. Types
  <2>1. kInitRetryDelayMs \in Delays
    BY DelayAssumption DEF Delays
  <2>2. 0 \in ConnectCounts /\ 0 \in CallCounts
    BY ClientAssumption DEF ConnectCounts, CallCounts
  <2>3. queue \in Seq(Functors) /\ Fits(queue, batch)
    BY DEF ClientInit, ConnectorInit, Fits
  <2> QED BY <2>1, <2>2, <2>3 DEF ClientInit, ConnectorInit, Types
<1>3. AttemptInv /\ ChannelInv /\ StopInv /\ LifeInv /\ RetryInv
  BY <1>1 DEF ClientInit, ConnectorInit, AttemptInv, ChannelInv, StopInv, LifeInv, RetryInv,
              Due, NoConnectorFunctor
<1> QED BY <1>2, <1>3 DEF IInv

LEMMA PollStep ==
  ASSUME IInv, Disciplined, ClientPoll
  PROVE  IInv'
<1> USE DEF IInv, ClientPoll, Free, Running, connectorVars, clientVars
<1>1. Types'
  BY DEF Types, Sources
<1>2. AttemptInv' /\ StopInv' /\ RetryInv'
  BY DEF AttemptInv, StopInv, RetryInv, Due
<1>3. ChannelInv'
  <2>1. "channel" \in activeChannel' => channel_ = "on"
    BY DEF Sources
  <2>2. "timer" \in activeChannel' => timers > 0
    BY DEF Sources
  <2>3. "connection" \in activeChannel' => connection_ # "none"
    BY DEF Sources
  <2> QED BY <2>1, <2>2, <2>3 DEF Types, ChannelInv, AttemptInv
<1>4. LifeInv'
  <2>1. "keeper" \in activeChannel' =>
          keeper /\ ~\E f \in ConnectorFunctors : Queued(f)
    BY DEF Sources, ConnectorNeeded, Disciplined
  <2>2. "keeper" \in activeChannel' => keeper /\ NoConnectorFunctor(queue)
    BY <2>1 DEF ConnectorFunctors, Queued, NoConnectorFunctor, Has
  <2> QED BY <2>2 DEF LifeInv, ChannelInv, Types, NoConnectorFunctor
<1> QED BY <1>1, <1>2, <1>3, <1>4

LEMMA HandleErrorStep ==
  ASSUME IInv, handleError
  PROVE  IInv'
<1> USE DEF IInv, handleError, Handles, Free, Running
<1>1. /\ "channel" \in activeChannel /\ clientTurn = "handle" /\ state_ = "kConnecting"
      /\ channel_ = "on" /\ timers = 0 /\ ~Due
      /\ queue \in Seq(Functors)
  BY DEF ChannelInv, AttemptInv, Types
<1>2. /\ channel_' = "off" /\ state_' = "kDisconnected" /\ aborted' = aborted
      /\ queue' = Append(queue, "resetChannel")
      /\ timers' = IF trying THEN 1 ELSE 0
      /\ retryDelayMs_' \in Delays
  BY <1>1, FailedAttempt
<1>3. /\ queue' \in Seq(Functors) /\ Fits(queue', batch)
      /\ \A g : Has(queue', g) <=> Has(queue, g) \/ g = "resetChannel"
      /\ \A g : Once(queue, g) /\ ("resetChannel" = g => ~Has(queue, g)) => Once(queue', g)
  BY <1>1, <1>2, AppendFacts, FunctorNames DEF Types
<1>4. Types'
  BY <1>2, <1>3 DEF Types
<1>5. AttemptInv'
  BY <1>1, <1>2, <1>3 DEF Types, AttemptInv, Due
<1>6. ChannelInv'
  BY <1>1, <1>2, <1>3 DEF Types, AttemptInv, ChannelInv
<1>7. StopInv'
  BY <1>1, <1>2, <1>3 DEF Types, StopInv, AttemptInv
<1>8. LifeInv'
  BY <1>1, <1>2, <1>3 DEF Types, LifeInv, StopInv, NoConnectorFunctor
<1>9. RetryInv'
  BY <1>1, <1>2, <1>3 DEF Types, RetryInv, StopInv, AttemptInv, Due
<1> QED BY <1>4, <1>5, <1>6, <1>7, <1>8, <1>9

LEMMA HandleWriteStep ==
  ASSUME IInv, handleWrite
  PROVE  IInv'
<1> USE DEF IInv, handleWrite, Handles, Free, Running
<1>1. /\ "channel" \in activeChannel /\ clientTurn = "handle" /\ state_ = "kConnecting"
      /\ channel_ = "on" /\ timers = 0 /\ ~Due /\ connection_ = "none"
      /\ queue \in Seq(Functors)
  BY DEF ChannelInv, AttemptInv, Types
<1>2. trying => client
  BY <1>1 DEF LifeInv, Types
<1>3. /\ channel_' = "off" /\ state_' = "kConnected" /\ aborted' = aborted
      /\ queue' = Append(queue, "resetChannel")
      /\ timers' = timers /\ retryDelayMs_' = retryDelayMs_
      /\ connection_' = IF trying THEN "up" ELSE "none"
  BY <1>1, <1>2 DEF established
<1>4. /\ queue' \in Seq(Functors) /\ Fits(queue', batch)
      /\ \A g : Has(queue', g) <=> Has(queue, g) \/ g = "resetChannel"
      /\ \A g : Once(queue, g) /\ ("resetChannel" = g => ~Has(queue, g)) => Once(queue', g)
  BY <1>1, <1>3, AppendFacts, FunctorNames DEF Types
<1>5. Types'
  <2>1. activeChannel' \subseteq {"channel", "timer", "keeper", "connection"}
    BY DEF Types
  <2>2. Fits(queue', batch')
    BY <1>4 DEF Types
  <2>3. connection_' \in {"none", "up", "shut"}
    BY <1>3
  <2> QED BY <1>3, <1>4, <2>1, <2>2, <2>3, ZenonT(60) DEF Types
<1>6. AttemptInv'
  BY <1>1, <1>3, <1>4 DEF Types, AttemptInv, Due
<1>7. ChannelInv'
  BY <1>1, <1>3, <1>4 DEF Types, AttemptInv, ChannelInv
<1>8. StopInv'
  BY <1>1, <1>3, <1>4 DEF Types, StopInv, AttemptInv
<1>9. LifeInv'
  BY <1>1, <1>2, <1>3, <1>4 DEF Types, LifeInv, StopInv, NoConnectorFunctor
<1>10. RetryInv'
  BY <1>1, <1>3, <1>4 DEF Types, RetryInv, StopInv, AttemptInv, Due
<1> QED BY <1>5, <1>6, <1>7, <1>8, <1>9, <1>10

LEMMA HandleTimerStep ==
  ASSUME IInv, HandleTimer
  PROVE  IInv'
<1> USE DEF IInv, HandleTimer, Handles, Free, Running
<1>1. /\ "timer" \in activeChannel /\ clientTurn = "handle" /\ state_ = "kDisconnected"
      /\ timers = 1 /\ timers - 1 = 0 /\ ~Due /\ connection_ = "none"
      /\ ~reconnecting /\ (trying => channel_ = "none") /\ "channel" \notin activeChannel
      /\ "connection" \notin activeChannel
  BY DEF ChannelInv, AttemptInv, Types
<1>2. PICK o \in Outcomes : /\ startInLoop(o, timers - 1, queue)
                            /\ gaveUp' = (gaveUp \/ (trying /\ o = "fatal"))
  OBVIOUS
<1>3. CASE trying
  <2>1. Attempted(o, queue)
    BY <1>1, <1>2, <1>3, ConnectAttempts DEF startInLoop, Types
  <2>2. client /\ connects = 1
    BY <1>1, <1>3 DEF LifeInv, StopInv, Types
  <2> USE DEF Attempted
  <2>3. Types'
    BY <1>2, <2>1 DEF Types
  <2>4. AttemptInv'
    BY <1>1, <1>3, <2>1, <2>2 DEF Types, AttemptInv, Due
  <2>5. ChannelInv'
    BY <1>1, <1>3, <2>1 DEF Types, AttemptInv, ChannelInv
  <2>6. StopInv'
    BY <1>1, <1>3, <2>1 DEF Types, StopInv, AttemptInv
  <2>7. LifeInv'
    BY <1>1, <1>3, <2>1, <2>2 DEF Types, LifeInv, StopInv, NoConnectorFunctor
  <2>8. RetryInv'
    BY <1>1, <1>2, <1>3, <2>1 DEF Types, RetryInv, StopInv, AttemptInv, Due
  <2> QED BY <2>3, <2>4, <2>5, <2>6, <2>7, <2>8
<1>4. CASE ~trying
  <2>1. /\ timers' = 0 /\ queue' = queue /\ state_' = state_ /\ channel_' = channel_
        /\ retryDelayMs_' = retryDelayMs_ /\ aborted' = aborted /\ gaveUp' = gaveUp
    BY <1>1, <1>2, <1>4 DEF startInLoop, Nothing, Types
  <2>2. Types'
    BY <1>1, <2>1 DEF Types
  <2>3. AttemptInv' /\ ChannelInv' /\ StopInv'
    BY <1>1, <1>4, <2>1 DEF Types, AttemptInv, ChannelInv, StopInv, Due
  <2>4. LifeInv'
    BY <1>1, <1>4, <2>1 DEF Types, LifeInv, NoConnectorFunctor
  <2>5. RetryInv'
    BY <1>1, <1>4, <2>1 DEF Types, RetryInv, StopInv, Due
  <2> QED BY <2>2, <2>3, <2>4, <2>5
<1> QED BY <1>3, <1>4

LEMMA HandleKeeperStep ==
  ASSUME IInv, HandleKeeper
  PROVE  IInv'
<1> USE DEF IInv, HandleKeeper, Handles, Free, Running, connectorVars
<1>1. Types'
  <2>1. activeChannel' \subseteq {"channel", "timer", "keeper", "connection"}
    BY DEF Types
  <2>2. /\ queue' \in Seq(Functors) /\ Fits(queue', batch') /\ timers' \in {0, 1}
        /\ retryDelayMs_' \in Delays
        /\ keeper' \in BOOLEAN
    BY DEF Types
  <2> QED BY <2>1, <2>2 DEF Types
<1>2. AttemptInv' /\ ChannelInv' /\ StopInv'
  BY DEF Types, AttemptInv, ChannelInv, StopInv, Due
<1>3. LifeInv'
  BY DEF Types, LifeInv, NoConnectorFunctor
<1>4. RetryInv'
  BY DEF Types, RetryInv, Due
<1> QED BY <1>1, <1>2, <1>3, <1>4

LEMMA RemoveConnectionStep ==
  ASSUME IInv, removeConnection
  PROVE  IInv'
<1> USE DEF IInv, removeConnection, Handles, Free, Running
<1>1. /\ "connection" \in activeChannel /\ clientTurn = "handle" /\ state_ = "kConnected"
      /\ connection_ # "none" /\ timers = 0 /\ ~Due
      /\ (trying => channel_ = "none") /\ queue \in Seq(Functors)
      /\ (closeCallback = "client" => client)
  BY DEF ChannelInv, AttemptInv, LifeInv, Types
<1>2. aborted' = aborted
  BY <1>1
<1>3. /\ queue' \in Seq(Functors) /\ Fits(queue', batch)
      /\ \A g : Has(queue', g) <=> Has(queue, g) \/ g = "connectDestroyed"
      /\ \A g : Once(queue, g) /\ g # "connectDestroyed" => Once(queue', g)
      /\ \A g, b : Within(queue, g, b) => Within(queue', g, b)
  BY <1>1, AppendFacts, FunctorNames DEF Types
<1>4. reconnecting' => retry_ /\ connect_ /\ client /\ trying /\ channel_ = "none"
  BY <1>1 DEF StopInv, AttemptInv, Types
<1>5. Types'
  BY <1>1, <1>2, <1>3, ClientAssumption DEF Types
<1>6. AttemptInv'
  BY <1>1, <1>3, <1>4 DEF Types, AttemptInv, Due
<1>7. ChannelInv'
  BY <1>1, <1>3, <1>4 DEF Types, AttemptInv, ChannelInv
<1>8. StopInv'
  BY <1>1, <1>3, <1>4 DEF Types, StopInv, AttemptInv
<1>9. LifeInv'
  BY <1>1, <1>3, <1>4 DEF Types, LifeInv, StopInv, NoConnectorFunctor
<1>10. RetryInv'
  BY <1>1, <1>3 DEF Types, RetryInv, StopInv, AttemptInv, LifeInv, Due
<1> QED BY <1>5, <1>6, <1>7, <1>8, <1>9, <1>10

LEMMA RestartStep ==
  ASSUME IInv, restartConnector
  PROVE  IInv'
<1> USE DEF IInv, restartConnector, Running, lifeVars, clientLoopVars
<1>1. /\ state_ = "kConnected" /\ connection_ = "none" /\ timers = 0 /\ ~Due
      /\ trying /\ client /\ channel_ = "none" /\ connects = 1
  BY DEF ChannelInv, AttemptInv, StopInv, Types
<1>2. PICK o \in Outcomes : restart(o) /\ gaveUp' = (gaveUp \/ o = "fatal")
  OBVIOUS
<1>3. kInitRetryDelayMs \in Delays
  BY DelayAssumption DEF Delays
<1>4. trying' = TRUE /\ Attempted(o, queue)
  BY <1>1, <1>2, <1>3, ConnectAttempts DEF restart
<1> USE DEF Attempted
<1>5. Types'
  <2>1. gaveUp' \in BOOLEAN /\ timers' \in {0, 1}
    BY <1>2, <1>4
  <2> QED BY <1>4, <2>1, ZenonT(60) DEF Types
<1>6. AttemptInv'
  BY <1>1, <1>4 DEF Types, AttemptInv, Due
<1>7. ChannelInv'
  BY <1>1, <1>4 DEF Types, AttemptInv, ChannelInv
<1>8. StopInv'
  BY <1>1, <1>4 DEF Types, StopInv, AttemptInv
<1>9. LifeInv'
  BY <1>1, <1>4 DEF Types, LifeInv, StopInv, NoConnectorFunctor
<1>10. RetryInv'
  BY <1>1, <1>2, <1>4 DEF Types, RetryInv, StopInv, AttemptInv, Due
<1> QED BY <1>5, <1>6, <1>7, <1>8, <1>9, <1>10

LEMMA SwapStep ==
  ASSUME IInv, SwapFunctors \/ EndFunctors
  PROVE  IInv'
<1> USE DEF IInv, SwapFunctors, EndFunctors, Free, Running, connectorVars, clientVars
<1>1. /\ Has(queue, "resetChannel") => Within(queue, "resetChannel", Len(queue))
      /\ ~Within(queue, "resetChannel", 0)
      /\ Fits(queue, Len(queue)) /\ Fits(queue, 0)
  BY WithinAll DEF Types, Fits
<1>2. Types'
  <2>1. Fits(queue', batch') /\ clientTurn' \in {"poll", "handle", "run"}
    BY <1>1 DEF Types
  <2> QED BY <2>1, ZenonT(60) DEF Types
<1>3. AttemptInv' /\ StopInv' /\ LifeInv' /\ RetryInv'
  BY DEF Types, AttemptInv, StopInv, LifeInv, RetryInv, Due
<1>4. ChannelInv'
  <2>1. CASE SwapFunctors
    BY <1>1, <2>1 DEF Types, ChannelInv
  <2>2. CASE EndFunctors
    BY <1>1, <2>2 DEF Types, ChannelInv
  <2> QED BY <2>1, <2>2
<1> QED BY <1>2, <1>3, <1>4

(* Before a functor is run: it is taken off the queue. *)
LEMMA FunctorTaken ==
  ASSUME IInv, RunFunctor
  PROVE  /\ queue \in Seq(Functors) /\ Tail(queue) \in Seq(Functors)
         /\ Fits(Tail(queue), batch')
         /\ clientTurn = "run" /\ activeChannel = {} /\ ~reconnecting
         /\ \A f : Has(queue, f) <=> Has(Tail(queue), f) \/ Head(queue) = f
         /\ \A f : Once(queue, f) => Once(Tail(queue), f)
         /\ \A f : Once(queue, f) /\ Head(queue) = f => ~Has(Tail(queue), f)
         /\ \A f : Within(queue, f, batch) /\ Head(queue) # f
                     => Within(Tail(queue), f, batch')
<1> USE DEF IInv, RunFunctor, Free, Running
<1>1. queue \in Seq(Functors) /\ batch \in 0 .. Len(queue) /\ Len(queue) \in Nat
  BY DEF Types, Fits
<1>2. queue # <<>> /\ batch \in Nat /\ batch' = batch - 1
  BY <1>1
<1>3. Fits(Tail(queue), batch')
  BY <1>1, <1>2, TailFacts DEF Fits
<1>4. activeChannel = {} /\ clientTurn = "run" /\ ~reconnecting
  BY DEF ChannelInv
<1>5. ASSUME NEW f, Within(queue, f, batch), Head(queue) # f
      PROVE  Within(Tail(queue), f, batch')
  BY <1>1, <1>2, <1>5, WithinTail
<1> QED BY <1>1, <1>2, <1>3, <1>4, <1>5, TailFacts, HasTail

(* What RunFunctor leaves alone, whatever the functor. *)
Framed ==
  /\ connect_' = connect_ /\ caller' = caller /\ connects' = connects
  /\ calls' = calls /\ reconnecting' = reconnecting /\ client' = client
  /\ keeper' = keeper /\ closeCallback' = closeCallback /\ clientTurn' = clientTurn
  /\ activeChannel' = activeChannel /\ trying' = trying

LEMMA FunctorFrame == RunFunctor => Framed
BY DEF RunFunctor, Framed, lifeVars

LEMMA StartStep ==
  ASSUME IInv, RunFunctor, Head(queue) = "startInLoop"
  PROVE  IInv'
<1> DEFINE q == Tail(queue)
<1> USE DEF IInv
<1>1. /\ q \in Seq(Functors) /\ Fits(q, batch')
      /\ clientTurn = "run" /\ activeChannel = {} /\ ~reconnecting
      /\ Has(queue, "startInLoop") /\ ~Has(q, "startInLoop")
      /\ Has(queue, "stopInLoop") <=> Has(q, "stopInLoop")
      /\ Has(queue, "resetChannel") <=> Has(q, "resetChannel")
      /\ Has(queue, "forceCloseInLoop") <=> Has(q, "forceCloseInLoop")
      /\ Once(q, "startInLoop") /\ Once(q, "resetChannel")
  BY FunctorTaken DEF AttemptInv, ChannelInv
<1>2. /\ state_ = "kDisconnected" /\ timers = 0 /\ channel_ = "none" /\ connects = 1
      /\ caller # "connect" /\ connection_ = "none"
  BY <1>1 DEF AttemptInv, Due
<1>3. Framed /\ stopped' = stopped /\ connection_' = connection_
  BY FunctorFrame DEF RunFunctor
<1>4. PICK o \in Outcomes : /\ startInLoop(o, timers, q)
                            /\ gaveUp' = (gaveUp \/ (trying /\ o = "fatal"))
  BY DEF RunFunctor
<1> HIDE DEF q
<1> USE DEF Framed
<1>5. CASE trying
  <2>1. Attempted(o, q)
    BY <1>2, <1>3, <1>4, <1>5, ConnectAttempts DEF startInLoop, Types
  <2>2. client
    BY <1>2, <1>5 DEF LifeInv, Types
  <2> USE DEF Attempted
  <2>3. Types'
    <3>1. gaveUp' \in BOOLEAN /\ timers' \in {0, 1}
      BY <1>3, <1>4, <2>1
    <3> QED BY <1>1, <1>3, <2>1, <3>1 DEF Types
  <2>4. AttemptInv'
    BY <1>1, <1>2, <1>3, <1>5, <2>1 DEF Types, AttemptInv, Due
  <2>5. ChannelInv'
    BY <1>1, <1>2, <1>3, <1>5, <2>1 DEF Types, AttemptInv, ChannelInv
  <2>6. StopInv'
    BY <1>1, <1>2, <1>3, <1>5, <2>1 DEF Types, StopInv, AttemptInv
  <2>7. LifeInv'
    BY <1>1, <1>2, <1>3, <1>5, <2>1, <2>2 DEF Types, LifeInv, StopInv, NoConnectorFunctor
  <2>8. RetryInv'
    BY <1>1, <1>2, <1>3, <1>4, <1>5, <2>1 DEF Types, RetryInv, Due
  <2> QED BY <2>3, <2>4, <2>5, <2>6, <2>7, <2>8
<1>6. CASE ~trying
  <2>1. /\ timers' = 0 /\ queue' = q /\ state_' = state_ /\ channel_' = channel_
        /\ retryDelayMs_' = retryDelayMs_ /\ aborted' = aborted /\ gaveUp' = gaveUp
    BY <1>2, <1>3, <1>4, <1>6 DEF startInLoop, Nothing, Types
  <2>2. Types'
    BY <1>1, <1>3, <2>1 DEF Types
  <2>3. AttemptInv' /\ StopInv'
    BY <1>1, <1>2, <1>3, <1>6, <2>1 DEF Types, AttemptInv, StopInv, Due
  <2>4. ChannelInv'
    BY <1>1, <1>2, <1>3, <1>6, <2>1 DEF Types, AttemptInv, ChannelInv
  <2>5. LifeInv'
    BY <1>1, <1>2, <1>3, <1>6, <2>1 DEF Types, LifeInv, NoConnectorFunctor
  <2>6. RetryInv'
    BY <1>1, <1>2, <1>3, <1>6, <2>1 DEF Types, RetryInv, StopInv, Due
  <2> QED BY <2>2, <2>3, <2>4, <2>5, <2>6
<1> QED BY <1>5, <1>6 DEF Types

LEMMA StopStep ==
  ASSUME IInv, RunFunctor, Head(queue) = "stopInLoop"
  PROVE  IInv'
<1> DEFINE q == Tail(queue)
<1> USE DEF IInv
<1>1. /\ q \in Seq(Functors) /\ Fits(q, batch')
      /\ clientTurn = "run" /\ activeChannel = {} /\ ~reconnecting
      /\ Has(queue, "stopInLoop") /\ (Has(q, "stopInLoop") => Has(queue, "stopInLoop"))
      /\ Has(queue, "startInLoop") <=> Has(q, "startInLoop")
      /\ Has(queue, "resetChannel") <=> Has(q, "resetChannel")
      /\ Has(queue, "forceCloseInLoop") <=> Has(q, "forceCloseInLoop")
      /\ Once(q, "startInLoop") /\ Once(q, "resetChannel")
  BY FunctorTaken DEF AttemptInv, ChannelInv
<1>2. ~trying
  BY <1>1 DEF StopInv
<1>3. Framed /\ gaveUp' = gaveUp /\ connection_' = connection_ /\ stopped' \in BOOLEAN
  BY FunctorFrame DEF RunFunctor
<1>4. stopInLoop(q)
  BY DEF RunFunctor
<1> HIDE DEF q
<1> USE DEF Framed
<1>5. CASE state_ = "kConnecting"
  <2>1. timers = 0 /\ channel_ = "on" /\ connection_ = "none" /\ ~Has(q, "resetChannel")
    BY <1>1, <1>5 DEF AttemptInv, ChannelInv
  <2>2. /\ channel_' = "off" /\ state_' = "kDisconnected" /\ aborted' = aborted
        /\ queue' = Append(q, "resetChannel")
        /\ timers' = 0
        /\ retryDelayMs_' \in Delays
    BY <1>2, <1>3, <1>4, <1>5, <2>1, FailedAttempt DEF stopInLoop
  <2>3. /\ queue' \in Seq(Functors) /\ Fits(queue', batch')
        /\ \A g : Has(queue', g) <=> Has(q, g) \/ g = "resetChannel"
        /\ Once(queue', "startInLoop") /\ Once(queue', "resetChannel")
    BY <1>1, <2>1, <2>2, AppendFacts, FunctorNames
  <2>4. Types'
    BY <1>3, <2>2, <2>3 DEF Types
  <2>5. AttemptInv'
    BY <1>1, <1>2, <1>3, <1>5, <2>1, <2>2, <2>3 DEF Types, AttemptInv, Due
  <2>6. ChannelInv'
    BY <1>1, <1>2, <1>3, <1>5, <2>1, <2>2, <2>3 DEF Types, AttemptInv, ChannelInv
  <2>7. StopInv'
    BY <1>1, <1>2, <1>3, <1>5, <2>1, <2>2, <2>3 DEF Types, StopInv
  <2>8. LifeInv'
    BY <1>1, <1>2, <1>3, <1>5, <2>1, <2>2, <2>3 DEF Types, LifeInv, NoConnectorFunctor
  <2>9. RetryInv'
    BY <1>1, <1>2, <1>3, <1>5, <2>1, <2>2, <2>3 DEF Types, RetryInv, StopInv, AttemptInv
  <2> QED BY <2>4, <2>5, <2>6, <2>7, <2>8, <2>9
<1>6. CASE state_ # "kConnecting"
  <2>1. /\ timers' = timers /\ queue' = q /\ state_' = state_ /\ channel_' = channel_
        /\ retryDelayMs_' = retryDelayMs_ /\ aborted' = aborted
    BY <1>4, <1>6 DEF stopInLoop, Nothing
  <2>2. Types'
    BY <1>1, <1>3, <2>1 DEF Types
  <2>3. AttemptInv' /\ StopInv'
    BY <1>1, <1>2, <1>3, <1>6, <2>1 DEF Types, AttemptInv, StopInv, Due
  <2>4. ChannelInv'
    BY <1>1, <1>2, <1>3, <1>6, <2>1 DEF Types, AttemptInv, ChannelInv
  <2>5. LifeInv'
    BY <1>1, <1>2, <1>3, <1>6, <2>1 DEF Types, LifeInv, ChannelInv, NoConnectorFunctor
  <2>6. RetryInv'
    BY <1>1, <1>2, <1>3, <1>6, <2>1 DEF Types, RetryInv, StopInv, AttemptInv, Due
  <2> QED BY <2>2, <2>3, <2>4, <2>5, <2>6
<1> QED BY <1>5, <1>6

LEMMA ResetStep ==
  ASSUME IInv, RunFunctor, Head(queue) = "resetChannel"
  PROVE  IInv'
<1> DEFINE q == Tail(queue)
<1> USE DEF IInv
<1>1. /\ q \in Seq(Functors) /\ Fits(q, batch')
      /\ clientTurn = "run" /\ activeChannel = {} /\ ~reconnecting
      /\ Has(queue, "resetChannel") /\ ~Has(q, "resetChannel")
      /\ Has(queue, "startInLoop") <=> Has(q, "startInLoop")
      /\ Has(queue, "stopInLoop") <=> Has(q, "stopInLoop")
      /\ Has(queue, "forceCloseInLoop") <=> Has(q, "forceCloseInLoop")
      /\ Once(q, "startInLoop") /\ Once(q, "resetChannel")
  BY FunctorTaken DEF AttemptInv, ChannelInv
<1>2. channel_ = "off" /\ state_ # "kConnecting"
  BY <1>1 DEF ChannelInv
<1>3. /\ Framed /\ stopped' = stopped /\ gaveUp' = gaveUp /\ connection_' = connection_
      /\ channel_' = "none" /\ queue' = q /\ state_' = state_ /\ timers' = timers
      /\ retryDelayMs_' = retryDelayMs_ /\ aborted' = aborted
  BY FunctorFrame DEF RunFunctor, resetChannel
<1> HIDE DEF q
<1> USE DEF Framed
<1>4. Types'
  BY <1>1, <1>3 DEF Types
<1>5. AttemptInv' /\ StopInv'
  BY <1>1, <1>2, <1>3 DEF Types, AttemptInv, StopInv, Due
<1>6. ChannelInv'
  BY <1>1, <1>2, <1>3 DEF Types, ChannelInv
<1>7. LifeInv'
  BY <1>1, <1>2, <1>3 DEF Types, LifeInv, NoConnectorFunctor
<1>8. RetryInv'
  BY <1>1, <1>2, <1>3 DEF Types, RetryInv, StopInv, Due
<1> QED BY <1>4, <1>5, <1>6, <1>7, <1>8

(* connectDestroyed, and forceCloseInLoop, which is there only when the    *)
(* client is gone.                                                         *)
LEMMA CloseStep ==
  ASSUME IInv, RunFunctor, Head(queue) \in {"connectDestroyed", "forceCloseInLoop"}
  PROVE  IInv'
<1> DEFINE q == Tail(queue)
<1> USE DEF IInv
<1>1. /\ q \in Seq(Functors) /\ Fits(q, batch')
      /\ clientTurn = "run" /\ activeChannel = {} /\ ~reconnecting
      /\ \A f \in {"startInLoop", "stopInLoop", "resetChannel"} : Has(queue, f) <=> Has(q, f)
      /\ Has(q, "forceCloseInLoop") => Has(queue, "forceCloseInLoop")
      /\ Once(q, "startInLoop") /\ Once(q, "resetChannel")
      /\ Within(queue, "resetChannel", batch) => Within(q, "resetChannel", batch')
  BY FunctorTaken DEF AttemptInv, ChannelInv
<1>2. Head(queue) = "forceCloseInLoop" => ~client
  BY FunctorTaken DEF LifeInv
<1>3. /\ Framed /\ stopped' = stopped /\ gaveUp' = gaveUp
      /\ connection_' = connection_ \/ (~client /\ connection_' = "none")
      /\ channel_' = channel_ /\ state_' = state_ /\ timers' = timers
      /\ retryDelayMs_' = retryDelayMs_ /\ aborted' = aborted
      /\ queue' = q \/ queue' = Append(q, "connectDestroyed")
  BY <1>2, FunctorFrame DEF RunFunctor, Nothing
<1> HIDE DEF q
<1>4. /\ queue' \in Seq(Functors) /\ Fits(queue', batch')
      /\ \A g \in {"startInLoop", "stopInLoop", "resetChannel", "forceCloseInLoop"} :
           Has(queue', g) <=> Has(q, g)
      /\ Once(queue', "startInLoop") /\ Once(queue', "resetChannel")
      /\ Within(q, "resetChannel", batch') => Within(queue', "resetChannel", batch')
  <2>1. CASE queue' = q
    BY <1>1, <2>1
  <2>2. CASE queue' = Append(q, "connectDestroyed")
    BY <1>1, <2>2, AppendFacts, FunctorNames
  <2> QED BY <1>3, <2>1, <2>2
<1> USE DEF Framed
<1>5. Types'
  BY <1>3, <1>4 DEF Types
<1>6. AttemptInv' /\ StopInv'
  BY <1>1, <1>3, <1>4 DEF Types, AttemptInv, StopInv, Due
<1>7. ChannelInv'
  BY <1>1, <1>3, <1>4 DEF Types, ChannelInv
<1>8. LifeInv'
  BY <1>1, <1>3, <1>4 DEF Types, LifeInv, NoConnectorFunctor
<1>9. RetryInv'
  BY <1>1, <1>3, <1>4 DEF Types, RetryInv, Due
<1> QED BY <1>5, <1>6, <1>7, <1>8, <1>9

LEMMA RunStep ==
  ASSUME IInv, RunFunctor
  PROVE  IInv'
BY StartStep, StopStep, ResetStep, CloseStep DEF RunFunctor

(* Without Again, connect() is the first; other calls only count. *)
LEMMA CountedOnce ==
  ASSUME IInv, Disciplined, NEW op, Counted(op)
  PROVE  /\ client
         /\ op = "connect" => connects = 0 /\ connects' = 1
         /\ op # "connect" => connects = 1 /\ connects' = 1
         /\ connects' \in ConnectCounts /\ calls' \in CallCounts
<1> USE DEF IInv, Disciplined, Counted
<1>1. connects \in {0, 1} /\ connects \in ConnectCounts /\ calls \in CallCounts
  BY DEF Types
<1>2. MaxConnects \in Nat /\ MaxCalls \in Nat
  BY ClientAssumption
<1>3. CASE op = "connect"
  <2>1. connects = 0
    BY <1>1, <1>3
  <2> QED BY <1>1, <1>2, <1>3, <2>1 DEF ConnectCounts
<1>4. CASE op # "connect"
  <2>1. connects = 1 /\ connects' = connects
    BY <1>1, <1>4
  <2> QED BY <1>1, <1>2, <1>4, <2>1 DEF CallCounts
<1> QED BY <1>3, <1>4

(* Before the first connect() nothing has begun. *)
LEMMA ConnectHereStep ==
  ASSUME IInv, Disciplined, connectHere
  PROVE  IInv'
<1> USE DEF IInv, connectHere, Here, Free, Running, lifeVars, clientLoopVars
<1>1. /\ client /\ connects = 0 /\ connects' = 1
      /\ connects' \in ConnectCounts /\ calls' \in CallCounts
  BY CountedOnce
<1>2. /\ state_ = "kDisconnected" /\ timers = 0 /\ channel_ = "none" /\ ~Due
      /\ connection_ = "none" /\ ~reconnecting /\ ~trying
  BY <1>1 DEF AttemptInv, StopInv, Types
<1>3. ~Has(queue, "stopInLoop") /\ closeCallback = "client" /\ ~keeper
  BY <1>1, <1>2 DEF StopInv, LifeInv, Types
<1>4. PICK o \in Outcomes : /\ startInLoop(o, timers, queue)
                            /\ gaveUp' = (gaveUp \/ o = "fatal")
  OBVIOUS
<1>5. Attempted(o, queue)
  BY <1>2, <1>4, ConnectAttempts DEF startInLoop, Types
<1> USE DEF Attempted
<1>6. Types'
  <2>1. gaveUp' \in BOOLEAN /\ timers' \in {0, 1}
    BY <1>4, <1>5
  <2> QED BY <1>1, <1>5, <2>1 DEF Types
<1>7. AttemptInv'
  BY <1>1, <1>2, <1>5 DEF Types, AttemptInv, Due
<1>8. ChannelInv'
  BY <1>1, <1>2, <1>5 DEF Types, AttemptInv, ChannelInv
<1>9. StopInv'
  BY <1>1, <1>2, <1>3, <1>5 DEF Types, StopInv
<1>10. LifeInv'
  BY <1>1, <1>2, <1>3, <1>5 DEF Types, LifeInv, NoConnectorFunctor
<1>11. RetryInv'
  BY <1>1, <1>2, <1>4, <1>5 DEF Types, RetryInv, Due
<1> QED BY <1>6, <1>7, <1>8, <1>9, <1>10, <1>11

LEMMA StopHereStep ==
  ASSUME IInv, Disciplined, stopHere
  PROVE  IInv'
<1> USE DEF IInv, stopHere, Here, Nothing, Free, Running, lifeVars, clientLoopVars
<1>1. /\ client /\ connects = 1 /\ connects' = 1
      /\ connects' \in ConnectCounts /\ calls' \in CallCounts
  BY CountedOnce
<1>2. /\ queue' \in Seq(Functors) /\ Fits(queue', batch)
      /\ \A g : Has(queue', g) <=> Has(queue, g) \/ g = "stopInLoop"
      /\ \A g : Once(queue, g) /\ g # "stopInLoop" => Once(queue', g)
      /\ \A g, b : Within(queue, g, b) => Within(queue', g, b)
  BY AppendFacts, FunctorNames DEF Types
<1>3. Types'
  BY <1>1, <1>2, ZenonT(60) DEF Types
<1>4. AttemptInv'
  BY <1>1, <1>2 DEF Types, AttemptInv, Due
<1>5. ChannelInv'
  BY <1>1, <1>2 DEF Types, ChannelInv
<1>6. StopInv'
  BY <1>1, <1>2 DEF Types, StopInv
<1>7. LifeInv'
  BY <1>1, <1>2 DEF Types, LifeInv, NoConnectorFunctor
<1>8. RetryInv'
  BY DEF RetryInv
<1> QED BY <1>3, <1>4, <1>5, <1>6, <1>7, <1>8

LEMMA DisconnectHereStep ==
  ASSUME IInv, Disciplined, disconnectHere
  PROVE  IInv'
<1> USE DEF IInv, disconnectHere, Here, Free, Running, connectorVars, lifeVars, clientLoopVars
<1>1. /\ client /\ connects = 1 /\ connects' = 1
      /\ connects' \in ConnectCounts /\ calls' \in CallCounts
  BY CountedOnce
<1>2. /\ connection_' \in {"none", "up", "shut"}
      /\ connection_' = "none" <=> connection_ = "none"
  BY DEF Types
<1>3. Types'
  BY <1>1, <1>2, ZenonT(60) DEF Types
<1>4. AttemptInv' /\ ChannelInv' /\ StopInv'
  BY <1>1, <1>2 DEF Types, AttemptInv, ChannelInv, StopInv, Due
<1>5. LifeInv'
  BY <1>1, <1>2 DEF Types, LifeInv, NoConnectorFunctor
<1>6. RetryInv'
  BY DEF RetryInv
<1> QED BY <1>3, <1>4, <1>5, <1>6

(* The other thread connects, stops or disconnects. *)
LEMMA CallStoresStep ==
  ASSUME IInv, Disciplined, NEW op \in Outside, CallStores(op)
  PROVE  IInv'
<1> USE DEF IInv, CallStores, Running, lifeVars, clientLoopVars
<1>1. op \in {"connect", "stop", "disconnect"}
  BY ClientAssumption DEF Calls
<1>2. /\ client
      /\ op = "connect" => connects = 0 /\ connects' = 1
      /\ op # "connect" => connects = 1 /\ connects' = 1
      /\ connects' \in ConnectCounts /\ calls' \in CallCounts
  BY CountedOnce
<1>3. /\ connection_' \in {"none", "up", "shut"}
      /\ connection_' = "none" <=> connection_ = "none"
  BY DEF Types
<1>4. CASE op = "disconnect"
  <2>1. /\ connect_' = FALSE /\ trying' = trying /\ caller' = caller /\ stopped' = stopped
    BY <1>4 DEF Types
  <2>2. Types'
    BY <1>2, <1>3, <1>4, <2>1 DEF Types
  <2>3. AttemptInv' /\ ChannelInv' /\ StopInv'
    BY <1>2, <1>3, <1>4, <2>1 DEF Types, AttemptInv, ChannelInv, StopInv, Due
  <2>4. LifeInv'
    BY <1>2, <1>3, <2>1 DEF Types, LifeInv, NoConnectorFunctor
  <2>5. RetryInv'
    BY <2>1 DEF RetryInv
  <2> QED BY <2>2, <2>3, <2>4, <2>5
<1>5. CASE op = "connect"
  <2>1. /\ connect_' = TRUE /\ trying' = TRUE /\ caller' = "connect" /\ stopped' = FALSE
    BY <1>5
  <2>2. /\ state_ = "kDisconnected" /\ timers = 0 /\ channel_ = "none" /\ ~Due
        /\ connection_ = "none" /\ ~reconnecting /\ ~trying
        /\ ~Has(queue, "stopInLoop") /\ closeCallback = "client" /\ ~keeper
    BY <1>2, <1>5 DEF AttemptInv, StopInv, LifeInv, Types
  <2>3. Types'
    BY <1>2, <1>3, <2>1, ZenonT(60) DEF Types
  <2>4. AttemptInv' /\ ChannelInv' /\ StopInv'
    BY <1>2, <1>3, <1>5, <2>1, <2>2 DEF Types, AttemptInv, ChannelInv, StopInv, Due
  <2>5. LifeInv'
    BY <1>2, <1>3, <2>1, <2>2 DEF Types, LifeInv, NoConnectorFunctor
  <2>6. RetryInv'
    BY <2>1 DEF RetryInv, Due
  <2> QED BY <2>3, <2>4, <2>5, <2>6
<1>6. CASE op = "stop"
  <2>1. /\ connect_' = FALSE /\ trying' = FALSE /\ caller' = "stop"
        /\ stopped' = stopped /\ connection_' = connection_
        /\ connects = 1 /\ caller = "none"
    BY <1>2, <1>6 DEF Types
  <2>2. ~reconnecting
    BY <1>6 DEF Disciplined, StopInv
  <2>3. Types'
    BY <1>2, <1>3, <2>1, ZenonT(60) DEF Types
  <2>4. AttemptInv' /\ ChannelInv' /\ StopInv'
    BY <1>2, <1>6, <2>1, <2>2 DEF Types, AttemptInv, ChannelInv, StopInv, Due
  <2>5. LifeInv'
    BY <1>2, <2>1, <2>2 DEF Types, LifeInv, NoConnectorFunctor
  <2>6. RetryInv'
    BY <2>1 DEF RetryInv
  <2> QED BY <2>3, <2>4, <2>5, <2>6
<1> QED BY <1>1, <1>4, <1>5, <1>6

LEMMA CallQueuesStep ==
  ASSUME IInv, CallQueues
  PROVE  IInv'
<1> USE DEF IInv, CallQueues, Running, lifeVars, clientLoopVars
<1>1. CASE caller = "connect"
  <2>1. /\ queue' = Append(queue, "startInLoop")
        /\ ~Has(queue, "startInLoop") /\ Due
    BY <1>1 DEF Types, AttemptInv, Due
  <2>2. /\ queue' \in Seq(Functors) /\ Fits(queue', batch)
        /\ \A g : Has(queue', g) <=> Has(queue, g) \/ g = "startInLoop"
        /\ Once(queue', "startInLoop")
        /\ Once(queue, "resetChannel") => Once(queue', "resetChannel")
        /\ \A g, b : Within(queue, g, b) => Within(queue', g, b)
    BY <2>1, AppendFacts, FunctorNames DEF Types, AttemptInv
  <2>3. Types'
    BY <2>1, <2>2 DEF Types
  <2>4. AttemptInv'
    BY <2>1, <2>2 DEF Types, AttemptInv, Due
  <2>5. ChannelInv'
    BY <2>1, <2>2 DEF Types, AttemptInv, ChannelInv
  <2>6. StopInv'
    BY <2>1, <2>2 DEF Types, StopInv
  <2>7. LifeInv'
    BY <1>1, <2>1, <2>2 DEF Types, LifeInv, NoConnectorFunctor
  <2>8. RetryInv'
    BY <2>1, <2>2 DEF RetryInv, Due
  <2> QED BY <2>3, <2>4, <2>5, <2>6, <2>7, <2>8
<1>2. CASE caller = "stop"
  <2>1. queue' = Append(queue, "stopInLoop") /\ caller' = "none"
    BY <1>2
  <2>2. /\ queue' \in Seq(Functors) /\ Fits(queue', batch)
        /\ \A g : Has(queue', g) <=> Has(queue, g) \/ g = "stopInLoop"
        /\ \A g : Once(queue, g) /\ g # "stopInLoop" => Once(queue', g)
        /\ \A g, b : Within(queue, g, b) => Within(queue', g, b)
    BY <2>1, AppendFacts, FunctorNames DEF Types
  <2>3. Types'
    BY <2>1, <2>2 DEF Types
  <2>4. AttemptInv'
    BY <1>2, <2>1, <2>2 DEF Types, AttemptInv, Due
  <2>5. ChannelInv'
    BY <2>1, <2>2 DEF Types, ChannelInv
  <2>6. StopInv'
    BY <1>2, <2>1, <2>2 DEF Types, StopInv
  <2>7. LifeInv'
    BY <1>2, <2>1, <2>2 DEF Types, LifeInv, NoConnectorFunctor
  <2>8. RetryInv'
    BY <1>2, <2>1, <2>2 DEF RetryInv, Due
  <2> QED BY <2>3, <2>4, <2>5, <2>6, <2>7, <2>8
<1> QED BY <1>1, <1>2 DEF Types

(* The connector goes with the client: nothing in the queue refers to it. *)
LEMMA DestroyConnectedStep ==
  ASSUME IInv, Disciplined, DestroyConnected
  PROVE  IInv'
<1> USE DEF IInv, DestroyConnected, MayDestroy, Free, Running, clientLoopVars
<1>1. /\ state_ = "kConnected" /\ timers = 0 /\ caller = "none" /\ ~reconnecting
      /\ client /\ ~keeper
  BY DEF Types, AttemptInv, LifeInv
<1>2. NoConnectorFunctor(queue)
  <2>1. ~\E f \in ConnectorFunctors : Queued(f)
    BY DEF ConnectorNeeded, Disciplined
  <2> QED BY <2>1 DEF NoConnectorFunctor, Queued, Has, ConnectorFunctors
<1>3. channel_ = "none"
  BY <1>1, <1>2 DEF Types, ChannelInv, NoConnectorFunctor
<1>4. /\ queue' \in Seq(Functors) /\ Fits(queue', batch)
      /\ \A g : g # "forceCloseInLoop" => (Has(queue', g) <=> Has(queue, g))
      /\ Once(queue', "startInLoop") /\ Once(queue', "resetChannel")
  <2>1. CASE queue' = queue
    BY <2>1 DEF Types, AttemptInv, ChannelInv
  <2>2. CASE queue' = Append(queue, "forceCloseInLoop")
    BY <2>2, AppendFacts, FunctorNames DEF Types, AttemptInv, ChannelInv
  <2> QED BY <2>1, <2>2
<1>5. Types'
  BY <1>1, <1>4 DEF Types
<1>6. AttemptInv' /\ ChannelInv' /\ StopInv'
  BY <1>1, <1>3, <1>4 DEF Types, AttemptInv, ChannelInv, StopInv, Due
<1>7. LifeInv'
  BY <1>1, <1>2, <1>3, <1>4 DEF Types, LifeInv, NoConnectorFunctor
<1>8. RetryInv'
  BY DEF RetryInv
<1> QED BY <1>5, <1>6, <1>7, <1>8

LEMMA DestroyUnconnectedStep ==
  ASSUME IInv, DestroyUnconnected
  PROVE  IInv'
<1> USE DEF IInv, DestroyUnconnected, MayDestroy, Free, Running, clientLoopVars
<1>1. /\ queue' \in Seq(Functors) /\ Fits(queue', batch)
      /\ \A g : Has(queue', g) <=> Has(queue, g) \/ g = "stopInLoop"
      /\ \A g : Once(queue, g) /\ g # "stopInLoop" => Once(queue', g)
      /\ \A g, b : Within(queue, g, b) => Within(queue', g, b)
  BY AppendFacts, FunctorNames DEF Types
<1>2. client /\ closeCallback = "client" /\ ~keeper /\ ~Has(queue, "forceCloseInLoop")
  BY DEF Types, LifeInv
<1>3. Types'
  BY <1>1, ZenonT(60) DEF Types
<1>4. AttemptInv'
  BY <1>1 DEF Types, AttemptInv, Due
<1>5. ChannelInv'
  BY <1>1 DEF Types, ChannelInv
<1>6. StopInv'
  BY <1>1, <1>2 DEF Types, StopInv
<1>7. LifeInv'
  BY <1>1, <1>2 DEF Types, LifeInv, NoConnectorFunctor
<1>8. RetryInv'
  BY DEF RetryInv
<1> QED BY <1>3, <1>4, <1>5, <1>6, <1>7, <1>8

LEMMA StutterStep ==
  ASSUME IInv, UNCHANGED allClientVars
  PROVE  IInv'
BY DEF IInv, allClientVars, connectorVars, clientVars, clientLoopVars, Types, AttemptInv, ChannelInv,
       StopInv, LifeInv, RetryInv, Due, NoConnectorFunctor

LEMMA InvStep ==
  ASSUME Disciplined, IInv, [ClientNext]_allClientVars
  PROVE  IInv'
<1>1. CASE LoopStep
  BY <1>1, PollStep, HandleErrorStep, HandleWriteStep, HandleTimerStep, HandleKeeperStep,
     RemoveConnectionStep, RestartStep, SwapStep, RunStep DEF LoopStep
<1>2. CASE UserCall
  BY <1>2, ConnectHereStep, StopHereStep, DisconnectHereStep, CallStoresStep,
     CallQueuesStep, DestroyConnectedStep, DestroyUnconnectedStep DEF UserCall
<1>3. CASE UNCHANGED allClientVars
  BY <1>3, StutterStep
<1> QED BY <1>1, <1>2, <1>3 DEF ClientNext

-----------------------------------------------------------------------------
(* What the invariant says.                                                *)

LEMMA InvImplies ==
  ASSUME IInv
  PROVE  ClientTypeOK /\ NoAssertFails /\ OneAttempt /\ NeverGivesUp /\ StopHereIsFinal
<1> USE DEF IInv
<1>1. \A f : Queued(f) <=> Has(queue, f)
  BY DEF Queued, Has
<1>2. ClientTypeOK
  <2>1. caller \in Calls \cup {"none"} /\ timers \in Nat
    BY DEF Types, Calls
  <2> QED BY <2>1 DEF Types, ClientTypeOK, Fits, Delays, ConnectCounts, CallCounts
<1>3. NoAssertFails
  BY <1>1 DEF NoAssertFails, ConnectorGone, Types, LifeInv, NoConnectorFunctor,
              ConnectorFunctors, ConnectorNeeded
<1>4. OneAttempt
  <2>1. CASE state_ = "kDisconnected"
    BY <2>1 DEF OneAttempt, Types, AttemptInv
  <2>2. CASE state_ = "kConnecting"
    BY <2>2 DEF OneAttempt, Types, AttemptInv
  <2>3. CASE state_ = "kConnected"
    BY <2>3 DEF OneAttempt, Types, AttemptInv
  <2> QED BY <2>1, <2>2, <2>3 DEF Types
<1>5. NeverGivesUp
  BY <1>1 DEF NeverGivesUp, RetryInv, Due
<1>6. StopHereIsFinal
  BY DEF StopHereIsFinal, StopIsFinal, StopInv
<1> QED BY <1>2, <1>3, <1>4, <1>5, <1>6

-----------------------------------------------------------------------------
(* The inductive invariant: where the one attempt is, what its channel and *)
(* timer are waiting for, and who still shares the Connector               *)
(* (Connector.cc 40-225, TcpClient.cc 73-180).                             *)
THEOREM Invariant == ASSUME Disciplined PROVE ClientSpec => []IInv
<1>1. ClientInit => IInv
  BY Begins
<1>2. IInv /\ [ClientNext]_allClientVars => IInv'
  BY InvStep
<1> QED BY <1>1, <1>2, PTL DEF ClientSpec

(* Every variable stays in its type; the retry delay stays between its     *)
(* first value and its limit (Connector.cc 209-225).                       *)
THEOREM TypeCorrect == ASSUME Disciplined PROVE ClientSpec => []ClientTypeOK
BY Invariant, InvImplies, PTL

(* As long as the loop is faster than the one second of TcpClient.cc 100,  *)
(* and for clients that connect once and are not destroyed at the moment   *)
(* they have connected: no assert of startInLoop, connecting, handleWrite, *)
(* removeConnection or ~Connector fails, no callback reaches a deleted     *)
(* TcpClient, and when the Connector is deleted no queued functor points   *)
(* to it (Connector.cc 34-58, 128-156, 190-194; TcpClient.cc 73-102,       *)
(* 162-171).                                                               *)
THEOREM AssertsHold == ASSUME Disciplined PROVE ClientSpec => []NoAssertFails
BY Invariant, InvImplies, PTL

(* Timers, sockets being connected, connections and restarts that are due  *)
(* are one at most, together: retry and restart never start a second       *)
(* attempt beside the first (Connector.cc 119-141, 209-225; TcpClient.cc   *)
(* 162-180).                                                               *)
THEOREM OneAttemptAtATime == ASSUME Disciplined PROVE ClientSpec => []OneAttempt
BY Invariant, InvImplies, PTL

(* As long as the user wants the connection and connect(2) has not failed  *)
(* for good, something is under way or due: no path through retry, restart *)
(* or resetChannel drops the attempt (Connector.cc 46-58, 78-126, 197-225; *)
(* TcpClient.cc 174-179).                                                  *)
THEOREM ClientNeverGivesUp == ASSUME Disciplined PROVE ClientSpec => []NeverGivesUp
BY Invariant, InvImplies, PTL

(* Once stopInLoop has run no connection is being made: the timer that     *)
(* stop() does not cancel finds connect_ false.  For stop() on the loop's  *)
(* thread, and in any thread of a client without enableRetry(): with it,   *)
(* another thread's stop() races with restart() (Connector.cc 46-76,       *)
(* 119-126, 209-225).                                                      *)
THEOREM StopStaysFinal == ASSUME Disciplined PROVE ClientSpec => []StopHereIsFinal
BY Invariant, InvImplies, PTL
=============================================================================

------------------------------ MODULE TcpClient ------------------------------
(***************************************************************************)
(* muduo::net::TcpClient (muduo/net/TcpClient.cc) with its Connector, on   *)
(* one loop: an iteration handles the events poll reported, each source    *)
(* once, and then runs the functors queued by then.  Users call connect,   *)
(* stop and disconnect on the loop's thread, or from another thread, where *)
(* the stores and the functor are separate steps.  The client may be       *)
(* destroyed on the loop's thread; functors hold plain pointers to the     *)
(* Connector, timers share it.  Of the TcpConnection only its being there  *)
(* matters: the peer, shutdown or forceClose ends it.                      *)
(***************************************************************************)
EXTENDS Connector

CONSTANTS
  Inside,      \* the calls made on the loop's thread
  Outside,     \* the calls made by the other thread
  Again,       \* when users call connect() again: "afterDown", "afterStop"
  ClientRisks, \* what nothing in the code rules out: "slowLoop", an iteration
               \* of the loop lasts longer than the second for which
               \* ~TcpClient keeps the Connector; "dtorAtOnce", a client is
               \* destroyed before the resetChannel of its connection has run
  retry_,
  Outcomes,    \* of connect(2): "inprogress", "refused", "fatal"
  MaxConnects, \* bound on the calls of connect()
  MaxCalls     \* bound on the other calls

Calls == {"connect", "stop", "disconnect"}

ASSUME ClientAssumption ==
  /\ Inside \subseteq Calls /\ Outside \subseteq Calls
  /\ Again \subseteq {"afterDown", "afterStop"}
  /\ ClientRisks \subseteq {"slowLoop", "dtorAtOnce"}
  /\ Outcomes \subseteq {"inprogress", "refused", "fatal"}
  /\ retry_ \in BOOLEAN /\ MaxConnects \in Nat /\ MaxCalls \in Nat

VARIABLES
  connect_,      \* TcpClient::connect_
  connection_,   \* "none", "up", "shut" (shutdown was called)
  clientTurn, activeChannel, batch,
  caller,        \* the call the other thread is in, past its stores
  connects,      \* calls of connect() so far
  calls,         \* other calls so far
  reconnecting,  \* removeConnection has tested connect_, and will restart()
  client,        \* whether the TcpClient exists
  keeper,        \* the timer of ~TcpClient that keeps the Connector
  closeCallback, \* whose removeConnection the connection calls: "client" or "detail"
  stopped,       \* stopInLoop has run since the last connect() was made
  gaveUp         \* connect(2) failed for good

clientVars == <<connect_, connection_, caller, connects, calls, reconnecting,
                client, keeper, closeCallback, stopped, gaveUp>>
lifeVars == <<client, keeper, closeCallback>>
clientLoopVars == <<clientTurn, activeChannel, batch>>
allClientVars == <<connectorVars, clientVars, clientLoopVars>>

(* Functors that hold a plain pointer to the Connector, and the others. *)
ConnectorFunctors == {"startInLoop", "stopInLoop", "resetChannel"}
Functors == ConnectorFunctors \cup {"connectDestroyed", "forceCloseInLoop"}

ClientTypeOK ==
  /\ trying \in BOOLEAN /\ connect_ \in BOOLEAN
  /\ state_ \in {"kDisconnected", "kConnecting", "kConnected"}
  /\ channel_ \in {"none", "on", "off"}
  /\ retryDelayMs_ \in kInitRetryDelayMs .. kMaxRetryDelayMs
  /\ timers \in Nat
  /\ queue \in Seq(Functors)
  /\ connection_ \in {"none", "up", "shut"}
  /\ clientTurn \in {"poll", "handle", "run"}
  /\ activeChannel \subseteq {"channel", "timer", "keeper", "connection"}
  /\ batch \in 0 .. Len(queue)
  /\ caller \in Calls \cup {"none"}
  /\ connects \in 0 .. MaxConnects /\ calls \in 0 .. MaxCalls
  /\ client \in BOOLEAN /\ keeper \in BOOLEAN
  /\ closeCallback \in {"client", "detail"}
  /\ reconnecting \in BOOLEAN /\ stopped \in BOOLEAN /\ gaveUp \in BOOLEAN

(* The client is constructed, by a callback of the loop or before loop(). *)
ClientInit ==
  /\ ConnectorInit
  /\ connect_ = TRUE /\ connection_ = "none"
  /\ clientTurn = "run" /\ activeChannel = {} /\ batch = 0
  /\ caller = "none" /\ connects = 0 /\ calls = 0
  /\ client = TRUE /\ keeper = FALSE /\ closeCallback = "client"
  /\ reconnecting = FALSE /\ stopped = FALSE /\ gaveUp = FALSE

Running == aborted = "no"

(* The loop's thread is between two callbacks. *)
Free == Running /\ ~reconnecting

-----------------------------------------------------------------------------
(* One iteration of the loop.                                              *)

Queued(f) == \E i \in DOMAIN queue : queue[i] = f
ConnectorNeeded == \E f \in ConnectorFunctors : Queued(f)

(* What poll may report.  The timer of one second that ~TcpClient sets     *)
(* outlasts the functors that are queued unless the loop is slow.          *)
Sources ==
  (IF keeper /\ ("slowLoop" \in ClientRisks \/ ~ConnectorNeeded) THEN {"keeper"} ELSE {}) \cup
  (IF channel_ = "on" THEN {"channel"} ELSE {}) \cup
  (IF timers > 0 THEN {"timer"} ELSE {}) \cup
  (IF connection_ # "none" THEN {"connection"} ELSE {})

ClientPoll ==
  /\ Free /\ clientTurn = "poll"
  /\ clientTurn' = "handle"
  /\ activeChannel' \in SUBSET Sources
  /\ UNCHANGED <<connectorVars, clientVars, batch>>

Handles(source) ==
  /\ Free
  /\ source \in activeChannel
  /\ activeChannel' = activeChannel \ {source}
  /\ UNCHANGED <<clientTurn, batch, caller, connects, calls, client, closeCallback, stopped>>

(* The attempt fails: handleError, or handleWrite that reads SO_ERROR or   *)
(* finds a self-connect; a handleWrite after handleError does nothing.     *)
handleError ==
  /\ Handles("channel")
  /\ UNCHANGED <<trying, connect_, connection_, reconnecting, keeper, gaveUp>>
  /\ IF state_ = "kConnecting" THEN FailAttempt(queue) ELSE Nothing(timers, queue)

(* handleWrite and newConnection, or the close of an unwanted socket. *)
handleWrite ==
  /\ Handles("channel")
  /\ IF state_ = "kConnecting"
     THEN /\ IF trying /\ ~client THEN Fail("newConnection: no client", timers, queue)
             ELSE established
          /\ connection_' = IF trying THEN "up" ELSE connection_
     ELSE /\ IF state_ = "kDisconnected" THEN Nothing(timers, queue)
             ELSE Fail("handleWrite: state_", timers, queue)
          /\ UNCHANGED connection_
  /\ UNCHANGED <<trying, connect_, reconnecting, keeper, gaveUp>>

(* A retry timer runs startInLoop. *)
HandleTimer ==
  /\ Handles("timer")
  /\ UNCHANGED <<trying, connect_, connection_, reconnecting, keeper>>
  /\ \E o \in Outcomes :
       /\ startInLoop(o, timers - 1, queue)
       /\ gaveUp' = (gaveUp \/ (trying /\ o = "fatal"))

(* The keeper of the Connector runs, and lets go of it. *)
HandleKeeper ==
  /\ Handles("keeper")
  /\ keeper' = FALSE
  /\ UNCHANGED <<connectorVars, connect_, connection_, reconnecting, gaveUp>>

(* Faulty variant: connection_ is not reset. *)
removeKeepsConnection ==
  /\ Handles("connection")
  /\ queue' = Append(queue, "connectDestroyed")
  /\ reconnecting' = (retry_ /\ connect_)
  /\ UNCHANGED <<trying, state_, channel_, retryDelayMs_, timers, aborted,
                 connect_, connection_, keeper, gaveUp>>

(* The connection ends; removeConnection of the client, up to its test of  *)
(* connect_, or detail::removeConnection.                                  *)
removeConnection ==
  /\ Handles("connection")
  /\ connection_' = "none"
  /\ queue' = Append(queue, "connectDestroyed")
  /\ reconnecting' = (closeCallback = "client" /\ retry_ /\ connect_)
  /\ aborted' = IF closeCallback = "client" /\ ~client
               THEN "removeConnection: no client" ELSE aborted
  /\ UNCHANGED <<trying, state_, channel_, retryDelayMs_, timers, connect_, keeper, gaveUp>>

(* connector_->restart() at the end of removeConnection. *)
restartConnector ==
  /\ Running /\ reconnecting
  /\ reconnecting' = FALSE
  /\ \E o \in Outcomes : restart(o) /\ gaveUp' = (gaveUp \/ o = "fatal")
  /\ UNCHANGED <<connect_, connection_, caller, connects, calls, lifeVars, stopped, clientLoopVars>>

SwapFunctors ==
  /\ Free /\ clientTurn = "handle" /\ activeChannel = {}
  /\ clientTurn' = "run"
  /\ batch' = Len(queue)
  /\ UNCHANGED <<connectorVars, clientVars, activeChannel>>

EndFunctors ==
  /\ Free /\ clientTurn = "run" /\ batch = 0
  /\ clientTurn' = "poll"
  /\ UNCHANGED <<connectorVars, clientVars, activeChannel, batch>>

RunFunctor ==
  /\ Free /\ clientTurn = "run" /\ batch > 0
  /\ batch' = batch - 1
  /\ UNCHANGED trying
  /\ LET q == Tail(queue)
     IN  \/ /\ Head(queue) = "startInLoop"
            /\ \E o \in Outcomes :
                 /\ startInLoop(o, timers, q)
                 /\ gaveUp' = (gaveUp \/ (trying /\ o = "fatal"))
            /\ UNCHANGED <<stopped, connection_>>
         \/ /\ Head(queue) = "stopInLoop"
            /\ stopInLoop(q)
            /\ stopped' = ~\E i \in DOMAIN q : q[i] = "startInLoop"
            /\ UNCHANGED <<gaveUp, connection_>>
         \/ /\ Head(queue) = "resetChannel"
            /\ resetChannel(q)
            /\ UNCHANGED <<stopped, gaveUp, connection_>>
         \/ /\ Head(queue) = "connectDestroyed"
            /\ Nothing(timers, q)
            /\ UNCHANGED <<stopped, gaveUp, connection_>>
         \/ /\ Head(queue) = "forceCloseInLoop"
            /\ Nothing(timers, IF connection_ = "none" THEN q ELSE Append(q, "connectDestroyed"))
            /\ connection_' = "none"
            /\ UNCHANGED <<stopped, gaveUp>>
  /\ UNCHANGED <<connect_, caller, connects, calls, reconnecting, lifeVars, clientTurn, activeChannel>>

-----------------------------------------------------------------------------
(* Calls on the loop's thread; its user code runs between callbacks.       *)

(* Users stop or disconnect what they have connected; they connect again,  *)
(* if at all, when their connection is down or after they have stopped.    *)
Counted(op) ==
  /\ client
  /\ IF op = "connect"
     THEN /\ connects < MaxConnects
          /\ connects > 0 =>
               \/ "afterDown" \in Again /\ state_ = "kConnected" /\ connection_ = "none"
               \/ "afterStop" \in Again /\ ~connect_
          /\ connects' = connects + 1 /\ UNCHANGED calls
     ELSE /\ connects > 0 /\ calls < MaxCalls
          /\ calls' = calls + 1 /\ UNCHANGED connects

Here(op) ==
  /\ Free /\ clientTurn # "poll"
  /\ op \in Inside /\ Counted(op)
  /\ UNCHANGED <<caller, reconnecting, lifeVars, clientLoopVars>>

connectHere ==
  /\ Here("connect")
  /\ connect_' = TRUE /\ trying' = TRUE
  /\ \E o \in Outcomes :
       /\ startInLoop(o, timers, queue)
       /\ gaveUp' = (gaveUp \/ o = "fatal")
  /\ stopped' = FALSE
  /\ UNCHANGED connection_

stopHere ==
  /\ Here("stop")
  /\ connect_' = FALSE /\ trying' = FALSE
  /\ Nothing(timers, Append(queue, "stopInLoop"))
  /\ UNCHANGED <<connection_, stopped, gaveUp>>

(* disconnect() does not tell the connector. *)
disconnectHere ==
  /\ Here("disconnect")
  /\ connect_' = FALSE
  /\ connection_' = IF connection_ = "up" THEN "shut" ELSE connection_
  /\ UNCHANGED <<connectorVars, stopped, gaveUp>>

(* Calls of the other thread: the stores to the two connect_, then the     *)
(* functor.                                                                *)
CallStores(op) ==
  /\ Running /\ caller = "none"
  /\ op \in Outside /\ Counted(op)
  /\ connect_' = (op = "connect")
  /\ trying' = IF op = "disconnect" THEN trying ELSE op = "connect"
  /\ caller' = IF op = "disconnect" THEN "none" ELSE op
  /\ connection_' = IF op = "disconnect" /\ connection_ = "up" THEN "shut"
                                                              ELSE connection_
  /\ stopped' = (stopped /\ op # "connect")
  /\ UNCHANGED <<state_, channel_, retryDelayMs_, timers, queue, aborted,
                 reconnecting, lifeVars, gaveUp, clientLoopVars>>

CallQueues ==
  /\ Running /\ caller # "none"
  /\ caller' = "none"
  /\ queue' = Append(queue, IF caller = "connect" THEN "startInLoop" ELSE "stopInLoop")
  /\ UNCHANGED <<trying, state_, channel_, retryDelayMs_, timers, aborted,
                 connect_, connection_, connects, calls, reconnecting, lifeVars, stopped, gaveUp,
                 clientLoopVars>>

(* ~TcpClient, on the loop's thread between two callbacks, with no call of *)
(* the other thread under way.                                             *)
MayDestroy ==
  /\ Free /\ clientTurn # "poll" /\ client /\ caller = "none"
  /\ connection_ # "none" => "dtorAtOnce" \in ClientRisks \/ ~ConnectorNeeded

(* The connection is told to do without the client, and is closed if       *)
(* nobody else holds it.                                                   *)
DestroyConnected ==
  /\ MayDestroy /\ connection_ # "none"
  /\ client' = FALSE
  /\ closeCallback' = "detail"
  /\ \E unique \in BOOLEAN :
       queue' = IF unique THEN Append(queue, "forceCloseInLoop") ELSE queue
  /\ UNCHANGED <<trying, state_, channel_, retryDelayMs_, timers, aborted, connect_,
                 connection_, caller, connects, calls, reconnecting, keeper, stopped,
                 gaveUp, clientLoopVars>>

(* Faulty variant: nothing keeps the Connector. *)
DestroyUnconnectedBare ==
  /\ MayDestroy /\ connection_ = "none"
  /\ client' = FALSE
  /\ trying' = FALSE
  /\ queue' = Append(queue, "stopInLoop")
  /\ UNCHANGED <<state_, channel_, retryDelayMs_, timers, aborted, connect_, connection_,
                 caller, connects, calls, reconnecting, keeper, closeCallback, stopped,
                 gaveUp, clientLoopVars>>

(* No connection: the connector stops, and a timer keeps it until then. *)
DestroyUnconnected ==
  /\ MayDestroy /\ connection_ = "none"
  /\ client' = FALSE
  /\ trying' = FALSE
  /\ queue' = Append(queue, "stopInLoop")
  /\ keeper' = TRUE
  /\ UNCHANGED <<state_, channel_, retryDelayMs_, timers, aborted, connect_, connection_,
                 caller, connects, calls, reconnecting, closeCallback, stopped,
                 gaveUp, clientLoopVars>>

-----------------------------------------------------------------------------
LoopStep ==
  \/ ClientPoll \/ handleError \/ handleWrite \/ HandleTimer \/ HandleKeeper \/ removeConnection
  \/ restartConnector \/ SwapFunctors \/ RunFunctor \/ EndFunctors

UserCall ==
  \/ connectHere \/ stopHere \/ disconnectHere
  \/ (\E op \in Outside : CallStores(op)) \/ CallQueues
  \/ DestroyConnected \/ DestroyUnconnected

ClientNext == LoopStep \/ UserCall

ClientSpec == ClientInit /\ [][ClientNext]_allClientVars

-----------------------------------------------------------------------------
(* The Connector is deleted with the last who share it: the client, a      *)
(* retry timer, or the keeper.                                             *)
ConnectorGone == ~client /\ timers = 0 /\ ~keeper

(* No assert of Connector or TcpClient fails and no callback reaches a     *)
(* deleted TcpClient.  When the Connector is deleted its channel is gone   *)
(* (its destructor asserts that) and no functor is left that would use it: *)
(* the plain pointers "FIXME: unsafe" are about.  This takes a loop that   *)
(* is faster than the keeper's second, and users who connect once and do   *)
(* not destroy a client at the moment it has connected: see the next one.  *)
NoAssertFails ==
  /\ aborted = "no"
  /\ ConnectorGone => channel_ = "none" /\ ~ConnectorNeeded

(* ~Connector: assert(!channel_), for every client.                        *)
DeletedWithoutChannel == ConnectorGone => channel_ = "none"

(* There is never more than one attempt: one timer, or one socket being    *)
(* connected, or one connection, or a restart that is due.                 *)
OneAttempt ==
  timers + (IF state_ = "kConnecting" THEN 1 ELSE 0)
         + (IF connection_ # "none" THEN 1 ELSE 0)
         + (IF reconnecting THEN 1 ELSE 0) <= 1

(* A client never gives up: until it is connected, and with enableRetry()  *)
(* whenever it is not, an attempt is being made or is due, unless it was   *)
(* stopped or connect(2) failed for good.                                  *)
NeverGivesUp ==
  (client /\ connects > 0 /\ connect_ /\ ~gaveUp /\ (retry_ \/ state_ # "kConnected")) =>
    \/ connection_ # "none" \/ reconnecting
    \/ state_ = "kConnecting" \/ timers > 0
    \/ Queued("startInLoop") \/ caller = "connect"

(* Once stopInLoop has run, and until connect() is called again, no        *)
(* connection is being made: stop() "can be called in any thread".         *)
StopIsFinal == stopped => state_ # "kConnecting"

(* And who can rely on it: any thread, as long as the client does not      *)
(* retry, and with enableRetry() the loop's own.  Then neither the timer   *)
(* that stop() does not cancel nor a connection that goes down makes the   *)
(* client connect again.                                                   *)
StopHereIsFinal == (retry_ => "stop" \notin Outside) => StopIsFinal
=============================================================================

---------------------------- MODULE TcpConnection ----------------------------
(***************************************************************************)
(* One TcpConnection (muduo/net/TcpConnection.cc) from the moment          *)
(* TcpServer::newConnection makes it to the moment connectDestroyed has    *)
(* run: its state, its output path down to the socket, its channel, the    *)
(* part TcpServer plays in its life, and the calls of user code.           *)
(*                                                                         *)
(* The I/O loop's thread runs one handler or functor at a time; its functor*)
(* queue is kept as module Executor describes it, and so is the one of the *)
(* server's loop.  User code on the loop's thread calls the connection     *)
(* directly; one other thread calls it too, and its calls are not atomic:  *)
(* state_ is tested first, set and queued upon later.  Users keep their    *)
(* TcpConnectionPtr throughout.                                            *)
(***************************************************************************)
EXTENDS Channel, Sequences, FiniteSets, FiniteSetsExt

CONSTANTS
  Uses,           \* the ways to use a connection, one of which is chosen
  Callbacks,      \* which of writeCompleteCallback_, highWaterMarkCallback_ are set
  MaxSends,       \* bound on the messages sent
  MsgLen,         \* bytes per message
  SndBuf,         \* capacity of the socket's send buffer
  highWaterMark_,
  MaxQueue        \* bound on the functors waiting when a user call is made

Calls == {"send", "shutdown", "forceClose", "forceCloseWithDelay",
          "startRead", "stopRead"}

(* Which calls user code makes on the loop's thread and on another one;    *)
(* whether it starts and stops reading after the down callback too;        *)
(* whether the server has no I/O threads, so that both loops are one; and  *)
(* whether it may be destroyed: never, in a functor or in a message        *)
(* callback of this connection, or in any handler.                         *)
Use == [inside : SUBSET Calls, outside : SUBSET Calls, late : BOOLEAN,
        sameLoop : BOOLEAN, serverDies : {"never", "own", "any"}]

(* What the library leaves to its users (of which TcpConnection.h:70 says  *)
(* only that shutdown is "NOT thread safe"): threads other than the loop's *)
(* only send; nobody starts or stops reading on a connection that is down; *)
(* a server is destroyed on the loop of its connections, none of them half *)
(* closed and none of them with an event still to be handled; and a        *)
(* connection that is kept from reading lives on the server's loop and is  *)
(* closed by nothing but shutdown().  The code checks none of it, and each *)
(* part is needed: see the properties at the end that hold for these uses  *)
(* only.                                                                   *)
Disciplined(u) ==
  LET closing == u.inside \cap {"shutdown", "forceClose", "forceCloseWithDelay"}
  IN  /\ u.outside \subseteq {"send"}
      /\ ~u.late
      /\ u.serverDies # "any"
      /\ u.serverDies = "own" => u.sameLoop /\ closing = {}
      /\ "stopRead" \in u.inside => u.sameLoop /\ closing \subseteq {"shutdown"}

AllDisciplined == \A u \in Uses : Disciplined(u)

ASSUME ConnectionAssumption ==
  /\ Uses \subseteq Use
  /\ Callbacks \subseteq {"writeComplete", "highWaterMark"}
  /\ MaxSends \in Nat /\ MsgLen \in Nat \ {0} /\ SndBuf \in Nat \ {0}
  /\ highWaterMark_ \in Nat \ {0} /\ MaxQueue \in Nat

VARIABLES
  use,           \* how this connection is used
  state_, reading_, outputBuffer_,
  wire,          \* bytes the socket has taken, in order
  unread,        \* how many of them still sit in its send buffer
  fin,           \* shutdownWrite was done
  peer,          \* "open", "fin" (it shut down), "reset"
  inbound,       \* there are bytes to read
  sockErr,       \* SO_ERROR is set
  turn,          \* what the connection's loop is doing: "poll", "handle", "run"
  active,        \* the events of this channel are being handled, or will be:
                 \* eventHandling_ is set and activeChannels_ holds it
  revents,       \* what of the reported events is still to be handled
  batch,         \* functors of this iteration still to be run
  ioQueue,       \* pendingFunctors_ of the connection's loop, and the batch
  baseQueue,     \* pendingFunctors_ of the server's loop, if it is another
  connections_,  \* the server's map holds the connection
  server,        \* the TcpServer is alive
  delayed,       \* forceCloseWithDelay's timer is set
  caller,        \* the call the other thread is in, past its test of state_
  sent,          \* messages sent so far
  accepted,      \* bytes sendInLoop has taken, in order
  owed,          \* no writeComplete callback has run since the last of them
  ups, downs,    \* calls of connectionCallback_ for up and for down
  destroyed,     \* connectDestroyed has run
  aborted        \* the assert that failed, if one has

serverVars == <<baseQueue, connections_, server>>
logVars == <<ups, downs, destroyed>>
dataVars == <<outputBuffer_, accepted, owed>>
userVars == <<delayed, caller, sent>>

(* What a handler or functor of the connection may change, its loop's      *)
(* queue and a failed assert apart.                                        *)
connVars == <<channelVars, state_, reading_, wire, unread, fin, dataVars,
              serverVars, logVars>>

loopVars == <<turn, active, revents, batch>>

stateVars == <<connVars, peer, inbound, sockErr, loopVars, ioQueue, userVars,
               aborted>>

vars == <<use, stateVars>>

SameLoop == use.sameLoop

Msg(m) == [i \in 1 .. MsgLen |-> m]
Functor(op) == [op |-> op, msg |-> 0]
SendFunctor(m) == [op |-> "send", msg |-> m]
Idle == [op |-> "none", stage |-> "none", msg |-> 0]

Ops == Calls \cup {"connectEstablished", "connectDestroyed", "writeComplete",
                   "highWaterMark"}
States == {"none", "kConnecting", "kConnected", "kDisconnecting",
           "kDisconnected"}

(* The asserts on this path, and the use of a server that is gone. *)
Asserts == {"handleClose: state_", "connectEstablished: state_",
            "removeConnectionInLoop: n", "removeConnection: no server",
            "Channel::remove: isNoneEvent", "removeChannel: activeChannels_"}

TypeOK ==
  /\ use \in Uses
  /\ ChannelTypeOK
  /\ state_ \in States
  /\ reading_ \in BOOLEAN
  /\ outputBuffer_ \in Seq(1 .. MaxSends)
  /\ wire \in Seq(1 .. MaxSends)
  /\ unread \in 0 .. SndBuf
  /\ fin \in BOOLEAN /\ inbound \in BOOLEAN /\ sockErr \in BOOLEAN
  /\ peer \in {"open", "fin", "reset"}
  /\ turn \in {"poll", "handle", "run"}
  /\ active \in BOOLEAN
  /\ revents \subseteq {"HUP", "ERR", "IN", "OUT"}
  /\ batch \in 0 .. Len(ioQueue)
  /\ ioQueue \in Seq([op : Ops, msg : 0 .. MaxSends])
  /\ baseQueue \in Seq({"removeConnection"})
  /\ connections_ \in BOOLEAN /\ server \in BOOLEAN /\ delayed \in BOOLEAN
  /\ caller \in [op : Calls \cup {"none"}, stage : {"none", "set", "queue"},
                 msg : 0 .. MaxSends]
  /\ sent \in 0 .. MaxSends
  /\ accepted \in Seq(1 .. MaxSends)
  /\ owed \in BOOLEAN
  /\ ups \in Nat /\ downs \in Nat
  /\ destroyed \in BOOLEAN
  /\ aborted \in {"no"} \cup Asserts

Init ==
  /\ use \in Uses
  /\ ChannelInit
  /\ state_ = "none" /\ reading_ = TRUE
  /\ outputBuffer_ = <<>> /\ wire = <<>> /\ unread = 0
  /\ fin = FALSE /\ peer = "open" /\ inbound = FALSE /\ sockErr = FALSE
  /\ turn = "poll" /\ active = FALSE /\ revents = {} /\ batch = 0
  /\ ioQueue = <<>> /\ baseQueue = <<>>
  /\ connections_ = FALSE /\ server = TRUE
  /\ delayed = FALSE
  /\ caller = Idle
  /\ sent = 0 /\ accepted = <<>> /\ owed = FALSE
  /\ ups = 0 /\ downs = 0 /\ destroyed = FALSE
  /\ aborted = "no"

(* A failed assert ends the program. *)
Running == aborted = "no"

(* A handler that does nothing, and one whose assert fails; q is the loop's *)
(* queue by then.                                                          *)
Skip(q) == ioQueue' = q /\ UNCHANGED <<connVars, aborted>>
Fail(why, q) == aborted' = why /\ ioQueue' = q /\ UNCHANGED connVars

-----------------------------------------------------------------------------
(* The socket (external).                                                  *)

Writable == ~fin /\ peer # "reset"

(* How many bytes write() may take of n; 0 is EWOULDBLOCK. *)
Written(n) ==
  IF unread = SndBuf THEN {0} ELSE 1 .. Min({n, SndBuf - unread})

Ready ==
  (IF inbound \/ peer # "open" THEN {"IN"} ELSE {}) \cup
  (IF ~Writable \/ unread < SndBuf THEN {"OUT"} ELSE {}) \cup
  (IF peer = "reset" \/ (peer = "fin" /\ fin) THEN {"HUP"} ELSE {}) \cup
  (IF sockErr THEN {"ERR"} ELSE {})

PeerSends ==
  /\ Running /\ state_ # "none"
  /\ peer = "open" /\ ~inbound
  /\ inbound' = TRUE
  /\ UNCHANGED <<connVars, peer, sockErr, loopVars, ioQueue, userVars, aborted>>

PeerReads ==
  /\ Running
  /\ unread > 0 /\ peer # "reset"
  /\ unread' = unread - 1
  /\ UNCHANGED <<channelVars, state_, reading_, wire, fin, dataVars, serverVars,
                 logVars, peer, inbound, sockErr, loopVars, ioQueue, userVars,
                 aborted>>

PeerCloses ==
  /\ Running /\ state_ # "none"
  /\ \/ peer = "open" /\ peer' = "fin" /\ UNCHANGED <<inbound, sockErr>>
     \/ peer # "reset" /\ peer' = "reset" /\ sockErr' = TRUE /\ inbound' = FALSE
  /\ UNCHANGED <<connVars, loopVars, ioQueue, userVars, aborted>>

-----------------------------------------------------------------------------
(* What runs on the connection's loop.                                     *)

(* Faulty variant: the test of the callback is inverted. *)
NotifyInverted(cb) == IF cb \notin Callbacks THEN <<Functor(cb)>> ELSE <<>>

(* queueInLoop of a callback, if it is set. *)
Notify(cb) == IF cb \in Callbacks THEN <<Functor(cb)>> ELSE <<>>

(* Faulty variant: a direct write whatever is waiting. *)
DirectAlways == TRUE

(* if no thing in output queue, try writing directly *)
Direct == ~isWriting /\ outputBuffer_ = <<>>

CrossesMark(oldLen, newLen) == newLen >= highWaterMark_ /\ oldLen < highWaterMark_

sendInLoop(m, q) ==
  \/ /\ state_ = "kDisconnected" \/ (Direct /\ ~Writable)
     /\ Skip(q)
  \/ /\ state_ # "kDisconnected"
     /\ Direct => Writable
     /\ \E n \in IF Direct THEN Written(MsgLen) ELSE {0} :
          LET rest   == SubSeq(Msg(m), n + 1, MsgLen)
              oldLen == Len(outputBuffer_)
          IN  /\ wire' = wire \o SubSeq(Msg(m), 1, n)
              /\ unread' = unread + n
              /\ outputBuffer_' = outputBuffer_ \o rest
              /\ ioQueue' = q \o (IF rest = <<>> THEN Notify("writeComplete")
                                  ELSE IF CrossesMark(oldLen, oldLen + Len(rest))
                                  THEN Notify("highWaterMark") ELSE <<>>)
              /\ IF rest = <<>> \/ isWriting THEN UNCHANGED channelVars
                                             ELSE enableWriting
     /\ accepted' = accepted \o Msg(m)
     /\ owed' = TRUE
     /\ UNCHANGED <<state_, reading_, fin, serverVars, logVars, aborted>>

(* Faulty variant: the test of isWriting is inverted. *)
shutdownIfWriting(q) ==
  /\ fin' = (fin \/ isWriting)
  /\ ioQueue' = q
  /\ UNCHANGED <<channelVars, reading_, wire, unread, dataVars, serverVars,
                 logVars, aborted>>

(* shutdownInLoop, but for state_, which its callers set or leave. *)
shutdownInLoop(q) ==
  /\ fin' = (fin \/ ~isWriting)
  /\ ioQueue' = q
  /\ UNCHANGED <<channelVars, reading_, wire, unread, dataVars, serverVars,
                 logVars, aborted>>

(* TcpServer::removeConnection, and, when it runs on the spot,             *)
(* removeConnectionInLoop; the server is reached through a plain pointer.  *)
removeConnection(q) ==
  IF SameLoop
  THEN /\ connections_' = FALSE
       /\ ioQueue' = Append(q, Functor("connectDestroyed"))
       /\ UNCHANGED <<baseQueue, server>>
  ELSE /\ baseQueue' = Append(baseQueue, "removeConnection")
       /\ ioQueue' = q
       /\ UNCHANGED <<connections_, server>>

(* The calls connectionCallback_ makes here find the connection down; they *)
(* are those of LoopCalls.  All but one leave closeCallback_ what it       *)
(* needs: not the destruction of the server.                               *)
handleClose(q) ==
  \/ /\ state_ \notin {"kConnected", "kDisconnecting"}
     /\ Fail("handleClose: state_", q)
  \/ /\ state_ \in {"kConnected", "kDisconnecting"}
     /\ use.serverDies = "any" /\ SameLoop
     /\ Fail("removeConnection: no server", q)
  \/ /\ state_ \in {"kConnected", "kDisconnecting"}
     /\ IF ~server THEN Fail("removeConnection: no server", q)
        ELSE IF SameLoop /\ ~connections_ THEN Fail("removeConnectionInLoop: n", q)
        ELSE /\ state_' = "kDisconnected"
             /\ disableAll
             /\ downs' = downs + 1
             /\ removeConnection(q)
             /\ UNCHANGED <<reading_, wire, unread, fin, dataVars, ups,
                            destroyed, aborted>>

(* Faulty variant: state_ is not tested again on the loop. *)
forceCloseUntested(q) == handleClose(q)

forceCloseInLoop(q) ==
  \/ state_ \in {"kConnected", "kDisconnecting"} /\ handleClose(q)
  \/ state_ \notin {"kConnected", "kDisconnecting"} /\ Skip(q)

startReadInLoop(q) ==
  \/ /\ ~reading_ \/ ~isReading
     /\ enableReading
     /\ reading_' = TRUE
     /\ ioQueue' = q
     /\ UNCHANGED <<state_, wire, unread, fin, dataVars, serverVars, logVars,
                    aborted>>
  \/ reading_ /\ isReading /\ Skip(q)

stopReadInLoop(q) ==
  \/ /\ reading_ \/ isReading
     /\ disableReading
     /\ reading_' = FALSE
     /\ ioQueue' = q
     /\ UNCHANGED <<state_, wire, unread, fin, dataVars, serverVars, logVars,
                    aborted>>
  \/ ~reading_ /\ ~isReading /\ Skip(q)

connectEstablished(q) ==
  \/ /\ state_ # "kConnecting"
     /\ Fail("connectEstablished: state_", q)
  \/ /\ state_ = "kConnecting"
     /\ state_' = "kConnected"
     /\ enableReading
     /\ ups' = ups + 1
     /\ ioQueue' = q
     /\ UNCHANGED <<reading_, wire, unread, fin, dataVars, serverVars, downs,
                    destroyed, aborted>>

(* Faulty variant: the down callback is called whatever state_ is. *)
connectDestroyedAlwaysDown(q) ==
  /\ ioQueue' = q
  /\ UNCHANGED <<reading_, wire, unread, fin, dataVars, ups, aborted>>
  /\ remove({})
  /\ state_' = "kDisconnected"
  /\ downs' = downs + 1
  /\ destroyed' = TRUE

(* connectDestroyed; the server's part of the state is its callers'. *)
connectDestroyed(q) ==
  LET up == state_ = "kConnected"
      e  == IF up THEN {} ELSE events_
  IN  /\ ioQueue' = q
      /\ UNCHANGED <<reading_, wire, unread, fin, dataVars, ups>>
      /\ IF removable(e)
         THEN /\ remove(e)
              /\ state_' = IF up THEN "kDisconnected" ELSE state_
              /\ downs' = IF up THEN downs + 1 ELSE downs
              /\ destroyed' = TRUE
              /\ UNCHANGED aborted
         ELSE /\ aborted' = "Channel::remove: isNoneEvent"
              /\ UNCHANGED <<channelVars, state_, downs, destroyed>>

-----------------------------------------------------------------------------
(* Channel::handleEvent, in the order of handleEventWithGuard.             *)

(* poll returns, for this channel or for something else. *)
PollReturns ==
  /\ Running /\ turn = "poll"
  /\ turn' = "handle"
  /\ revents' = Reported(Ready)
  /\ active' = (Reported(Ready) # {})
  /\ UNCHANGED <<connVars, peer, inbound, sockErr, batch, ioQueue, userVars,
                 aborted>>

HandleHup ==
  /\ Running
  /\ "HUP" \in revents
  /\ revents' = revents \ {"HUP"}
  /\ IF "IN" \in revents THEN Skip(ioQueue) ELSE handleClose(ioQueue)
  /\ UNCHANGED <<peer, inbound, sockErr, turn, active, batch, userVars>>

(* handleError reads SO_ERROR, which clears it. *)
handleError ==
  /\ Running
  /\ "ERR" \in revents /\ "HUP" \notin revents
  /\ revents' = revents \ {"ERR"}
  /\ sockErr' = FALSE
  /\ Skip(ioQueue)
  /\ UNCHANGED <<peer, inbound, turn, active, batch, userVars>>

(* ~TcpServer, on the server's loop; a connection on the same loop is      *)
(* destroyed on the spot.                                                  *)
dtorTcpServer ==
  /\ use.serverDies # "never" /\ server
  /\ server' = FALSE
  /\ connections_' = FALSE
  /\ UNCHANGED baseQueue
  /\ IF connections_ /\ SameLoop
     THEN connectDestroyed(ioQueue)
     ELSE /\ ioQueue' = IF connections_
                        THEN Append(ioQueue, Functor("connectDestroyed"))
                        ELSE ioQueue
          /\ UNCHANGED <<channelVars, state_, reading_, wire, unread, fin,
                         dataVars, logVars, aborted>>

(* readFd returns the bytes that are there, for a message callback that    *)
(* may destroy the server, an error (ECONNRESET, or EAGAIN), which         *)
(* handleError logs and clears, or 0.                                      *)
handleRead ==
  /\ Running
  /\ "IN" \in revents /\ revents \cap {"HUP", "ERR"} = {}
  /\ revents' = revents \ {"IN"}
  /\ \/ /\ inbound \/ sockErr \/ peer = "open"
        /\ inbound' = FALSE
        /\ sockErr' = (inbound /\ sockErr)
        /\ Skip(ioQueue) \/ (inbound /\ SameLoop /\ dtorTcpServer)
     \/ /\ ~inbound /\ ~sockErr /\ peer # "open"
        /\ handleClose(ioQueue)
        /\ UNCHANGED <<inbound, sockErr>>
  /\ UNCHANGED <<peer, turn, active, batch, userVars>>

handleWrite ==
  /\ Running
  /\ revents = {"OUT"}
  /\ revents' = {}
  /\ \/ /\ isWriting /\ Writable /\ unread < SndBuf
        /\ \E n \in Written(Len(outputBuffer_)) :
             LET rest == SubSeq(outputBuffer_, n + 1, Len(outputBuffer_))
             IN  /\ wire' = wire \o SubSeq(outputBuffer_, 1, n)
                 /\ unread' = unread + n
                 /\ outputBuffer_' = rest
                 /\ IF rest = <<>>
                    THEN /\ disableWriting
                         /\ ioQueue' = ioQueue \o Notify("writeComplete")
                         /\ fin' = (fin \/ state_ = "kDisconnecting")
                    ELSE UNCHANGED <<channelVars, ioQueue, fin>>
        /\ UNCHANGED <<state_, reading_, accepted, owed, serverVars, logVars,
                       aborted>>
     \/ /\ ~(isWriting /\ Writable /\ unread < SndBuf)
        /\ Skip(ioQueue)
  /\ UNCHANGED <<peer, inbound, sockErr, turn, active, batch, userVars>>

(* The handlers are done: doPendingFunctors takes what is queued by now. *)
SwapFunctors ==
  /\ Running /\ turn = "handle" /\ revents = {}
  /\ turn' = "run"
  /\ active' = FALSE
  /\ batch' = Len(ioQueue)
  /\ UNCHANGED <<connVars, peer, inbound, sockErr, revents, ioQueue, userVars,
                 aborted>>

EndFunctors ==
  /\ Running /\ turn = "run" /\ batch = 0
  /\ turn' = "poll"
  /\ UNCHANGED <<connVars, peer, inbound, sockErr, active, revents, batch,
                 ioQueue, userVars, aborted>>

(* One functor of the batch. *)
RunFunctor ==
  /\ Running /\ turn = "run" /\ batch > 0
  /\ batch' = batch - 1
  /\ LET f == Head(ioQueue)
         q == Tail(ioQueue)
     IN  \/ f.op = "connectEstablished" /\ connectEstablished(q)
         \/ f.op = "connectDestroyed" /\ connectDestroyed(q) /\ UNCHANGED serverVars
         \/ f.op = "send" /\ sendInLoop(f.msg, q)
         \/ f.op = "shutdown" /\ shutdownInLoop(q) /\ UNCHANGED state_
         \/ f.op = "forceClose" /\ forceCloseInLoop(q)
         \/ f.op = "startRead" /\ startReadInLoop(q)
         \/ f.op = "stopRead" /\ stopReadInLoop(q)
         \/ f.op = "highWaterMark" /\ Skip(q)
         \/ /\ f.op = "writeComplete"
            /\ owed' = FALSE
            /\ ioQueue' = q
            /\ UNCHANGED <<channelVars, state_, reading_, wire, unread, fin,
                           outputBuffer_, accepted, serverVars, logVars, aborted>>
  /\ UNCHANGED <<peer, inbound, sockErr, turn, active, revents, userVars>>

-----------------------------------------------------------------------------
(* The server.                                                             *)

newConnection ==
  /\ Running /\ server /\ state_ = "none"
  /\ SameLoop => turn = "handle"
  /\ connections_' = TRUE
  /\ IF SameLoop
     THEN /\ state_' = "kConnected"
          /\ enableReading
          /\ ups' = ups + 1
          /\ UNCHANGED ioQueue
     ELSE /\ state_' = "kConnecting"
          /\ ioQueue' = Append(ioQueue, Functor("connectEstablished"))
          /\ UNCHANGED <<channelVars, ups>>
  /\ UNCHANGED <<reading_, wire, unread, fin, dataVars, baseQueue, server, downs,
                 destroyed, peer, inbound, sockErr, loopVars, userVars, aborted>>

(* Faulty variant: the connection leaves the map and nothing else. *)
removeFromMapOnly ==
  /\ Running
  /\ baseQueue # <<>>
  /\ baseQueue' = Tail(baseQueue)
  /\ connections_' = FALSE
  /\ UNCHANGED <<channelVars, state_, reading_, wire, unread, fin, dataVars,
                 server, logVars, aborted, ioQueue, peer, inbound, sockErr,
                 loopVars, userVars>>

removeConnectionInLoop ==
  /\ Running
  /\ baseQueue # <<>>
  /\ IF server /\ connections_
     THEN /\ baseQueue' = Tail(baseQueue)
          /\ connections_' = FALSE
          /\ ioQueue' = Append(ioQueue, Functor("connectDestroyed"))
          /\ UNCHANGED <<channelVars, state_, reading_, wire, unread, fin,
                         dataVars, server, logVars, aborted>>
     ELSE Fail(IF server THEN "removeConnectionInLoop: n"
                         ELSE "removeConnection: no server", ioQueue)
  /\ UNCHANGED <<peer, inbound, sockErr, loopVars, userVars>>

(* ~TcpServer called from a functor of the server's loop, or from the      *)
(* handler of another channel of it, which may come before this one's:     *)
(* EventLoop::removeChannel asserts that no channel whose events are still *)
(* being handled is removed.                                               *)
destroyServer ==
  LET removesActive == /\ SameLoop /\ active /\ connections_
                       /\ state_ = "kConnected" \/ isNoneEvent
  IN  /\ Running
      /\ SameLoop => turn = "run" \/ (turn = "handle" /\ use.serverDies = "any")
      /\ \/ ~removesActive /\ dtorTcpServer
         \/ removesActive /\ server /\ Fail("removeChannel: activeChannels_", ioQueue)
      /\ UNCHANGED <<peer, inbound, sockErr, loopVars, userVars>>

-----------------------------------------------------------------------------
(* Calls made on the loop's thread, by the callbacks of this connection or *)
(* of another one, once connectionCallback_ has made it known.             *)

isOpen == state_ \in {"kConnected", "kDisconnecting"}

Here(op) == Running /\ turn # "poll" /\ ups > 0 /\ op \in use.inside

sendHere ==
  /\ Here("send") /\ sent < MaxSends
  /\ sent' = sent + 1
  /\ IF state_ = "kConnected" THEN sendInLoop(sent + 1, ioQueue)
                              ELSE Skip(ioQueue)
  /\ UNCHANGED <<peer, inbound, sockErr, loopVars, delayed, caller>>

shutdownHere ==
  /\ Here("shutdown") /\ state_ = "kConnected"
  /\ state_' = "kDisconnecting"
  /\ shutdownInLoop(ioQueue)
  /\ UNCHANGED <<peer, inbound, sockErr, loopVars, userVars>>

(* forceClose: always through the queue. *)
forceClose ==
  /\ isOpen
  /\ state_' = "kDisconnecting"
  /\ ioQueue' = Append(ioQueue, Functor("forceClose"))
  /\ UNCHANGED <<channelVars, reading_, wire, unread, fin, dataVars,
                 serverVars, logVars, aborted>>

forceCloseHere ==
  /\ Here("forceClose") /\ Len(ioQueue) < MaxQueue
  /\ forceClose
  /\ UNCHANGED <<peer, inbound, sockErr, loopVars, userVars>>

forceCloseWithDelayHere ==
  /\ Here("forceCloseWithDelay") /\ isOpen /\ ~delayed
  /\ Len(ioQueue) < MaxQueue
  /\ state_' = "kDisconnecting"
  /\ delayed' = TRUE
  /\ UNCHANGED <<channelVars, reading_, wire, unread, fin, dataVars, serverVars,
                 logVars, peer, inbound, sockErr, loopVars, ioQueue, caller,
                 sent, aborted>>

(* The timer of forceCloseWithDelay calls forceClose. *)
DelayIsOver ==
  /\ Running /\ turn = "handle" /\ delayed
  /\ delayed' = FALSE
  /\ forceClose \/ (~isOpen /\ Skip(ioQueue))
  /\ UNCHANGED <<peer, inbound, sockErr, loopVars, caller, sent>>

startReadHere ==
  /\ Here("startRead") /\ (isOpen \/ use.late)
  /\ startReadInLoop(ioQueue)
  /\ UNCHANGED <<peer, inbound, sockErr, loopVars, userVars>>

stopReadHere ==
  /\ Here("stopRead") /\ (isOpen \/ use.late)
  /\ stopReadInLoop(ioQueue)
  /\ UNCHANGED <<peer, inbound, sockErr, loopVars, userVars>>

-----------------------------------------------------------------------------
(* Calls made by the other thread: the test of state_, the assignment to   *)
(* it, the functor.                                                        *)

MayCall(op) ==
  CASE op \in {"send", "shutdown"} -> state_ = "kConnected"
    [] op \in {"forceClose", "forceCloseWithDelay"} -> isOpen
    [] OTHER -> TRUE

CallTests(op) ==
  /\ Running /\ ups > 0 /\ caller = Idle
  /\ Len(ioQueue) < MaxQueue
  /\ op = "send" => sent < MaxSends
  /\ MayCall(op)
  /\ sent' = IF op = "send" THEN sent + 1 ELSE sent
  /\ caller' = [op    |-> op,
                stage |-> IF op \in {"send", "startRead", "stopRead"}
                          THEN "queue" ELSE "set",
                msg   |-> IF op = "send" THEN sent + 1 ELSE 0]
  /\ UNCHANGED <<connVars, peer, inbound, sockErr, loopVars, ioQueue, delayed,
                 aborted>>

CallSetsState ==
  /\ Running /\ caller.stage = "set"
  /\ state_' = "kDisconnecting"
  /\ caller' = [caller EXCEPT !.stage = "queue"]
  /\ UNCHANGED <<channelVars, reading_, wire, unread, fin, dataVars, serverVars,
                 logVars, peer, inbound, sockErr, loopVars, ioQueue, delayed,
                 sent, aborted>>

CallQueues ==
  /\ Running /\ caller.stage = "queue"
  /\ caller' = Idle
  /\ IF caller.op = "forceCloseWithDelay"
     THEN delayed' = TRUE /\ UNCHANGED ioQueue
     ELSE /\ ioQueue' = Append(ioQueue, [op |-> caller.op, msg |-> caller.msg])
          /\ UNCHANGED delayed
  /\ UNCHANGED <<connVars, peer, inbound, sockErr, loopVars, sent, aborted>>

-----------------------------------------------------------------------------
LoopStep ==
  \/ PollReturns \/ HandleHup \/ handleError \/ handleRead \/ handleWrite
  \/ SwapFunctors \/ RunFunctor \/ EndFunctors

LoopCalls ==
  \/ sendHere \/ shutdownHere \/ forceCloseHere \/ forceCloseWithDelayHere
  \/ DelayIsOver \/ startReadHere \/ stopReadHere

OtherCalls == (\E op \in use.outside : CallTests(op)) \/ CallSetsState \/ CallQueues

Next ==
  /\ \/ newConnection \/ removeConnectionInLoop \/ destroyServer
     \/ LoopStep \/ LoopCalls \/ OtherCalls
     \/ PeerSends \/ PeerReads \/ PeerCloses
  /\ UNCHANGED use

Spec == Init /\ [][Next]_vars

(* Both loops keep turning, the timer fires when the loop handles events,  *)
(* the other thread finishes its call and the peer goes on reading.        *)
FairSpec ==
  /\ Spec
  /\ WF_stateVars(LoopStep)
  /\ WF_stateVars(removeConnectionInLoop)
  /\ SF_stateVars(DelayIsOver) /\ WF_stateVars(CallSetsState \/ CallQueues)
  /\ WF_stateVars(PeerReads)

-----------------------------------------------------------------------------
(* The peer gets what sendInLoop took, in that order, nothing twice and    *)
(* nothing skipped, however direct writes, partial writes and the output   *)
(* buffer take turns.                                                      *)
WireInOrder == wire \o outputBuffer_ = accepted

(* While the connection is open its channel asks for POLLOUT exactly when  *)
(* there is something left to write: no data waits for an event that is    *)
(* not asked for, and the loop does not spin on a writable socket.  And    *)
(* the FIN goes out behind the data: nothing is left once it is sent       *)
(* (sendInLoop, handleWrite, shutdownInLoop).                              *)
WritingIffPending ==
  isOpen => /\ isWriting <=> outputBuffer_ # <<>>
            /\ fin => outputBuffer_ = <<>>

(* One up, then one down, and down is final.                               *)
UpThenDown ==
  /\ ups <= 1 /\ downs <= ups
  /\ downs = 1 <=> ups = 1 /\ state_ = "kDisconnected"

(* No assert of TcpConnection, TcpServer, Channel or EPollPoller on this   *)
(* path fails, the server is not used after its destruction, and what the  *)
(* destructors of TcpConnection and Channel assert holds for good once     *)
(* connectDestroyed has run: kDisconnected, and unknown to the poller.     *)
NoAssertFails ==
  /\ aborted = "no"
  /\ destroyed => state_ = "kDisconnected" /\ isNoneEvent /\ index_ = "kNew"

(* When everything that was sent has been written, the writeComplete       *)
(* callback has run or is queued; senders wait for it to send more.        *)
CompletionIsNotified ==
  ("writeComplete" \in Callbacks /\ owed /\ outputBuffer_ = <<>>)
    => \E i \in DOMAIN ioQueue : ioQueue[i].op = "writeComplete"

(* The asserts that the disciplined uses keep and the others do not, one   *)
(* by one.  Channel::remove finds no events left: handleClose or           *)
(* connectDestroyed have disabled them.                                    *)
RemovedUnwatched == aborted # "Channel::remove: isNoneEvent"

(* handleClose runs while the connection is open, and so once: nothing is  *)
(* reported of its channel after disableAll.                               *)
ClosedWhileOpen == aborted # "handleClose: state_"

(* removeConnectionInLoop finds the connection in the server's map: it is  *)
(* called once.                                                            *)
ErasedOnce == aborted # "removeConnectionInLoop: n"

(* EventLoop::removeChannel is not called for a channel whose events are   *)
(* still to be handled in this iteration.                                  *)
RemovedInactive == aborted # "removeChannel: activeChannels_"

(* shutdown() gets the FIN sent, unless the connection is closed first.    *)
ShutdownCompletes ==
  state_ = "kDisconnecting" ~> fin \/ state_ = "kDisconnected"

(* A connection that is down is taken out of the server's map and of the   *)
(* poller.                                                                 *)
DownIsDestroyed == downs = 1 ~> destroyed

=============================================================================

------------------------ MODULE TcpConnectionProofs ------------------------
(***************************************************************************)
(* Theorems about TcpConnection, for any disciplined use of it, any number *)
(* and length of messages, any socket buffer, high-water mark and set of   *)
(* callbacks: the bytes reach the wire in order, POLLOUT is asked for when *)
(* there is something to write, the FIN follows the data, the connection   *)
(* goes up once and down once, no assert fails, and writeComplete is not   *)
(* forgotten.                                                              *)
(***************************************************************************)
EXTENDS TcpConnection, SequenceTheorems, TLAPS

(* What a disciplined use puts into the loop's queue. *)
LoopOps == {"connectEstablished", "connectDestroyed", "send", "forceClose",
            "writeComplete", "highWaterMark"}
Queueable == {f \in [op : LoopOps, msg : 0 .. MaxSends] :
                f.op = "send" => f.msg # 0}

(* Messages, and the bytes they are made of. *)
Bytes == 1 .. MaxSends

(* op is queued in q; at most once; among the first b. *)
HasOp(q, op) == \E i \in DOMAIN q : q[i].op = op
Once(q, op) ==
  \A i, j \in DOMAIN q : q[i].op = op /\ q[j].op = op => i = j
Within(q, op, b) == \E i \in DOMAIN q : i <= b /\ q[i].op = op

Forcing == {"forceClose", "forceCloseWithDelay"}

(* Handlers run with the functor in hand already taken off the queue, so   *)
(* the invariant is stated of a queue q and of the number b of functors in *)
(* it that belong to this iteration of the loop.                           *)
QueueInv(q, b) ==
  /\ q \in Seq(Queueable)
  /\ b \in 0 .. Len(q)
  /\ Once(q, "connectEstablished")
  /\ Once(q, "connectDestroyed")
  /\ HasOp(q, "forceClose") => use.inside \cap Forcing # {}
  /\ HasOp(q, "send") => ups = 1
  /\ HasOp(q, "connectEstablished") => state_ = "kConnecting"

ConnType ==
  /\ use \in Uses
  /\ ChannelTypeOK
  /\ state_ \in States
  /\ reading_ \in BOOLEAN /\ fin \in BOOLEAN /\ owed \in BOOLEAN
  /\ turn \in {"poll", "handle", "run"}
  /\ active \in BOOLEAN
  /\ revents \subseteq {"HUP", "ERR", "IN", "OUT"}
  /\ connections_ \in BOOLEAN /\ server \in BOOLEAN /\ destroyed \in BOOLEAN
  /\ aborted = "no"

DataInv ==
  /\ outputBuffer_ \in Seq(Bytes)
  /\ wire \in Seq(Bytes)
  /\ accepted \in Seq(Bytes)
  /\ unread \in 0 .. SndBuf
  /\ WireInOrder

(* Before connectEstablished nothing is written, sent or watched. *)
Fresh(q) ==
  state_ \in {"none", "kConnecting"} =>
    /\ ups = 0 /\ downs = 0 /\ ~destroyed
    /\ events_ = {} /\ index_ = "kNew"
    /\ outputBuffer_ = <<>> /\ ~fin
    /\ baseQueue = <<>> /\ ~HasOp(q, "connectDestroyed")
    /\ connections_ <=> state_ = "kConnecting"
    /\ state_ = "kConnecting" => ~SameLoop

(* While it is open the server has the connection, and the poller has its  *)
(* channel; nobody has asked for its removal.                              *)
Open(q) ==
  isOpen =>
    /\ ups = 1 /\ downs = 0 /\ ~destroyed
    /\ index_ # "kNew"
    /\ "stopRead" \notin use.inside => isReading /\ index_ = "kAdded"
    /\ baseQueue = <<>> /\ ~HasOp(q, "connectDestroyed")
    /\ server /\ connections_
    /\ state_ = "kDisconnecting" =>
         use.inside \cap {"shutdown", "forceClose", "forceCloseWithDelay"} # {}

(* Once it is down, one thing is left to be done: removeConnectionInLoop on *)
(* the server's loop, connectDestroyed on its own, or nothing.             *)
Down(q) ==
  state_ = "kDisconnected" =>
    /\ ups = 1 /\ downs = 1 /\ events_ = {}
    /\ \/ /\ baseQueue = <<"removeConnection">> /\ server /\ connections_
          /\ ~SameLoop /\ ~HasOp(q, "connectDestroyed")
          /\ ~destroyed /\ index_ # "kNew"
       \/ /\ baseQueue = <<>> /\ ~connections_
          /\ HasOp(q, "connectDestroyed")
          /\ ~destroyed /\ index_ # "kNew"
       \/ /\ baseQueue = <<>> /\ ~connections_
          /\ ~HasOp(q, "connectDestroyed")
          /\ destroyed /\ index_ = "kNew"

ServerInv == ~server => use.serverDies # "never" /\ ~connections_

(* The poller reports nothing of a connection that is down: disableAll has *)
(* taken its channel out of the epoll set, or, when that put it back (it   *)
(* was out since stopRead), connectDestroyed runs before the next poll.    *)
PollInv(q, b) ==
  /\ revents # {} \/ active => turn = "handle"
  /\ revents \cap {"HUP", "IN"} # {} => isOpen
  /\ state_ = "kDisconnected" /\ index_ = "kAdded" =>
       /\ "stopRead" \in use.inside
       /\ \/ turn = "handle"
          \/ turn = "run" /\ Within(q, "connectDestroyed", b)

(* CompletionIsNotified, of the queue q. *)
DoneInv(q) ==
  "writeComplete" \in Callbacks /\ owed /\ outputBuffer_ = <<>>
    => HasOp(q, "writeComplete")

Good(q, b) ==
  /\ ConnType /\ QueueInv(q, b) /\ DataInv /\ WritingIffPending
  /\ Fresh(q) /\ Open(q) /\ Down(q) /\ ServerInv
  /\ PollInv(q, b) /\ DoneInv(q)

(* The peer, the other thread and the timer of forceCloseWithDelay. *)
EnvInv ==
  /\ inbound \in BOOLEAN /\ sockErr \in BOOLEAN
  /\ peer \in {"open", "fin", "reset"}
  /\ sent \in 0 .. MaxSends
  /\ delayed \in BOOLEAN
  /\ delayed => use.inside \cap Forcing # {}
  /\ \/ caller = Idle
     \/ /\ ups = 1
        /\ \E m \in Bytes :
             caller = [op |-> "send", stage |-> "queue", msg |-> m]

IInv == Good(ioQueue, batch) /\ EnvInv

-----------------------------------------------------------------------------
(* What holds of queues.                                                   *)

(* A functor is added at the end. *)
LEMMA HasOpAppend ==
  ASSUME NEW q \in Seq(Queueable), NEW f \in Queueable, NEW op
  PROVE  /\ Append(q, f) \in Seq(Queueable)
         /\ HasOp(Append(q, f), op) <=> HasOp(q, op) \/ f.op = op
<1>1. /\ Append(q, f) \in Seq(Queueable)
      /\ Len(q) \in Nat /\ DOMAIN q = 1 .. Len(q)
      /\ DOMAIN Append(q, f) = 1 .. Len(q) + 1
      /\ \A i \in 1 .. Len(q) : Append(q, f)[i] = q[i]
      /\ Append(q, f)[Len(q) + 1] = f
  OBVIOUS
<1>2. HasOp(q, op) => HasOp(Append(q, f), op)
  BY <1>1 DEF HasOp
<1>3. f.op = op => HasOp(Append(q, f), op)
  BY <1>1 DEF HasOp
<1>4. HasOp(Append(q, f), op) => HasOp(q, op) \/ f.op = op
  BY <1>1 DEF HasOp
<1> QED BY <1>1, <1>2, <1>3, <1>4

LEMMA OnceAppend ==
  ASSUME NEW q \in Seq(Queueable), NEW f \in Queueable, NEW op,
         Once(q, op), f.op = op => ~HasOp(q, op)
  PROVE  Once(Append(q, f), op)
<1>1. /\ Len(q) \in Nat /\ DOMAIN q = 1 .. Len(q)
      /\ DOMAIN Append(q, f) = 1 .. Len(q) + 1
      /\ \A i \in 1 .. Len(q) : Append(q, f)[i] = q[i]
      /\ Append(q, f)[Len(q) + 1] = f
  OBVIOUS
<1> QED BY <1>1 DEF Once, HasOp

LEMMA WithinAppend ==
  ASSUME NEW q \in Seq(Queueable), NEW f \in Queueable, NEW op, NEW b,
         Within(q, op, b)
  PROVE  Within(Append(q, f), op, b)
BY DEF Within

(* A functor is taken off the front. *)
LEMMA TailFacts ==
  ASSUME NEW q \in Seq(Queueable), q # <<>>
  PROVE  /\ Head(q) \in Queueable
         /\ Tail(q) \in Seq(Queueable)
         /\ Len(Tail(q)) = Len(q) - 1
         /\ Len(q) \in Nat /\ Len(q) > 0
         /\ DOMAIN q = 1 .. Len(q)
         /\ DOMAIN Tail(q) = 1 .. Len(q) - 1
         /\ \A i \in 1 .. Len(q) - 1 : Tail(q)[i] = q[i + 1]
         /\ Head(q) = q[1]
OBVIOUS

LEMMA HasOpTail ==
  ASSUME NEW q \in Seq(Queueable), q # <<>>, NEW op
  PROVE  /\ HasOp(Tail(q), op) => HasOp(q, op)
         /\ HasOp(q, op) => HasOp(Tail(q), op) \/ Head(q).op = op
         /\ Head(q).op = op => HasOp(q, op)
         /\ Once(q, op) => Once(Tail(q), op)
         /\ Once(q, op) /\ Head(q).op = op => ~HasOp(Tail(q), op)
<1> USE TailFacts
<1>1. HasOp(Tail(q), op) => HasOp(q, op)
  <2>1. ASSUME NEW i \in DOMAIN Tail(q), Tail(q)[i].op = op
        PROVE  HasOp(q, op)
    <3>1. i + 1 \in DOMAIN q /\ q[i + 1].op = op
      BY <2>1
    <3> QED BY <3>1 DEF HasOp
  <2> QED BY <2>1 DEF HasOp
<1>2. HasOp(q, op) => HasOp(Tail(q), op) \/ Head(q).op = op
  <2>1. ASSUME NEW i \in DOMAIN q, q[i].op = op, Head(q).op # op
        PROVE  HasOp(Tail(q), op)
    <3>1. i - 1 \in DOMAIN Tail(q) /\ Tail(q)[i - 1].op = op
      BY <2>1
    <3> QED BY <3>1 DEF HasOp
  <2> QED BY <2>1 DEF HasOp
<1>3. Head(q).op = op => HasOp(q, op)
  BY DEF HasOp
<1>4. Once(q, op) => Once(Tail(q), op)
  <2>1. ASSUME Once(q, op), NEW i \in DOMAIN Tail(q), NEW j \in DOMAIN Tail(q),
               Tail(q)[i].op = op, Tail(q)[j].op = op
        PROVE  i = j
    <3>1. /\ i + 1 \in DOMAIN q /\ q[i + 1].op = op
          /\ j + 1 \in DOMAIN q /\ q[j + 1].op = op
      BY <2>1
    <3>2. i + 1 = j + 1
      BY <2>1, <3>1 DEF Once
    <3> QED BY <3>2
  <2> QED BY <2>1 DEF Once
<1>5. Once(q, op) /\ Head(q).op = op => ~HasOp(Tail(q), op)
  <2>1. ASSUME Once(q, op), Head(q).op = op, NEW i \in DOMAIN Tail(q),
               Tail(q)[i].op = op
        PROVE  FALSE
    <3>1. i + 1 \in DOMAIN q /\ q[i + 1].op = op /\ 1 \in DOMAIN q
      BY <2>1
    <3>2. i + 1 = 1
      BY <2>1, <3>1 DEF Once
    <3> QED BY <3>2
  <2> QED BY <2>1 DEF HasOp
<1> QED BY <1>1, <1>2, <1>3, <1>4, <1>5

LEMMA WithinTail ==
  ASSUME NEW q \in Seq(Queueable), q # <<>>, NEW op, NEW b \in Nat,
         Within(q, op, b), Head(q).op # op
  PROVE  Within(Tail(q), op, b - 1)
<1> USE TailFacts
<1>1. PICK i \in DOMAIN q : i <= b /\ q[i].op = op
  BY DEF Within
<1>2. /\ i - 1 \in DOMAIN Tail(q) /\ Tail(q)[i - 1].op = op
      /\ i - 1 <= b - 1
  BY <1>1
<1> QED BY <1>2 DEF Within

LEMMA WithinAll ==
  ASSUME NEW q \in Seq(Queueable), NEW op
  PROVE  /\ HasOp(q, op) => Within(q, op, Len(q))
         /\ ~Within(q, op, 0)
BY DEF HasOp, Within

(* The least of two numbers. *)
LEMMA MinOfTwo ==
  ASSUME NEW m \in Nat, NEW n \in Nat
  PROVE  /\ Min({m, n}) \in Nat /\ Min({m, n}) <= m /\ Min({m, n}) <= n
         /\ m > 0 /\ n > 0 => Min({m, n}) > 0
<1>1. \E x \in {m, n} : \A y \in {m, n} : x <= y
  OBVIOUS
<1>2. Min({m, n}) \in {m, n} /\ \A y \in {m, n} : Min({m, n}) <= y
  BY <1>1 DEF Min
<1> QED BY <1>2

(* A sequence cut in two, and two put together. *)
UpTo(s, n) == SubSeq(s, 1, n)
From(s, n) == SubSeq(s, n + 1, Len(s))
Cat(s, t) == s \o t

LEMMA Split ==
  ASSUME NEW S, NEW s \in Seq(S), NEW n \in 0 .. Len(s)
  PROVE  /\ UpTo(s, n) \in Seq(S) /\ From(s, n) \in Seq(S)
         /\ Cat(UpTo(s, n), From(s, n)) = s
         /\ From(s, n) = <<>> <=> n = Len(s)
         /\ n = 0 => UpTo(s, n) = <<>>
<1>1. Len(s) \in Nat
  OBVIOUS
<1>2. UpTo(s, n) \in Seq(S) /\ From(s, n) \in Seq(S)
  BY <1>1, SubSeqProperties DEF UpTo, From
<1>3. Len(From(s, n)) = Len(s) - n
  BY <1>1, SubSeqProperties DEF From
<1>4. Cat(UpTo(s, n), From(s, n)) = SubSeq(s, 1, Len(s))
  <2>1. 1 \in 1 .. Len(s) + 1 /\ n \in 1 - 1 .. Len(s) /\ Len(s) \in n .. Len(s)
    BY <1>1
  <2> QED BY <2>1, ConcatAdjacentSubSeq DEF UpTo, From, Cat
<1>5. SubSeq(s, 1, Len(s)) = s
  BY SubSeqFull
<1>6. From(s, n) = <<>> <=> Len(From(s, n)) = 0
  BY <1>2, EmptySeq
<1>7. n = 0 => UpTo(s, n) = <<>>
  BY SubSeqEmpty DEF UpTo
<1> QED BY <1>1, <1>2, <1>3, <1>4, <1>5, <1>6, <1>7

(* Putting together is associative, and neutral for nothing. *)
LEMMA CatFacts ==
  ASSUME NEW S
  PROVE  /\ \A x, y, z \in Seq(S) : Cat(Cat(x, y), z) = Cat(x, Cat(y, z))
         /\ \A x \in Seq(S) : Cat(x, <<>>) = x /\ Cat(<<>>, x) = x
         /\ \A x, y \in Seq(S) :
              Cat(x, y) \in Seq(S) /\ (Cat(x, y) = <<>> <=> x = <<>> /\ y = <<>>)
<1>1. \A x, y, z \in Seq(S) : Cat(Cat(x, y), z) = Cat(x, Cat(y, z))
  BY ConcatAssociative DEF Cat
<1>2. \A x \in Seq(S) : Cat(x, <<>>) = x /\ Cat(<<>>, x) = x
  BY ConcatEmptySeq DEF Cat
<1>3. \A x, y \in Seq(S) :
        Cat(x, y) \in Seq(S) /\ (Cat(x, y) = <<>> <=> x = <<>> /\ y = <<>>)
  BY DEF Cat
<1> QED BY <1>1, <1>2, <1>3

(* What write() may take. *)
LEMMA WrittenFits ==
  ASSUME NEW len \in Nat \ {0}, unread \in 0 .. SndBuf, NEW n \in Written(len)
  PROVE  /\ n \in 0 .. len /\ unread + n \in 0 .. SndBuf
         /\ unread # SndBuf => n # 0
<1>1. CASE unread = SndBuf
  BY <1>1, ConnectionAssumption DEF Written
<1>2. CASE unread # SndBuf
  <2>1. SndBuf \in Nat /\ SndBuf - unread \in Nat
    BY <1>2, ConnectionAssumption
  <2>2. /\ Min({len, SndBuf - unread}) \in Nat
        /\ Min({len, SndBuf - unread}) <= len
        /\ Min({len, SndBuf - unread}) <= SndBuf - unread
    BY <2>1, MinOfTwo
  <2>3. n \in 1 .. Min({len, SndBuf - unread})
    BY <1>2 DEF Written
  <2> QED BY <2>1, <2>2, <2>3
<1> QED BY <1>1, <1>2

(* A message. *)
LEMMA MsgType ==
  ASSUME NEW m \in Bytes
  PROVE  Msg(m) \in Seq(Bytes) /\ Len(Msg(m)) = MsgLen /\ MsgLen \in Nat \ {0}
BY ConnectionAssumption DEF Msg, Bytes

(* The functors the connection queues. *)
LEMMA FunctorType ==
  ASSUME NEW op \in LoopOps \ {"send"}
  PROVE  Functor(op) \in Queueable /\ Functor(op).op = op
BY ConnectionAssumption DEF Functor, Queueable

(* What a longer queue keeps of q. *)
Longer(q, r) ==
  /\ r \in Seq(Queueable) /\ Len(q) <= Len(r)
  /\ \A op \in LoopOps \ {"writeComplete", "highWaterMark"} :
       /\ HasOp(r, op) <=> HasOp(q, op)
       /\ Once(q, op) => Once(r, op)
       /\ \A b \in Nat : Within(q, op, b) => Within(r, op, b)
  /\ HasOp(q, "writeComplete") => HasOp(r, "writeComplete")

LEMMA NotifyQueue ==
  ASSUME NEW q \in Seq(Queueable), NEW cb \in {"writeComplete", "highWaterMark"}
  PROVE  /\ Longer(q, q)
         /\ Longer(q, q \o Notify(cb))
         /\ cb \in Callbacks => HasOp(q \o Notify(cb), cb)
<1>1. Longer(q, q) /\ q \o <<>> = q
  BY DEF Longer
<1>2. CASE cb \notin Callbacks
  BY <1>1, <1>2 DEF Notify
<1>3. CASE cb \in Callbacks
  <2> DEFINE f == Functor(cb)
  <2>1. f \in Queueable /\ f.op = cb
    BY FunctorType DEF LoopOps
  <2>2. q \o Notify(cb) = q \o <<f>>
    BY <1>3 DEF Notify
  <2> HIDE DEF f
  <2>3. q \o <<f>> = Append(q, f)
    BY <2>1, AppendIsConcat
  <2>4. \A op : HasOp(Append(q, f), op) <=> HasOp(q, op) \/ f.op = op
    BY <2>1, HasOpAppend
  <2>5. \A op \in LoopOps \ {"writeComplete", "highWaterMark"} :
          Once(q, op) => Once(Append(q, f), op)
    BY <2>1, OnceAppend
  <2>6. \A op, b : Within(q, op, b) => Within(Append(q, f), op, b)
    BY <2>1, WithinAppend
  <2>7. Append(q, f) \in Seq(Queueable) /\ Len(q) <= Len(Append(q, f))
    BY <2>1
  <2> QED BY <1>1, <1>3, <2>1, <2>2, <2>3, <2>4, <2>5, <2>6, <2>7 DEF Longer
<1> QED BY <1>2, <1>3

LEMMA LongerQueue ==
  ASSUME NEW q, NEW b, NEW r, QueueInv(q, b), Longer(q, r)
  PROVE  QueueInv(r, b)
<1>1. /\ q \in Seq(Queueable) /\ r \in Seq(Queueable)
      /\ Len(q) \in Nat /\ Len(r) \in Nat /\ Len(q) <= Len(r)
      /\ b \in 0 .. Len(q)
  BY DEF QueueInv, Longer
<1>2. b \in 0 .. Len(r)
  BY <1>1
<1> QED BY <1>1, <1>2 DEF QueueInv, Longer, LoopOps

-----------------------------------------------------------------------------
(* What runs on the connection's loop.                                     *)

(* What the rest of the loop does when a handler of the connection runs. *)
Frame(b) == UNCHANGED <<use, turn, active>> /\ revents' \subseteq revents /\ batch' = b

LEMMA SkipStep ==
  ASSUME NEW q, NEW b, Good(q, b), Skip(q), Frame(b)
  PROVE  Good(ioQueue, batch)'
<1> USE DEF Skip, connVars, channelVars, dataVars, serverVars, logVars, Good, Frame
<1>1. ConnType'
  BY DEF ConnType, ChannelTypeOK
<1>2. QueueInv(ioQueue, batch)'
  BY DEF QueueInv
<1>3. DataInv' /\ WritingIffPending'
  BY DEF DataInv, WireInOrder, WritingIffPending, isOpen, isWriting
<1>4. Fresh(ioQueue)'
  BY DEF Fresh, SameLoop
<1>5. Open(ioQueue)'
  BY DEF Open, isOpen, isReading
<1>6. Down(ioQueue)' /\ ServerInv'
  BY DEF Down, ServerInv, SameLoop
<1>7. PollInv(ioQueue, batch)'
  BY DEF PollInv, isOpen
<1>8. DoneInv(ioQueue)'
  BY DEF DoneInv
<1> QED BY <1>1, <1>2, <1>3, <1>4, <1>5, <1>6, <1>7, <1>8

(* A step that moves output bytes of an open connection. *)
LEMMA OutputStep ==
  ASSUME NEW q, NEW b, Good(q, b), Frame(b), isOpen, Longer(q, ioQueue'),
         UNCHANGED <<state_, reading_, serverVars, logVars, aborted>>,
         DataInv', fin' \in BOOLEAN, owed' \in BOOLEAN,
         \/ UNCHANGED channelVars \/ enableWriting \/ disableWriting,
         "write" \in events_' <=> outputBuffer_' # <<>>,
         fin' => outputBuffer_' = <<>>,
         DoneInv(ioQueue)'
  PROVE  Good(ioQueue, batch)'
<1> USE DEF Good, Frame, serverVars, logVars
<1>1. /\ events_' \subseteq {"read", "write"} /\ events_ \subseteq {"read", "write"}
      /\ "read" \in events_' <=> "read" \in events_
      /\ index_' \in {"kNew", "kAdded", "kDeleted"}
      /\ index_ # "kNew" => index_' # "kNew"
      /\ "read" \in events_ /\ index_ = "kAdded" => index_' = "kAdded"
  BY DEF ConnType, ChannelTypeOK, channelVars, enableWriting, disableWriting, update
<1>2. ConnType'
  BY <1>1 DEF ConnType, ChannelTypeOK
<1>3. QueueInv(ioQueue', b)
  BY LongerQueue
<1>4. QueueInv(ioQueue, batch)'
  BY <1>3 DEF QueueInv
<1>5. WritingIffPending'
  BY DEF WritingIffPending, isWriting
<1>6. Fresh(ioQueue)' /\ Down(ioQueue)'
  BY DEF Fresh, Down, isOpen
<1>7. Open(ioQueue)'
  <2>1. ~HasOp(ioQueue, "connectDestroyed")'
    BY DEF Open, Longer, LoopOps
  <2> QED BY <1>1, <2>1 DEF Open, isOpen, isReading
<1>8. ServerInv'
  BY DEF ServerInv
<1>9. PollInv(ioQueue, batch)'
  BY DEF PollInv, isOpen
<1> QED BY <1>2, <1>4, <1>5, <1>6, <1>7, <1>8, <1>9

(* A connection that has gone up is open or down. *)
LEMMA UpIsOpen ==
  ASSUME NEW q, NEW b, Good(q, b), ups = 1, state_ # "kDisconnected"
  PROVE  isOpen
BY DEF Good, ConnType, States, Fresh, isOpen

LEMMA SendStep ==
  ASSUME NEW q, NEW b, Good(q, b), NEW m \in Bytes, ups = 1,
         sendInLoop(m, q), Frame(b)
  PROVE  Good(ioQueue, batch)'
<1>1. CASE Skip(q)
  BY <1>1, SkipStep
<1>2. CASE ~Skip(q)
  <2> DEFINE ns == IF Direct THEN Written(MsgLen) ELSE {0}
             rest(n) == SubSeq(Msg(m), n + 1, MsgLen)
             oldLen == Len(outputBuffer_)
  <2>1. /\ state_ # "kDisconnected"
        /\ accepted' = accepted \o Msg(m) /\ owed' = TRUE
        /\ UNCHANGED <<state_, reading_, fin, serverVars, logVars, aborted>>
    BY <1>2 DEF sendInLoop
  <2>2. PICK n \in ns :
          /\ wire' = wire \o SubSeq(Msg(m), 1, n)
          /\ unread' = unread + n
          /\ outputBuffer_' = outputBuffer_ \o rest(n)
          /\ ioQueue' = q \o (IF rest(n) = <<>> THEN Notify("writeComplete")
                              ELSE IF CrossesMark(oldLen, oldLen + Len(rest(n)))
                              THEN Notify("highWaterMark") ELSE <<>>)
          /\ IF rest(n) = <<>> \/ isWriting THEN UNCHANGED channelVars
                                            ELSE enableWriting
    BY <1>2 DEF sendInLoop
  <2>3. isOpen
    BY <2>1, UpIsOpen
  <2>4. /\ outputBuffer_ \in Seq(Bytes) /\ wire \in Seq(Bytes)
        /\ unread \in 0 .. SndBuf /\ accepted = wire \o outputBuffer_
        /\ isWriting <=> outputBuffer_ # <<>>
        /\ fin => outputBuffer_ = <<>>
        /\ q \in Seq(Queueable) /\ fin \in BOOLEAN
    BY <2>3 DEF Good, DataInv, WireInOrder, WritingIffPending, QueueInv, ConnType
  <2>5. /\ Msg(m) \in Seq(Bytes) /\ Len(Msg(m)) = MsgLen
        /\ MsgLen \in Nat \ {0}
    BY MsgType
  <2>6. n \in 0 .. MsgLen /\ unread + n \in 0 .. SndBuf
    <3>1. CASE Direct
      BY <2>4, <2>5, <3>1, WrittenFits
    <3>2. CASE ~Direct
      BY <2>4, <2>5, <3>2, ConnectionAssumption
    <3> QED BY <3>1, <3>2
  <2>7. n = 0 \/ outputBuffer_ = <<>>
    BY DEF Direct
  <2> DEFINE head == UpTo(Msg(m), n)
             tail == From(Msg(m), n)
  <2>8. rest(n) = tail /\ SubSeq(Msg(m), 1, n) = head
    BY <2>5 DEF UpTo, From
  <2>9. /\ head \in Seq(Bytes) /\ tail \in Seq(Bytes)
        /\ Cat(head, tail) = Msg(m)
        /\ head = <<>> \/ outputBuffer_ = <<>>
    <3>1. n \in 0 .. Len(Msg(m))
      BY <2>5, <2>6
    <3> QED BY <2>5, <2>7, <3>1, Split
  <2>10. /\ wire' = Cat(wire, head) /\ unread' = unread + n
         /\ outputBuffer_' = Cat(outputBuffer_, tail)
         /\ ioQueue' = q \o (IF tail = <<>> THEN Notify("writeComplete")
                             ELSE IF CrossesMark(oldLen, oldLen + Len(tail))
                             THEN Notify("highWaterMark") ELSE <<>>)
         /\ IF tail = <<>> \/ isWriting THEN UNCHANGED channelVars
                                        ELSE enableWriting
    BY <2>2, <2>8 DEF Cat
  <2> HIDE DEF head, tail, ns, rest
  <2>11. Longer(q, ioQueue')
    BY <2>4, <2>10, NotifyQueue, ConcatEmptySeq
  <2>12. /\ tail = <<>> /\ "writeComplete" \in Callbacks
         => HasOp(ioQueue', "writeComplete")
    BY <2>4, <2>10, NotifyQueue
  <2>13. DataInv'
    <3>1. /\ wire' \in Seq(Bytes) /\ outputBuffer_' \in Seq(Bytes)
          /\ accepted = Cat(wire, outputBuffer_) /\ accepted \in Seq(Bytes)
          /\ accepted' = Cat(accepted, Cat(head, tail))
      BY <2>1, <2>4, <2>9, <2>10, CatFacts DEF Cat
    <3>2. accepted' \in Seq(Bytes)
      BY <2>9, <3>1, CatFacts
    <3>3. Cat(wire', outputBuffer_') = accepted'
      <4>1. CASE head = <<>>
        BY <2>4, <2>9, <2>10, <3>1, <4>1, CatFacts
      <4>2. CASE outputBuffer_ = <<>>
        BY <2>4, <2>9, <2>10, <3>1, <4>2, CatFacts
      <4> QED BY <2>9, <4>1, <4>2
    <3>4. unread' \in 0 .. SndBuf
      BY <2>6, <2>10
    <3> QED BY <3>1, <3>2, <3>3, <3>4 DEF DataInv, WireInOrder, Cat
  <2>14. outputBuffer_' = <<>> <=> outputBuffer_ = <<>> /\ tail = <<>>
    <3>1. Cat(outputBuffer_, tail) = <<>> <=> outputBuffer_ = <<>> /\ tail = <<>>
      BY <2>4, <2>9 DEF Cat
    <3> QED BY <2>10, <3>1
  <2>15. "write" \in events_' <=> outputBuffer_' # <<>>
    BY <2>4, <2>10, <2>14 DEF isWriting, channelVars, enableWriting, update
  <2>16. fin' => outputBuffer_' = <<>>
    <3>1. fin => ~Direct
      BY <1>2 DEF sendInLoop, Writable
    <3> QED BY <2>1, <2>4, <3>1 DEF Direct
  <2>17. DoneInv(ioQueue)'
    BY <2>12, <2>14 DEF DoneInv
  <2> QED
    BY <2>1, <2>3, <2>4, <2>10, <2>11, <2>13, <2>15, <2>16, <2>17, OutputStep
<1> QED BY <1>1, <1>2

LEMMA WriteStep ==
  ASSUME Good(ioQueue, batch), handleWrite, UNCHANGED use
  PROVE  Good(ioQueue, batch)'
<1>1. Frame(batch)
  BY DEF handleWrite, Frame
<1>2. CASE Skip(ioQueue)
  BY <1>1, <1>2, SkipStep
<1>3. CASE ~Skip(ioQueue)
  <2> DEFINE out == outputBuffer_
             len == Len(outputBuffer_)
             rest(n) == SubSeq(outputBuffer_, n + 1, len)
  <2>1. /\ isWriting /\ Writable /\ unread < SndBuf
        /\ UNCHANGED <<state_, reading_, accepted, owed, serverVars, logVars, aborted>>
    BY <1>3 DEF handleWrite
  <2>2. PICK n \in Written(len) :
          /\ wire' = wire \o SubSeq(outputBuffer_, 1, n)
          /\ unread' = unread + n
          /\ outputBuffer_' = rest(n)
          /\ IF rest(n) = <<>>
             THEN /\ disableWriting
                  /\ ioQueue' = ioQueue \o Notify("writeComplete")
                  /\ fin' = (fin \/ state_ = "kDisconnecting")
             ELSE UNCHANGED <<channelVars, ioQueue, fin>>
    BY <1>3 DEF handleWrite
  <2>3. isOpen
    BY <2>1 DEF Good, Fresh, Down, ConnType, States, isOpen, isWriting
  <2>4. /\ out \in Seq(Bytes) /\ wire \in Seq(Bytes) /\ accepted \in Seq(Bytes)
        /\ unread \in 0 .. SndBuf /\ accepted = wire \o out
        /\ out # <<>> /\ ~fin
        /\ ioQueue \in Seq(Queueable) /\ fin \in BOOLEAN /\ owed \in BOOLEAN
    BY <2>1, <2>3
    DEF Good, DataInv, WireInOrder, WritingIffPending, QueueInv, ConnType
  <2>5. len \in Nat \ {0}
    BY <2>4
  <2>6. n \in 0 .. len /\ unread + n \in 0 .. SndBuf
    BY <2>4, <2>5, WrittenFits
  <2> DEFINE head == UpTo(out, n)
             tail == From(out, n)
  <2>7. /\ head \in Seq(Bytes) /\ tail \in Seq(Bytes)
        /\ Cat(head, tail) = out
    BY <2>4, <2>6, Split
  <2>8. /\ wire' = Cat(wire, head) /\ unread' = unread + n
        /\ outputBuffer_' = tail
        /\ IF tail = <<>>
           THEN /\ disableWriting
                /\ ioQueue' = ioQueue \o Notify("writeComplete")
                /\ fin' = (fin \/ state_ = "kDisconnecting")
           ELSE UNCHANGED <<channelVars, ioQueue, fin>>
    BY <2>2 DEF UpTo, From, Cat
  <2> HIDE DEF head, tail, rest
  <2>9. /\ Longer(ioQueue, ioQueue')
        /\ tail = <<>> /\ "writeComplete" \in Callbacks
             => HasOp(ioQueue', "writeComplete")
    BY <2>4, <2>8, NotifyQueue
  <2>10. DataInv'
    <3>1. wire' \in Seq(Bytes) /\ outputBuffer_' \in Seq(Bytes) /\ accepted' \in Seq(Bytes)
      BY <2>1, <2>4, <2>7, <2>8, CatFacts
    <3>2. Cat(Cat(wire, head), tail) = Cat(wire, Cat(head, tail))
      BY <2>4, <2>7, CatFacts
    <3>3. Cat(wire', outputBuffer_') = accepted'
      BY <2>1, <2>4, <2>7, <2>8, <3>2 DEF Cat
    <3>4. unread' \in 0 .. SndBuf
      BY <2>6, <2>8
    <3> QED BY <3>1, <3>3, <3>4 DEF DataInv, WireInOrder, Cat
  <2>11. /\ "write" \in events_' <=> outputBuffer_' # <<>>
         /\ fin' \in BOOLEAN
         /\ fin' => outputBuffer_' = <<>>
    BY <2>1, <2>4, <2>8 DEF isWriting, disableWriting, update, channelVars
  <2>12. DoneInv(ioQueue)'
    BY <2>8, <2>9 DEF DoneInv
  <2> QED
    BY <1>1, <2>1, <2>3, <2>4, <2>8, <2>9, <2>10, <2>11, <2>12, OutputStep
<1> QED BY <1>2, <1>3

(* shutdown, forceClose and forceCloseWithDelay move an open connection to *)
(* kDisconnecting.                                                         *)
LEMMA DisconnectingStep ==
  ASSUME NEW q, NEW b, Good(q, b), Frame(b), isOpen, state_' = "kDisconnecting",
         use.inside \cap {"shutdown", "forceClose", "forceCloseWithDelay"} # {},
         \/ ioQueue' = q
         \/ /\ ioQueue' = Append(q, Functor("forceClose"))
            /\ use.inside \cap Forcing # {},
         fin' = fin \/ fin' = (fin \/ ~isWriting),
         UNCHANGED <<channelVars, reading_, wire, unread, dataVars, serverVars,
                     logVars, aborted>>
  PROVE  Good(ioQueue, batch)'
<1> USE DEF Good, Frame, channelVars, dataVars, serverVars, logVars
<1>1. q \in Seq(Queueable) /\ Len(q) \in Nat /\ b \in 0 .. Len(q)
  BY DEF QueueInv
<1>2. /\ ioQueue' \in Seq(Queueable)
      /\ \A op \in LoopOps \ {"forceClose"} :
           /\ HasOp(ioQueue', op) <=> HasOp(q, op)
           /\ Once(q, op) => Once(ioQueue', op)
      /\ HasOp(ioQueue', "forceClose") => use.inside \cap Forcing # {}
      /\ Len(q) <= Len(ioQueue')
  <2>1. CASE ioQueue' = q
    BY <1>1, <2>1 DEF QueueInv
  <2>2. CASE /\ ioQueue' = Append(q, Functor("forceClose"))
             /\ use.inside \cap Forcing # {}
    <3> DEFINE f == Functor("forceClose")
    <3>1. f \in Queueable /\ f.op = "forceClose"
      BY FunctorType DEF LoopOps
    <3>2. ioQueue' = Append(q, f)
      BY <2>2
    <3> HIDE DEF f
    <3>3. \A op : HasOp(Append(q, f), op) <=> HasOp(q, op) \/ f.op = op
      BY <1>1, <3>1, HasOpAppend
    <3>4. \A op \in LoopOps \ {"forceClose"} : Once(q, op) => Once(Append(q, f), op)
      BY <1>1, <3>1, OnceAppend
    <3>5. Append(q, f) \in Seq(Queueable) /\ Len(q) <= Len(Append(q, f))
      BY <1>1, <3>1
    <3> QED BY <2>2, <3>1, <3>2, <3>3, <3>4, <3>5
  <2> QED BY <2>1, <2>2
<1>3. ConnType'
  BY DEF ConnType, ChannelTypeOK, States
<1>4. QueueInv(ioQueue, batch)'
  <2>1. b \in 0 .. Len(ioQueue')
    BY <1>1, <1>2
  <2>2. ~HasOp(q, "connectEstablished")
    BY DEF QueueInv, isOpen
  <2> QED BY <1>2, <2>1, <2>2 DEF QueueInv, LoopOps
<1>5. DataInv' /\ WritingIffPending'
  BY DEF DataInv, WireInOrder, WritingIffPending, isOpen, isWriting, ConnType
<1>6. Open(ioQueue)'
  BY <1>2 DEF Open, isOpen, isReading, LoopOps
<1>7. Fresh(ioQueue)' /\ Down(ioQueue)' /\ ServerInv'
  BY DEF Fresh, Down, ServerInv
<1>8. PollInv(ioQueue, batch)'
  BY DEF PollInv, isOpen
<1>9. DoneInv(ioQueue)'
  BY <1>2 DEF DoneInv, LoopOps
<1> QED BY <1>3, <1>4, <1>5, <1>6, <1>7, <1>8, <1>9

(* startRead and stopRead of an open connection. *)
LEMMA ReadingStep ==
  ASSUME NEW q, NEW b, Good(q, b), Frame(b), isOpen, ioQueue' = q,
         reading_' \in BOOLEAN,
         enableReading \/ (disableReading /\ "stopRead" \in use.inside),
         UNCHANGED <<state_, wire, unread, fin, dataVars, serverVars, logVars, aborted>>
  PROVE  Good(ioQueue, batch)'
<1> USE DEF Good, Frame, dataVars, serverVars, logVars
<1>1. /\ events_' \subseteq {"read", "write"} /\ events_ \subseteq {"read", "write"}
      /\ "write" \in events_' <=> "write" \in events_
      /\ index_' \in {"kAdded", "kDeleted"}
      /\ "stopRead" \notin use.inside => "read" \in events_' /\ index_' = "kAdded"
  BY DEF ConnType, ChannelTypeOK, enableReading, disableReading, update
<1>2. ConnType'
  BY <1>1 DEF ConnType, ChannelTypeOK
<1>3. QueueInv(ioQueue, batch)'
  BY DEF QueueInv
<1>4. DataInv' /\ WritingIffPending'
  BY <1>1 DEF DataInv, WireInOrder, WritingIffPending, isOpen, isWriting
<1>5. Open(ioQueue)'
  BY <1>1 DEF Open, isOpen, isReading
<1>6. Fresh(ioQueue)' /\ Down(ioQueue)' /\ ServerInv'
  BY DEF Fresh, Down, ServerInv, isOpen
<1>7. PollInv(ioQueue, batch)'
  BY DEF PollInv, isOpen
<1>8. DoneInv(ioQueue)'
  BY DEF DoneInv
<1> QED BY <1>2, <1>3, <1>4, <1>5, <1>6, <1>7, <1>8

(* What a disciplined use promises. *)
LEMMA Discipline ==
  ASSUME AllDisciplined, use \in Uses
  PROVE  /\ use.outside \subseteq {"send"}
         /\ use.inside \subseteq Calls
         /\ ~use.late /\ SameLoop \in BOOLEAN
         /\ use.serverDies \in {"never", "own"}
         /\ use.serverDies = "own" =>
              /\ SameLoop
              /\ use.inside \cap {"shutdown", "forceClose", "forceCloseWithDelay"} = {}
         /\ "stopRead" \in use.inside => SameLoop /\ use.inside \cap Forcing = {}
<1>1. use \in Use /\ Disciplined(use)
  BY ConnectionAssumption DEF AllDisciplined
<1> QED BY <1>1 DEF Use, Disciplined, SameLoop, Forcing

LEMMA CloseStep ==
  ASSUME AllDisciplined, NEW q, NEW b, Good(q, b), Frame(b), isOpen, handleClose(q),
         revents' \cap {"HUP", "IN"} = {},
         turn = "handle" \/ "stopRead" \notin use.inside
  PROVE  Good(ioQueue, batch)'
<1> USE DEF Good, Frame
<1>1. /\ ups = 1 /\ downs = 0 /\ ~destroyed /\ index_ # "kNew"
      /\ "stopRead" \notin use.inside => isReading /\ index_ = "kAdded"
      /\ baseQueue = <<>> /\ ~HasOp(q, "connectDestroyed")
      /\ server /\ connections_
  BY DEF Open
<1>2. /\ state_' = "kDisconnected"
      /\ disableAll
      /\ downs' = downs + 1
      /\ removeConnection(q)
      /\ UNCHANGED <<reading_, wire, unread, fin, dataVars, ups, destroyed, aborted>>
  <2>1. use.serverDies # "any"
    BY Discipline DEF ConnType
  <2> QED BY <1>1, <2>1 DEF handleClose, isOpen
<1>3. /\ events_' = {} /\ index_' \in {"kAdded", "kDeleted"}
      /\ index_ = "kAdded" => index_' = "kDeleted"
  BY <1>2 DEF disableAll, update
<1>4. q \in Seq(Queueable) /\ Len(q) \in Nat /\ b \in 0 .. Len(q)
  BY DEF QueueInv
<1> DEFINE f == Functor("connectDestroyed")
<1>5. f \in Queueable /\ f.op = "connectDestroyed"
  BY FunctorType DEF LoopOps
<1>6. /\ server' = server
      /\ \/ /\ SameLoop
            /\ connections_' = FALSE /\ baseQueue' = <<>> /\ ioQueue' = Append(q, f)
         \/ /\ ~SameLoop
            /\ connections_' = connections_ /\ baseQueue' = <<"removeConnection">>
            /\ ioQueue' = q
  <2>1. Append(<<>>, "removeConnection") = <<"removeConnection">>
    OBVIOUS
  <2> HIDE DEF f
  <2>2. CASE SameLoop
    BY <1>1, <1>2, <2>2 DEF removeConnection, f
  <2>3. CASE ~SameLoop
    BY <1>1, <1>2, <2>1, <2>3 DEF removeConnection
  <2> QED BY <2>2, <2>3
<1> HIDE DEF f
<1>7. /\ ioQueue' \in Seq(Queueable) /\ Len(q) <= Len(ioQueue')
      /\ \A op \in LoopOps \ {"connectDestroyed"} :
           /\ HasOp(ioQueue', op) <=> HasOp(q, op)
           /\ Once(q, op) => Once(ioQueue', op)
      /\ Once(ioQueue', "connectDestroyed")
      /\ HasOp(ioQueue', "connectDestroyed") <=> SameLoop
  <2>1. CASE ioQueue' = q /\ ~SameLoop
    BY <1>1, <1>4, <2>1 DEF QueueInv
  <2>2. CASE ioQueue' = Append(q, f) /\ SameLoop
    <3>1. \A op : HasOp(Append(q, f), op) <=> HasOp(q, op) \/ f.op = op
      BY <1>4, <1>5, HasOpAppend
    <3>2. \A op \in LoopOps : Once(q, op) => Once(Append(q, f), op)
      BY <1>1, <1>4, <1>5, OnceAppend
    <3>3. Append(q, f) \in Seq(Queueable) /\ Len(q) <= Len(Append(q, f))
      BY <1>4, <1>5
    <3>4. Once(q, "connectDestroyed")
      BY DEF QueueInv
    <3> QED BY <1>5, <2>2, <3>1, <3>2, <3>3, <3>4 DEF LoopOps
  <2> QED BY <1>6, <2>1, <2>2
<1>8. ConnType'
  BY <1>2, <1>3, <1>6, Discipline DEF ConnType, ChannelTypeOK, States, dataVars
<1>9. QueueInv(ioQueue, batch)'
  <2>1. b \in 0 .. Len(ioQueue')
    BY <1>4, <1>7
  <2>2. ~HasOp(q, "connectEstablished")
    BY DEF QueueInv, isOpen
  <2> QED BY <1>2, <1>7, <2>1, <2>2 DEF QueueInv, LoopOps
<1>10. DataInv' /\ WritingIffPending'
  BY <1>2 DEF DataInv, WireInOrder, WritingIffPending, isOpen, dataVars
<1>11. Fresh(ioQueue)' /\ Open(ioQueue)' /\ ServerInv'
  BY <1>1, <1>2, <1>6 DEF Fresh, Open, isOpen, ServerInv
<1>12. Down(ioQueue)'
  <2>1. /\ ups' = 1 /\ downs' = 1 /\ events_' = {} /\ ~destroyed'
        /\ index_' # "kNew" /\ (SameLoop' <=> SameLoop)
    BY <1>1, <1>2, <1>3 DEF SameLoop
  <2>2. CASE SameLoop
    BY <1>6, <1>7, <2>1, <2>2 DEF Down
  <2>3. CASE ~SameLoop
    BY <1>1, <1>6, <1>7, <2>1, <2>3 DEF Down
  <2> QED BY <2>2, <2>3
<1>13. PollInv(ioQueue, batch)'
  BY <1>1, <1>2, <1>3 DEF PollInv, ConnType
<1>14. DoneInv(ioQueue)'
  BY <1>2, <1>7 DEF DoneInv, dataVars, LoopOps
<1> QED BY <1>8, <1>9, <1>10, <1>11, <1>12, <1>13, <1>14

(* connectEstablished, as a functor or on the spot in newConnection. *)
LEMMA UpStep ==
  ASSUME NEW q, NEW b, Good(q, b), Frame(b), state_ \in {"none", "kConnecting"},
         ~HasOp(q, "connectEstablished"), server, ioQueue' = q,
         state_' = "kConnected", enableReading, ups' = ups + 1, connections_' = TRUE,
         UNCHANGED <<reading_, wire, unread, fin, dataVars, baseQueue, server,
                     downs, destroyed, aborted>>
  PROVE  Good(ioQueue, batch)'
<1> USE DEF Good, Frame, dataVars
<1>1. /\ ups = 0 /\ downs = 0 /\ ~destroyed
      /\ events_ = {} /\ index_ = "kNew"
      /\ outputBuffer_ = <<>> /\ ~fin
      /\ baseQueue = <<>> /\ ~HasOp(q, "connectDestroyed")
  BY DEF Fresh
<1>2. events_' = {"read"} /\ index_' = "kAdded" /\ ups' = 1
  BY <1>1 DEF enableReading, update
<1>3. ConnType'
  BY <1>2 DEF ConnType, ChannelTypeOK, States
<1>4. QueueInv(ioQueue, batch)'
  BY <1>2 DEF QueueInv
<1>5. DataInv' /\ WritingIffPending'
  BY <1>1, <1>2 DEF DataInv, WireInOrder, WritingIffPending, isWriting
<1>6. Open(ioQueue)'
  BY <1>1, <1>2 DEF Open, isReading
<1>7. Fresh(ioQueue)' /\ Down(ioQueue)' /\ ServerInv'
  BY <1>1 DEF Fresh, Down, ServerInv
<1>8. PollInv(ioQueue, batch)'
  BY <1>1 DEF PollInv, isOpen
<1>9. DoneInv(ioQueue)'
  BY DEF DoneInv
<1> QED BY <1>3, <1>4, <1>5, <1>6, <1>7, <1>8, <1>9

(* What is left when a functor is taken off the queue. *)
LEMMA Pop ==
  ASSUME Good(ioQueue, batch), batch > 0
  PROVE  /\ Head(ioQueue) \in Queueable
         /\ QueueInv(Tail(ioQueue), batch - 1)
         /\ Head(ioQueue).op = "connectEstablished" =>
              /\ state_ = "kConnecting"
              /\ ~HasOp(Tail(ioQueue), "connectEstablished")
         /\ Head(ioQueue).op = "connectDestroyed" =>
              ~HasOp(Tail(ioQueue), "connectDestroyed")
         /\ Head(ioQueue).op = "send" => ups = 1
         /\ Head(ioQueue).op = "forceClose" => use.inside \cap Forcing # {}
         /\ HasOp(ioQueue, Head(ioQueue).op)
         /\ Head(ioQueue).op \notin {"connectDestroyed", "writeComplete"} =>
              Good(Tail(ioQueue), batch - 1)
<1> DEFINE q == Tail(ioQueue)
           f == Head(ioQueue)
<1>1. ioQueue \in Seq(Queueable) /\ batch \in 0 .. Len(ioQueue) /\ Len(ioQueue) \in Nat
  BY DEF Good, QueueInv
<1>2. ioQueue # <<>>
  BY <1>1
<1>3. f \in Queueable /\ q \in Seq(Queueable) /\ Len(q) = Len(ioQueue) - 1
  BY <1>1, <1>2, TailFacts
<1>4. \A op : /\ HasOp(q, op) => HasOp(ioQueue, op)
              /\ HasOp(ioQueue, op) => HasOp(q, op) \/ f.op = op
              /\ f.op = op => HasOp(ioQueue, op)
              /\ Once(ioQueue, op) => Once(q, op)
              /\ Once(ioQueue, op) /\ f.op = op => ~HasOp(q, op)
  BY <1>1, <1>2, HasOpTail
<1>5. \A op : Within(ioQueue, op, batch) /\ f.op # op => Within(q, op, batch - 1)
  BY <1>1, <1>2, WithinTail
<1> HIDE DEF q, f
<1>6. QueueInv(q, batch - 1)
  <2>1. batch - 1 \in 0 .. Len(q)
    BY <1>1, <1>3
  <2> QED BY <1>3, <1>4, <2>1 DEF Good, QueueInv
<1>7. /\ f.op = "connectEstablished" =>
           state_ = "kConnecting" /\ ~HasOp(q, "connectEstablished")
      /\ f.op = "connectDestroyed" => ~HasOp(q, "connectDestroyed")
      /\ f.op = "send" => ups = 1
      /\ f.op = "forceClose" => use.inside \cap Forcing # {}
      /\ HasOp(ioQueue, f.op)
  BY <1>4 DEF Good, QueueInv
<1>8. ASSUME f.op \notin {"connectDestroyed", "writeComplete"}
      PROVE  Good(q, batch - 1)
  <2>1. Fresh(q) /\ Open(q)
    BY <1>4 DEF Good, Fresh, Open
  <2>2. Down(q) /\ DoneInv(q)
    BY <1>4, <1>8 DEF Good, Down, DoneInv
  <2>3. PollInv(q, batch - 1)
    BY <1>5, <1>8 DEF Good, PollInv
  <2> QED BY <1>6, <2>1, <2>2, <2>3 DEF Good
<1> QED BY <1>3, <1>6, <1>7, <1>8 DEF q, f

LEMMA DestroyStep ==
  ASSUME Good(ioQueue, batch), batch > 0, turn = "run",
         Head(ioQueue).op = "connectDestroyed",
         connectDestroyed(Tail(ioQueue)), Frame(batch - 1), UNCHANGED serverVars
  PROVE  Good(ioQueue, batch)'
<1> DEFINE q == Tail(ioQueue)
<1>1. /\ QueueInv(q, batch - 1) /\ ~HasOp(q, "connectDestroyed")
      /\ HasOp(ioQueue, "connectDestroyed")
  BY Pop
<1>2. state_ = "kDisconnected"
  BY <1>1 DEF Good, Fresh, Open, isOpen, ConnType, States
<1>3. /\ ups = 1 /\ downs = 1 /\ events_ = {} /\ ~destroyed /\ index_ # "kNew"
      /\ baseQueue = <<>> /\ ~connections_
  BY <1>1, <1>2 DEF Good, Down
<1>4. /\ ioQueue' = q
      /\ UNCHANGED <<reading_, wire, unread, fin, dataVars, ups, state_, downs, aborted>>
      /\ events_' = {} /\ index_' = "kNew" /\ destroyed' = TRUE
  BY <1>2, <1>3 DEF connectDestroyed, removable, remove
<1> HIDE DEF q
<1> USE DEF Good, Frame, serverVars, dataVars
<1>5. ConnType'
  BY <1>4 DEF ConnType, ChannelTypeOK
<1>6. QueueInv(ioQueue, batch)'
  BY <1>1, <1>4 DEF QueueInv
<1>7. DataInv' /\ WritingIffPending'
  BY <1>2, <1>4 DEF DataInv, WireInOrder, WritingIffPending, isOpen
<1>8. Fresh(ioQueue)' /\ Open(ioQueue)' /\ ServerInv'
  BY <1>2, <1>4 DEF Fresh, Open, isOpen, ServerInv
<1>9. Down(ioQueue)'
  BY <1>1, <1>3, <1>4 DEF Down
<1>10. PollInv(ioQueue, batch)'
  BY <1>2, <1>4 DEF PollInv, isOpen
<1>11. DoneInv(ioQueue)'
  <2>1. HasOp(ioQueue, "writeComplete") => HasOp(q, "writeComplete")
    <3>1. ioQueue \in Seq(Queueable) /\ ioQueue # <<>>
      BY DEF QueueInv
    <3> QED BY <3>1, HasOpTail DEF q
  <2> QED BY <1>4, <2>1 DEF DoneInv
<1> QED BY <1>5, <1>6, <1>7, <1>8, <1>9, <1>10, <1>11

LEMMA CompleteStep ==
  ASSUME Good(ioQueue, batch), batch > 0,
         Head(ioQueue).op = "writeComplete", ioQueue' = Tail(ioQueue), owed' = FALSE,
         UNCHANGED <<channelVars, state_, reading_, wire, unread, fin,
                     outputBuffer_, accepted, serverVars, logVars, aborted>>,
         Frame(batch - 1)
  PROVE  Good(ioQueue, batch)'
<1> DEFINE q == Tail(ioQueue)
<1>1. ioQueue \in Seq(Queueable) /\ ioQueue # <<>> /\ batch \in Nat
  BY DEF Good, QueueInv
<1>2. /\ QueueInv(q, batch - 1)
      /\ \A op : HasOp(q, op) => HasOp(ioQueue, op)
      /\ HasOp(ioQueue, "connectDestroyed") => HasOp(q, "connectDestroyed")
      /\ Within(ioQueue, "connectDestroyed", batch)
           => Within(q, "connectDestroyed", batch - 1)
  BY <1>1, Pop, HasOpTail, WithinTail
<1>3. ioQueue' = q
  OBVIOUS
<1> HIDE DEF q
<1> USE DEF Good, Frame, channelVars, serverVars, logVars
<1>4. ConnType'
  BY DEF ConnType, ChannelTypeOK
<1>5. QueueInv(ioQueue, batch)'
  BY <1>2, <1>3 DEF QueueInv
<1>6. DataInv' /\ WritingIffPending'
  BY DEF DataInv, WireInOrder, WritingIffPending, isOpen, isWriting
<1>7. Fresh(ioQueue)' /\ Open(ioQueue)' /\ ServerInv'
  BY <1>2, <1>3 DEF Fresh, Open, isOpen, isReading, SameLoop, ServerInv
<1>8. Down(ioQueue)'
  BY <1>2, <1>3 DEF Down, SameLoop
<1>9. PollInv(ioQueue, batch)'
  BY <1>2, <1>3 DEF PollInv, isOpen
<1>10. DoneInv(ioQueue)'
  BY DEF DoneInv
<1> QED BY <1>4, <1>5, <1>6, <1>7, <1>8, <1>9, <1>10

LEMMA RunFunctorStep ==
  ASSUME AllDisciplined, Good(ioQueue, batch), RunFunctor, UNCHANGED use
  PROVE  Good(ioQueue, batch)' /\ (ups' = ups \/ ups = 0)
<1> DEFINE f == Head(ioQueue)
           q == Tail(ioQueue)
           b == batch - 1
<1>1. batch > 0 /\ turn = "run" /\ Frame(b)
  BY DEF RunFunctor, Frame
<1>2. /\ f \in Queueable
      /\ f.op = "connectEstablished" =>
           state_ = "kConnecting" /\ ~HasOp(q, "connectEstablished")
      /\ f.op = "send" => ups = 1
      /\ f.op = "forceClose" => use.inside \cap Forcing # {}
      /\ f.op \notin {"connectDestroyed", "writeComplete"} => Good(q, b)
  BY <1>1, Pop
<1>3. f.op \in LoopOps /\ (f.op = "send" => f.msg \in Bytes)
  BY <1>2, ConnectionAssumption DEF Queueable, Bytes
<1>4. use \in Uses /\ revents' = {}
  BY <1>1 DEF Good, ConnType, PollInv, Frame
<1> HIDE DEF f, q, b
<1>5. CASE f.op = "connectEstablished" /\ connectEstablished(q)
  <2>1. Fresh(q) /\ ServerInv /\ connections_ \in BOOLEAN
    BY <1>2, <1>5 DEF Good, ConnType
  <2>2. connections_ = TRUE /\ server /\ ups = 0
    BY <1>2, <1>5, <2>1 DEF Fresh, ServerInv
  <2> QED BY <1>1, <1>2, <1>5, <2>2, UpStep DEF connectEstablished, serverVars
<1>6. CASE f.op = "connectDestroyed" /\ connectDestroyed(q) /\ UNCHANGED serverVars
  BY <1>1, <1>6, DestroyStep DEF f, q, b, connectDestroyed
<1>7. CASE f.op = "send" /\ sendInLoop(f.msg, q)
  <2>1. Good(ioQueue, batch)'
    BY <1>1, <1>2, <1>3, <1>7, SendStep
  <2> QED BY <1>7, <2>1 DEF sendInLoop, Skip, connVars, logVars
<1>8. CASE f.op = "forceClose" /\ forceCloseInLoop(q)
  <2>1. Good(q, b)
    BY <1>2, <1>8
  <2>2. CASE Skip(q)
    BY <1>1, <2>1, <2>2, SkipStep DEF Skip, connVars, logVars
  <2>3. CASE isOpen /\ handleClose(q)
    <3>1. "stopRead" \notin use.inside
      BY <1>2, <1>4, <1>8, Discipline
    <3>2. revents' \cap {"HUP", "IN"} = {}
      BY <1>4
    <3> QED
      BY <1>1, <2>1, <2>3, <3>1, <3>2, CloseStep
      DEF handleClose, Fail, connVars, logVars
  <2> QED BY <1>8, <2>2, <2>3 DEF forceCloseInLoop, isOpen
<1>9. CASE f.op = "highWaterMark" /\ Skip(q)
  BY <1>1, <1>2, <1>9, SkipStep DEF Skip, connVars, logVars
<1>10. CASE /\ f.op = "writeComplete"
            /\ owed' = FALSE
            /\ ioQueue' = q
            /\ UNCHANGED <<channelVars, state_, reading_, wire, unread, fin,
                           outputBuffer_, accepted, serverVars, logVars, aborted>>
  BY <1>1, <1>10, CompleteStep DEF f, q, b, logVars
<1> QED
  BY <1>3, <1>5, <1>6, <1>7, <1>8, <1>9, <1>10 DEF RunFunctor, LoopOps, f, q

-----------------------------------------------------------------------------
(* The other steps.                                                        *)

(* The peer, the other thread and the timer may do as they like. *)
LEMMA OutsideStep ==
  ASSUME Good(ioQueue, batch),
         UNCHANGED <<use, channelVars, state_, reading_, wire, fin, dataVars,
                     serverVars, logVars, loopVars, ioQueue, aborted>>,
         unread' \in 0 .. SndBuf
  PROVE  Good(ioQueue, batch)'
<1> USE DEF Good, channelVars, dataVars, serverVars, logVars, loopVars
<1>1. ConnType' /\ QueueInv(ioQueue, batch)'
  BY DEF ConnType, ChannelTypeOK, QueueInv
<1>2. DataInv' /\ WritingIffPending'
  BY DEF DataInv, WireInOrder, WritingIffPending, isOpen, isWriting
<1>3. Fresh(ioQueue)' /\ Open(ioQueue)' /\ ServerInv'
  BY DEF Fresh, Open, isOpen, isReading, SameLoop, ServerInv
<1>4. Down(ioQueue)' /\ DoneInv(ioQueue)'
  BY DEF Down, SameLoop, DoneInv
<1>5. PollInv(ioQueue, batch)'
  BY DEF PollInv, isOpen
<1> QED BY <1>1, <1>2, <1>3, <1>4, <1>5

(* PollReturns, SwapFunctors and EndFunctors. *)
LEMMA TurnStep ==
  ASSUME AllDisciplined, Good(ioQueue, batch), UNCHANGED <<use, connVars, ioQueue, aborted>>,
         PollReturns \/ SwapFunctors \/ EndFunctors
  PROVE  Good(ioQueue, batch)'
<1> USE DEF Good, connVars, channelVars, dataVars, serverVars, logVars
<1>1. /\ ioQueue \in Seq(Queueable) /\ Len(ioQueue) \in Nat
      /\ batch \in 0 .. Len(ioQueue)
  BY DEF QueueInv
<1>2. DataInv' /\ WritingIffPending' /\ ServerInv'
  BY DEF DataInv, WireInOrder, WritingIffPending, isOpen, isWriting, ServerInv
<1>3. Fresh(ioQueue)' /\ Open(ioQueue)'
  BY DEF Fresh, Open, isOpen, isReading, SameLoop
<1>4. Down(ioQueue)' /\ DoneInv(ioQueue)'
  BY DEF Down, SameLoop, DoneInv
<1>5. ConnType'
  <2>1. /\ turn' \in {"poll", "handle", "run"} /\ active' \in BOOLEAN
        /\ revents' \subseteq {"HUP", "ERR", "IN", "OUT"}
    BY DEF ConnType, PollReturns, SwapFunctors, EndFunctors, Reported, Ready
  <2> QED BY <2>1 DEF ConnType, ChannelTypeOK
<1>6. QueueInv(ioQueue, batch)'
  <2>1. batch' \in 0 .. Len(ioQueue)
    BY <1>1 DEF PollReturns, SwapFunctors, EndFunctors
  <2> QED BY <2>1 DEF QueueInv
<1>7. PollInv(ioQueue, batch)'
  <2>1. CASE PollReturns
    <3>1. revents' # {} => index_ = "kAdded"
      BY <2>1 DEF PollReturns, Reported
    <3>2. index_ = "kAdded" => isOpen
      BY <2>1 DEF PollReturns, PollInv, Fresh, ConnType, States, isOpen
    <3> QED BY <2>1, <3>1, <3>2 DEF PollReturns, PollInv, isOpen
  <2>2. CASE SwapFunctors
    <3>1. state_ = "kDisconnected" /\ index_ = "kAdded" =>
            "stopRead" \in use.inside /\ HasOp(ioQueue, "connectDestroyed")
      BY Discipline DEF PollInv, Down, ConnType
    <3>2. HasOp(ioQueue, "connectDestroyed") =>
            Within(ioQueue, "connectDestroyed", Len(ioQueue))
      BY <1>1, WithinAll
    <3> QED BY <2>2, <3>1, <3>2 DEF SwapFunctors, PollInv, isOpen
  <2>3. CASE EndFunctors
    <3>1. ~Within(ioQueue, "connectDestroyed", 0)
      BY <1>1, WithinAll
    <3> QED BY <2>3, <3>1 DEF EndFunctors, PollInv, isOpen
  <2> QED BY <2>1, <2>2, <2>3
<1> QED BY <1>2, <1>3, <1>4, <1>5, <1>6, <1>7

LEMMA NewConnectionStep ==
  ASSUME Good(ioQueue, batch), newConnection, UNCHANGED use
  PROVE  Good(ioQueue, batch)' /\ ups = 0
<1>1. Frame(batch) /\ state_ = "none" /\ server /\ connections_' = TRUE
  BY DEF newConnection, Frame, loopVars
<1>2. /\ ups = 0 /\ downs = 0 /\ ~destroyed
      /\ events_ = {} /\ index_ = "kNew"
      /\ outputBuffer_ = <<>> /\ ~fin
      /\ baseQueue = <<>> /\ ~HasOp(ioQueue, "connectDestroyed")
      /\ ~HasOp(ioQueue, "connectEstablished")
  BY <1>1 DEF Good, Fresh, QueueInv
<1>3. CASE SameLoop
  BY <1>1, <1>2, <1>3, UpStep DEF newConnection
<1>4. CASE ~SameLoop
  <2> DEFINE f == Functor("connectEstablished")
  <2>1. f \in Queueable /\ f.op = "connectEstablished"
    BY FunctorType DEF LoopOps
  <2>2. /\ state_' = "kConnecting" /\ ioQueue' = Append(ioQueue, f)
        /\ UNCHANGED <<channelVars, ups, reading_, wire, unread, fin, dataVars,
                       baseQueue, server, downs, destroyed, aborted>>
    BY <1>4 DEF newConnection
  <2>3. /\ ioQueue \in Seq(Queueable) /\ Len(ioQueue) \in Nat
        /\ batch \in 0 .. Len(ioQueue)
    BY DEF Good, QueueInv
  <2> HIDE DEF f
  <2>4. \A op : HasOp(ioQueue', op) <=> HasOp(ioQueue, op) \/ f.op = op
    BY <2>1, <2>2, <2>3, HasOpAppend
  <2>5. \A op \in LoopOps : Once(ioQueue, op) => Once(ioQueue', op)
    BY <1>2, <2>1, <2>2, <2>3, OnceAppend
  <2>6. ioQueue' \in Seq(Queueable) /\ batch \in 0 .. Len(ioQueue')
    BY <2>1, <2>2, <2>3
  <2> USE DEF Good, Frame, channelVars, dataVars
  <2>7. ConnType' /\ QueueInv(ioQueue, batch)'
    BY <1>1, <2>1, <2>2, <2>4, <2>5, <2>6
    DEF ConnType, ChannelTypeOK, States, QueueInv, LoopOps
  <2>8. DataInv' /\ WritingIffPending' /\ ServerInv'
    BY <1>1, <2>2 DEF DataInv, WireInOrder, WritingIffPending, isOpen, ServerInv
  <2>9. Fresh(ioQueue)' /\ Open(ioQueue)' /\ Down(ioQueue)'
    BY <1>1, <1>2, <1>4, <2>1, <2>2, <2>4 DEF Fresh, Open, Down, isOpen, SameLoop
  <2>10. PollInv(ioQueue, batch)' /\ DoneInv(ioQueue)'
    BY <1>1, <2>2, <2>4 DEF PollInv, DoneInv, isOpen
  <2> QED BY <1>2, <2>7, <2>8, <2>9, <2>10
<1> QED BY <1>3, <1>4

LEMMA RemoveStep ==
  ASSUME AllDisciplined, Good(ioQueue, batch), removeConnectionInLoop, UNCHANGED use
  PROVE  Good(ioQueue, batch)' /\ ups' = ups
<1>1. baseQueue # <<>>
  BY DEF removeConnectionInLoop
<1>2. state_ = "kDisconnected"
  BY <1>1 DEF Good, Fresh, Open, isOpen, ConnType, States
<1>3. /\ ups = 1 /\ downs = 1 /\ events_ = {} /\ ~destroyed /\ index_ # "kNew"
      /\ baseQueue = <<"removeConnection">> /\ server /\ connections_ /\ ~SameLoop
      /\ ~HasOp(ioQueue, "connectDestroyed")
  BY <1>1, <1>2 DEF Good, Down
<1> DEFINE f == Functor("connectDestroyed")
<1>4. f \in Queueable /\ f.op = "connectDestroyed"
  BY FunctorType DEF LoopOps
<1>5. /\ baseQueue' = Tail(baseQueue) /\ connections_' = FALSE
      /\ ioQueue' = Append(ioQueue, f)
      /\ UNCHANGED <<channelVars, state_, reading_, wire, unread, fin, dataVars,
                     server, logVars, aborted, loopVars>>
  BY <1>3 DEF removeConnectionInLoop
<1>6. baseQueue' = <<>>
  BY <1>3, <1>5
<1>7. /\ ioQueue \in Seq(Queueable) /\ Len(ioQueue) \in Nat
      /\ batch \in 0 .. Len(ioQueue)
  BY DEF Good, QueueInv
<1> HIDE DEF f
<1>8. \A op : HasOp(ioQueue', op) <=> HasOp(ioQueue, op) \/ f.op = op
  BY <1>4, <1>5, <1>7, HasOpAppend
<1>9. \A op \in LoopOps : Once(ioQueue, op) => Once(ioQueue', op)
  BY <1>3, <1>4, <1>5, <1>7, OnceAppend
<1>10. ioQueue' \in Seq(Queueable) /\ batch \in 0 .. Len(ioQueue')
  BY <1>4, <1>5, <1>7
<1> USE DEF Good, channelVars, dataVars, logVars, loopVars
<1>11. ConnType' /\ QueueInv(ioQueue, batch)'
  BY <1>4, <1>5, <1>8, <1>9, <1>10, ZenonT(60) DEF ConnType, ChannelTypeOK, QueueInv, LoopOps
<1>12. DataInv' /\ WritingIffPending' /\ ServerInv'
  BY <1>2, <1>5 DEF DataInv, WireInOrder, WritingIffPending, isOpen, ServerInv
<1>13. Fresh(ioQueue)' /\ Open(ioQueue)' /\ Down(ioQueue)'
  BY <1>2, <1>3, <1>4, <1>5, <1>6, <1>8 DEF Fresh, Open, Down, isOpen
<1>14. PollInv(ioQueue, batch)'
  <2>1. "stopRead" \notin use.inside
    BY <1>3, Discipline DEF ConnType
  <2> QED BY <1>2, <1>5, <2>1 DEF PollInv, isOpen
<1>15. DoneInv(ioQueue)'
  BY <1>5, <1>8 DEF DoneInv
<1> QED BY <1>5, <1>11, <1>12, <1>13, <1>14, <1>15

(* ~TcpServer, in a functor or in a message callback. *)
LEMMA DtorServerStep ==
  ASSUME AllDisciplined, Good(ioQueue, batch), dtorTcpServer, Frame(batch),
         turn = "run" \/ turn = "handle", revents' \cap {"HUP", "IN"} = {}
  PROVE  Good(ioQueue, batch)' /\ ups' = ups
<1>1. /\ use.serverDies = "own" /\ SameLoop /\ state_ # "kDisconnecting"
      /\ server' = FALSE /\ connections_' = FALSE /\ baseQueue' = baseQueue
  BY Discipline DEF dtorTcpServer, Good, ConnType, Open, isOpen
<1>2. revents' # {} => turn = "handle"
  BY DEF Frame, Good, PollInv
<1> USE DEF Good, Frame, channelVars, dataVars, logVars
<1>3. CASE ~connections_
  <2>1. /\ ioQueue' = ioQueue
        /\ UNCHANGED <<channelVars, state_, reading_, wire, unread, fin, dataVars,
                       logVars, aborted>>
    BY <1>3 DEF dtorTcpServer
  <2>2. ~isOpen /\ state_ # "kConnecting"
    BY <1>3 DEF Open, Fresh
  <2>3. ConnType' /\ QueueInv(ioQueue, batch)' /\ ServerInv'
    BY <1>1, <2>1 DEF ConnType, ChannelTypeOK, QueueInv, ServerInv
  <2>4. DataInv' /\ WritingIffPending' /\ DoneInv(ioQueue)'
    BY <2>1 DEF DataInv, WireInOrder, WritingIffPending, isOpen, isWriting, DoneInv
  <2>5. Fresh(ioQueue)' /\ Open(ioQueue)'
    BY <1>1, <2>1, <2>2 DEF Fresh, Open, isOpen
  <2>6. Down(ioQueue)'
    BY <1>1, <1>3, <2>1 DEF Down
  <2>7. PollInv(ioQueue, batch)'
    BY <1>1, <1>2, <2>1 DEF PollInv, isOpen
  <2> QED BY <2>1, <2>3, <2>4, <2>5, <2>6, <2>7
<1>4. CASE connections_
  <2>1. connectDestroyed(ioQueue)
    BY <1>1, <1>4 DEF dtorTcpServer
  <2>2. state_ = "kConnected"
    BY <1>1, <1>4 DEF ConnType, States, Fresh, Down
  <2>3. /\ ups = 1 /\ downs = 0 /\ index_ # "kNew"
        /\ baseQueue = <<>> /\ ~HasOp(ioQueue, "connectDestroyed")
    BY <2>2 DEF Open, isOpen
  <2>4. /\ ioQueue' = ioQueue
        /\ UNCHANGED <<reading_, wire, unread, fin, dataVars, ups, aborted>>
        /\ events_' = {} /\ index_' = "kNew" /\ state_' = "kDisconnected"
        /\ downs' = 1 /\ destroyed' = TRUE
    BY <2>1, <2>2, <2>3 DEF connectDestroyed, removable, remove
  <2>5. ConnType' /\ ServerInv'
    BY <1>1, <2>4 DEF ConnType, ChannelTypeOK, States, ServerInv
  <2>6. QueueInv(ioQueue, batch)'
    BY <1>1, <2>2, <2>4 DEF QueueInv
  <2>7. DataInv' /\ WritingIffPending' /\ DoneInv(ioQueue)'
    BY <2>4 DEF DataInv, WireInOrder, WritingIffPending, isOpen, DoneInv
  <2>8. Fresh(ioQueue)' /\ Open(ioQueue)' /\ Down(ioQueue)'
    BY <1>1, <2>3, <2>4 DEF Fresh, Open, Down, isOpen
  <2>9. PollInv(ioQueue, batch)'
    BY <1>1, <1>2, <2>4 DEF PollInv
  <2> QED BY <2>4, <2>5, <2>6, <2>7, <2>8, <2>9
<1> QED BY <1>3, <1>4

LEMMA DestroyServerStep ==
  ASSUME AllDisciplined, Good(ioQueue, batch), destroyServer, UNCHANGED use
  PROVE  Good(ioQueue, batch)' /\ ups' = ups
<1>1. CASE dtorTcpServer
  <2>1. Frame(batch)
    BY DEF destroyServer, loopVars, Frame
  <2>2. SameLoop /\ use.serverDies # "any"
    BY <1>1, Discipline DEF dtorTcpServer, Good, ConnType
  <2>3. turn = "run"
    BY <2>2 DEF destroyServer
  <2>4. revents' \cap {"HUP", "IN"} = {}
    BY <2>1, <2>3 DEF Frame, Good, PollInv
  <2> QED BY <1>1, <2>1, <2>3, <2>4, DtorServerStep
<1>2. CASE ~dtorTcpServer
  <2>1. SameLoop /\ active /\ turn = "run"
    BY <1>2, Discipline DEF destroyServer, Good, ConnType
  <2> QED BY <2>1 DEF Good, PollInv
<1> QED BY <1>1, <1>2

(* HandleHup, handleError and handleRead. *)
LEMMA HandleStep ==
  ASSUME AllDisciplined, Good(ioQueue, batch), HandleHup \/ handleError \/ handleRead, UNCHANGED use
  PROVE  Good(ioQueue, batch)' /\ ups' = ups
<1>1. Frame(batch) /\ revents # {}
  BY DEF HandleHup, handleError, handleRead, Frame
<1>2. turn = "handle"
  BY <1>1 DEF Good, PollInv
<1>3. CASE Skip(ioQueue)
  BY <1>1, <1>3, SkipStep DEF Skip, connVars, logVars
<1>4. CASE /\ handleClose(ioQueue)
           /\ revents \cap {"HUP", "IN"} # {}
           /\ revents' \cap {"HUP", "IN"} = {}
  <2>1. isOpen
    BY <1>4 DEF Good, PollInv
  <2> QED
    BY <1>1, <1>2, <1>4, <2>1, CloseStep DEF handleClose, Fail, connVars, logVars
<1>5. CASE dtorTcpServer /\ revents' \cap {"HUP", "IN"} = {}
  BY <1>1, <1>2, <1>5, DtorServerStep
<1> QED BY <1>3, <1>4, <1>5 DEF HandleHup, handleError, handleRead

LEMMA LoopCallsStep ==
  ASSUME AllDisciplined, Good(ioQueue, batch), EnvInv, LoopCalls, UNCHANGED use
  PROVE  Good(ioQueue, batch)' /\ ups' = ups
<1>1. Frame(batch) /\ use \in Uses
  BY DEF LoopCalls, sendHere, shutdownHere, forceCloseHere, forceCloseWithDelayHere,
         DelayIsOver, startReadHere, stopReadHere, loopVars, Frame, Good, ConnType
<1>2. ASSUME ups > 0 PROVE ups = 1
  BY <1>2 DEF Good, Fresh, Open, Down, ConnType, States, isOpen
<1>3. CASE Skip(ioQueue)
  BY <1>1, <1>3, SkipStep DEF Skip, connVars, logVars
<1>4. CASE sendHere /\ ~Skip(ioQueue)
  <2>1. sendInLoop(sent + 1, ioQueue) /\ ups > 0
    BY <1>4 DEF sendHere, Here
  <2>2. sent + 1 \in Bytes
    BY <1>4, ConnectionAssumption DEF sendHere, EnvInv, Bytes
  <2>3. Good(ioQueue, batch)'
    BY <1>1, <1>2, <2>1, <2>2, SendStep
  <2> QED BY <2>1, <2>3 DEF sendInLoop, Skip, connVars, logVars
<1>5. CASE shutdownHere
  <2>1. /\ isOpen /\ "shutdown" \in use.inside /\ state_' = "kDisconnecting"
        /\ fin' = (fin \/ ~isWriting) /\ ioQueue' = ioQueue
        /\ UNCHANGED <<channelVars, reading_, wire, unread, dataVars, serverVars,
                       logVars, aborted>>
    BY <1>5 DEF shutdownHere, Here, shutdownInLoop, isOpen
  <2> QED BY <1>1, <2>1, DisconnectingStep DEF logVars
<1>6. CASE forceClose /\ use.inside \cap Forcing # {}
  <2>1. use.inside \cap {"shutdown", "forceClose", "forceCloseWithDelay"} # {}
    BY <1>6 DEF Forcing
  <2> QED BY <1>1, <1>6, <2>1, DisconnectingStep DEF forceClose, logVars
<1>7. CASE forceCloseHere
  BY <1>6, <1>7 DEF forceCloseHere, Here, Forcing
<1>8. CASE forceCloseWithDelayHere
  <2>1. /\ isOpen /\ "forceCloseWithDelay" \in use.inside
        /\ state_' = "kDisconnecting" /\ ioQueue' = ioQueue /\ fin' = fin
        /\ UNCHANGED <<channelVars, reading_, wire, unread, dataVars, serverVars,
                       logVars, aborted>>
    BY <1>8 DEF forceCloseWithDelayHere, Here
  <2> QED BY <1>1, <2>1, DisconnectingStep DEF logVars
<1>9. CASE DelayIsOver
  BY <1>3, <1>6, <1>9 DEF DelayIsOver, EnvInv
<1>10. CASE startReadHere /\ ~Skip(ioQueue)
  <2>0. ~use.late
    BY <1>1, Discipline
  <2>1. /\ isOpen /\ ioQueue' = ioQueue /\ reading_' = TRUE /\ enableReading
        /\ UNCHANGED <<state_, wire, unread, fin, dataVars, serverVars, logVars, aborted>>
    BY <1>10, <2>0 DEF startReadHere, startReadInLoop
  <2> QED BY <1>1, <2>1, ReadingStep DEF logVars
<1>11. CASE stopReadHere /\ ~Skip(ioQueue)
  <2>0. ~use.late
    BY <1>1, Discipline
  <2>1. /\ isOpen /\ ioQueue' = ioQueue /\ reading_' = FALSE /\ disableReading
        /\ "stopRead" \in use.inside
        /\ UNCHANGED <<state_, wire, unread, fin, dataVars, serverVars, logVars, aborted>>
    BY <1>11, <2>0 DEF stopReadHere, stopReadInLoop, Here
  <2> QED BY <1>1, <2>1, ReadingStep DEF logVars
<1> QED
  BY <1>3, <1>4, <1>5, <1>7, <1>8, <1>9, <1>10, <1>11 DEF LoopCalls

(* The other thread's call reaches the queue. *)
LEMMA CallQueuesStep ==
  ASSUME Good(ioQueue, batch), EnvInv, CallQueues, UNCHANGED use
  PROVE  Good(ioQueue, batch)'
<1>1. PICK m \in Bytes :
        ups = 1 /\ caller = [op |-> "send", stage |-> "queue", msg |-> m]
  BY DEF CallQueues, EnvInv, Idle
<1> DEFINE f == [op |-> "send", msg |-> m]
<1>2. f \in Queueable /\ f.op = "send"
  BY ConnectionAssumption DEF Queueable, Bytes, LoopOps
<1>3. /\ ioQueue' = Append(ioQueue, f)
      /\ UNCHANGED <<connVars, loopVars, aborted>>
  BY <1>1 DEF CallQueues
<1>4. /\ ioQueue \in Seq(Queueable) /\ Len(ioQueue) \in Nat
      /\ batch \in 0 .. Len(ioQueue)
  BY DEF Good, QueueInv
<1> HIDE DEF f
<1>5. \A op : HasOp(ioQueue', op) <=> HasOp(ioQueue, op) \/ f.op = op
  BY <1>2, <1>3, <1>4, HasOpAppend
<1>6. \A op \in LoopOps \ {"send"} : Once(ioQueue, op) => Once(ioQueue', op)
  BY <1>2, <1>3, <1>4, OnceAppend
<1>7. \A op, b : Within(ioQueue, op, b) => Within(ioQueue', op, b)
  BY <1>2, <1>3, <1>4, WithinAppend
<1>8. ioQueue' \in Seq(Queueable) /\ batch \in 0 .. Len(ioQueue')
  BY <1>2, <1>3, <1>4
<1> USE DEF Good, connVars, channelVars, dataVars, serverVars, logVars, loopVars
<1>9. ConnType' /\ DataInv' /\ WritingIffPending' /\ ServerInv'
  BY <1>3
  DEF ConnType, ChannelTypeOK, DataInv, WireInOrder, WritingIffPending, isOpen,
      isWriting, ServerInv
<1>10. QueueInv(ioQueue, batch)'
  BY <1>1, <1>2, <1>3, <1>5, <1>6, <1>8 DEF QueueInv, LoopOps
<1>11. Fresh(ioQueue)' /\ Open(ioQueue)'
  BY <1>2, <1>3, <1>5 DEF Fresh, Open, isOpen, isReading, SameLoop
<1>12. Down(ioQueue)' /\ DoneInv(ioQueue)'
  BY <1>2, <1>3, <1>5 DEF Down, SameLoop, DoneInv
<1>13. PollInv(ioQueue, batch)'
  BY <1>3, <1>7 DEF PollInv, isOpen
<1> QED BY <1>9, <1>10, <1>11, <1>12, <1>13

(* Steps of the loop and of the peer leave the other thread's call alone. *)
LEMMA EnvStep ==
  ASSUME EnvInv, UNCHANGED <<use, caller>>, ups' = ups \/ ups = 0,
         inbound' \in BOOLEAN, sockErr' \in BOOLEAN,
         peer' \in {"open", "fin", "reset"}, sent' \in 0 .. MaxSends,
         delayed' \in BOOLEAN, delayed' => use.inside \cap Forcing # {}
  PROVE  EnvInv'
BY DEF EnvInv, Idle

LEMMA InitInv ==
  ASSUME Init
  PROVE  IInv
<1> USE ConnectionAssumption DEF Init
<1>1. ConnType /\ ServerInv
  BY DEF ConnType, ChannelInit, ChannelTypeOK, States, ServerInv
<1>2. ioQueue \in Seq(Queueable) /\ Len(ioQueue) = 0 /\ DOMAIN ioQueue = {}
  OBVIOUS
<1>3. \A op : ~HasOp(ioQueue, op) /\ Once(ioQueue, op)
  BY <1>2 DEF HasOp, Once
<1>4. QueueInv(ioQueue, batch)
  BY <1>2, <1>3 DEF QueueInv
<1>5. DataInv /\ WritingIffPending
  BY DEF DataInv, WireInOrder, WritingIffPending, isOpen
<1>6. Fresh(ioQueue) /\ Open(ioQueue) /\ Down(ioQueue)
  BY <1>3 DEF Fresh, Open, Down, isOpen, ChannelInit
<1>7. PollInv(ioQueue, batch) /\ DoneInv(ioQueue)
  BY DEF PollInv, DoneInv
<1>8. EnvInv
  <2>1. sent \in 0 .. MaxSends
    OBVIOUS
  <2>2. inbound \in BOOLEAN /\ sockErr \in BOOLEAN /\ delayed \in BOOLEAN /\ ~delayed
    OBVIOUS
  <2> QED BY <2>1, <2>2 DEF EnvInv
<1> QED BY <1>1, <1>4, <1>5, <1>6, <1>7, <1>8 DEF IInv, Good

LEMMA InvStep ==
  ASSUME AllDisciplined, IInv, [Next]_vars
  PROVE  IInv'
<1>1. Good(ioQueue, batch) /\ EnvInv
  BY DEF IInv
<1>2. /\ inbound \in BOOLEAN /\ sockErr \in BOOLEAN /\ delayed \in BOOLEAN
      /\ peer \in {"open", "fin", "reset"} /\ sent \in 0 .. MaxSends
      /\ delayed => use.inside \cap Forcing # {}
      /\ unread \in 0 .. SndBuf /\ use \in Uses
  BY <1>1 DEF EnvInv, Good, DataInv, ConnType
<1>3. ASSUME ups > 0 PROVE ups = 1
  BY <1>1, <1>3 DEF Good, Fresh, Open, Down, ConnType, States, isOpen
<1>4. CASE UNCHANGED vars
  <2>1. Good(ioQueue, batch)'
    BY <1>1, <1>2, <1>4, OutsideStep DEF vars, stateVars, connVars
  <2>2. EnvInv'
    BY <1>1, <1>2, <1>4, EnvStep DEF vars, stateVars, connVars, logVars, userVars
  <2> QED BY <2>1, <2>2 DEF IInv
<1>5. CASE newConnection /\ UNCHANGED use
  <2>1. Good(ioQueue, batch)' /\ ups = 0
    BY <1>1, <1>5, NewConnectionStep
  <2>2. EnvInv'
    BY <1>1, <1>2, <1>5, <2>1, EnvStep DEF newConnection, userVars
  <2> QED BY <2>1, <2>2 DEF IInv
<1>6. CASE removeConnectionInLoop /\ UNCHANGED use
  <2>1. Good(ioQueue, batch)' /\ ups' = ups
    BY <1>1, <1>6, RemoveStep
  <2>2. EnvInv'
    BY <1>1, <1>2, <1>6, <2>1, EnvStep DEF removeConnectionInLoop, userVars
  <2> QED BY <2>1, <2>2 DEF IInv
<1>7. CASE destroyServer /\ UNCHANGED use
  <2>1. Good(ioQueue, batch)' /\ ups' = ups
    BY <1>1, <1>7, DestroyServerStep
  <2>2. EnvInv'
    BY <1>1, <1>2, <1>7, <2>1, EnvStep DEF destroyServer, userVars
  <2> QED BY <2>1, <2>2 DEF IInv
<1>8. CASE (PollReturns \/ SwapFunctors \/ EndFunctors) /\ UNCHANGED use
  <2>1. UNCHANGED <<connVars, peer, inbound, sockErr, ioQueue, userVars, aborted>>
    BY <1>8 DEF PollReturns, SwapFunctors, EndFunctors
  <2>2. Good(ioQueue, batch)'
    BY <1>1, <1>8, <2>1, TurnStep
  <2>3. EnvInv'
    BY <1>1, <1>2, <1>8, <2>1, EnvStep DEF connVars, logVars, userVars
  <2> QED BY <2>2, <2>3 DEF IInv
<1>9. CASE (HandleHup \/ handleError \/ handleRead) /\ UNCHANGED use
  <2>1. Good(ioQueue, batch)' /\ ups' = ups
    BY <1>1, <1>9, HandleStep
  <2>2. /\ UNCHANGED <<peer, userVars>>
        /\ inbound' \in BOOLEAN /\ sockErr' \in BOOLEAN
    BY <1>2, <1>9 DEF HandleHup, handleError, handleRead
  <2>3. EnvInv'
    BY <1>1, <1>2, <1>9, <2>1, <2>2, EnvStep DEF userVars
  <2> QED BY <2>1, <2>3 DEF IInv
<1>10. CASE handleWrite /\ UNCHANGED use
  <2>1. Good(ioQueue, batch)'
    BY <1>1, <1>10, WriteStep
  <2>2. ups' = ups
    BY <1>10 DEF handleWrite, Skip, connVars, logVars
  <2>3. EnvInv'
    BY <1>1, <1>2, <1>10, <2>2, EnvStep DEF handleWrite, userVars
  <2> QED BY <2>1, <2>3 DEF IInv
<1>11. CASE RunFunctor /\ UNCHANGED use
  <2>1. Good(ioQueue, batch)' /\ (ups' = ups \/ ups = 0)
    BY <1>1, <1>11, RunFunctorStep
  <2>2. UNCHANGED <<peer, inbound, sockErr, userVars>>
    BY <1>11 DEF RunFunctor
  <2>3. EnvInv'
    BY <1>1, <1>2, <1>11, <2>1, <2>2, EnvStep DEF userVars
  <2> QED BY <2>1, <2>3 DEF IInv
<1>12. CASE LoopCalls /\ UNCHANGED use
  <2>1. Good(ioQueue, batch)' /\ ups' = ups
    BY <1>1, <1>12, LoopCallsStep
  <2>2. /\ UNCHANGED <<peer, inbound, sockErr, caller>>
        /\ sent' = sent \/ (sent' = sent + 1 /\ sent < MaxSends)
        /\ delayed' = delayed \/ delayed' = FALSE
             \/ (delayed' = TRUE /\ "forceCloseWithDelay" \in use.inside)
    BY <1>12
    DEF LoopCalls, sendHere, shutdownHere, forceCloseHere, forceCloseWithDelayHere,
        DelayIsOver, startReadHere, stopReadHere, userVars, Here
  <2>3. /\ sent' \in 0 .. MaxSends /\ delayed' \in BOOLEAN
        /\ delayed' => use.inside \cap Forcing # {}
    <3>1. sent' \in 0 .. MaxSends
      BY <1>2, <2>2, ConnectionAssumption
    <3>2. delayed' \in BOOLEAN
      BY <1>2, <2>2
    <3>3. delayed' => use.inside \cap Forcing # {}
      BY <1>2, <2>2 DEF Forcing
    <3> QED BY <3>1, <3>2, <3>3
  <2>4. EnvInv'
    BY <1>1, <1>2, <1>12, <2>1, <2>2, <2>3, EnvStep
  <2> QED BY <2>1, <2>4 DEF IInv
<1>13. CASE (\E op \in use.outside : CallTests(op)) /\ UNCHANGED use
  <2>1. /\ CallTests("send")
        /\ UNCHANGED <<use, connVars, loopVars, ioQueue, aborted>>
    BY <1>2, <1>13, Discipline DEF CallTests
  <2>2. Good(ioQueue, batch)'
    BY <1>1, <1>2, <2>1, OutsideStep DEF connVars
  <2>3. /\ ups' = 1 /\ sent + 1 \in 1 .. MaxSends
        /\ sent' = sent + 1 /\ UNCHANGED <<peer, inbound, sockErr, delayed>>
        /\ caller' = [op |-> "send", stage |-> "queue", msg |-> sent + 1]
    BY <1>2, <1>3, <2>1, ConnectionAssumption DEF CallTests, connVars, logVars
  <2>4. EnvInv'
    BY <1>2, <2>1, <2>3, ConnectionAssumption DEF EnvInv, Bytes
  <2> QED BY <2>2, <2>4 DEF IInv
<1>14. ASSUME CallSetsState PROVE FALSE
  BY <1>1, <1>14 DEF CallSetsState, EnvInv, Idle
<1>15. CASE CallQueues /\ UNCHANGED use
  <2>1. Good(ioQueue, batch)'
    BY <1>1, <1>15, CallQueuesStep
  <2>2. caller.op # "forceCloseWithDelay"
    BY <1>1 DEF EnvInv, Idle
  <2>3. EnvInv'
    BY <1>2, <1>15, <2>2 DEF CallQueues, EnvInv
  <2> QED BY <2>1, <2>3 DEF IInv
<1>16. CASE (PeerSends \/ PeerReads \/ PeerCloses) /\ UNCHANGED use
  <2>1. /\ UNCHANGED <<channelVars, state_, reading_, wire, fin, dataVars,
                       serverVars, logVars, loopVars, ioQueue, userVars, aborted>>
        /\ unread' = unread \/ (unread' = unread - 1 /\ unread > 0)
        /\ inbound' \in BOOLEAN /\ sockErr' \in BOOLEAN
        /\ peer' \in {"open", "fin", "reset"}
    BY <1>2, <1>16 DEF PeerSends, PeerReads, PeerCloses, connVars
  <2>2. unread' \in 0 .. SndBuf
    BY <1>2, <2>1, ConnectionAssumption
  <2>3. Good(ioQueue, batch)'
    BY <1>1, <1>16, <2>1, <2>2, OutsideStep
  <2>4. EnvInv'
    BY <1>1, <1>2, <1>16, <2>1, EnvStep DEF logVars, userVars
  <2> QED BY <2>3, <2>4 DEF IInv
<1> QED
  BY <1>4, <1>5, <1>6, <1>7, <1>8, <1>9, <1>10, <1>11, <1>12, <1>13, <1>14,
     <1>15, <1>16
  DEF Next, LoopStep, OtherCalls

(* The inductive invariant gives what the runs check. *)
LEMMA InvImplies ==
  ASSUME IInv
  PROVE  /\ TypeOK /\ WireInOrder /\ WritingIffPending /\ UpThenDown
         /\ NoAssertFails /\ CompletionIsNotified
<1>1. Good(ioQueue, batch) /\ EnvInv
  BY DEF IInv
<1>2. WireInOrder /\ WritingIffPending
  BY <1>1 DEF Good, DataInv
<1>3. /\ ups \in Nat /\ downs \in Nat /\ baseQueue \in Seq({"removeConnection"})
      /\ UpThenDown
  <2>1. /\ state_ \in {"none", "kConnecting"} => ups = 0 /\ downs = 0
        /\ isOpen => ups = 1 /\ downs = 0
        /\ state_ = "kDisconnected" => ups = 1 /\ downs = 1
        /\ state_ \in States
    BY <1>1 DEF Good, ConnType, Fresh, Open, Down
  <2>2. baseQueue = <<>> \/ baseQueue = <<"removeConnection">>
    BY <1>1 DEF Good, ConnType, States, Fresh, Open, Down, isOpen
  <2>3. baseQueue \in Seq({"removeConnection"})
    <3> DEFINE x == "removeConnection"
    <3> HIDE DEF x
    <3>1. <<x>> \in Seq({x}) /\ <<>> \in Seq({x})
      OBVIOUS
    <3>2. baseQueue = <<>> \/ baseQueue = <<x>>
      BY <2>2 DEF x
    <3>3. baseQueue \in Seq({x})
      BY <3>1, <3>2
    <3> QED BY <3>3 DEF x
  <2>4. UpThenDown /\ ups \in Nat /\ downs \in Nat
    BY <2>1 DEF UpThenDown, States, isOpen
  <2> QED BY <2>3, <2>4
<1>4. NoAssertFails
  BY <1>1 DEF Good, ConnType, States, Fresh, Open, Down, isOpen, NoAssertFails,
              isNoneEvent
<1>5. CompletionIsNotified
  BY <1>1 DEF Good, DoneInv, HasOp, CompletionIsNotified
<1>6. /\ caller \in [op : Calls \cup {"none"}, stage : {"none", "set", "queue"},
                     msg : 0 .. MaxSends]
  BY <1>1, ConnectionAssumption DEF EnvInv, Idle, Calls, Bytes
<1>7. ioQueue \in Seq([op : Ops, msg : 0 .. MaxSends])
  <2>1. Queueable \subseteq [op : Ops, msg : 0 .. MaxSends]
    BY DEF Queueable, LoopOps, Ops, Calls
  <2>2. ioQueue \in Seq(Queueable)
    BY <1>1 DEF Good, QueueInv
  <2> HIDE DEF Queueable
  <2> DEFINE T == [op : Ops, msg : 0 .. MaxSends]
  <2> HIDE DEF T
  <2>3. Queueable \subseteq T
    BY <2>1 DEF T
  <2>4. ioQueue \in Seq(T)
    BY <2>2, <2>3
  <2> QED BY <2>4 DEF T
<1>8. TypeOK
  <2>1. batch \in 0 .. Len(ioQueue)
    BY <1>1 DEF Good, QueueInv
  <2>2. /\ use \in Uses /\ ChannelTypeOK /\ state_ \in States
        /\ reading_ \in BOOLEAN /\ fin \in BOOLEAN /\ owed \in BOOLEAN
        /\ turn \in {"poll", "handle", "run"} /\ active \in BOOLEAN
        /\ revents \subseteq {"HUP", "ERR", "IN", "OUT"}
        /\ connections_ \in BOOLEAN /\ server \in BOOLEAN /\ destroyed \in BOOLEAN
        /\ aborted = "no"
    BY <1>1 DEF Good, ConnType
  <2>3. /\ outputBuffer_ \in Seq(1 .. MaxSends) /\ wire \in Seq(1 .. MaxSends)
        /\ accepted \in Seq(1 .. MaxSends) /\ unread \in 0 .. SndBuf
    BY <1>1 DEF Good, DataInv, Bytes
  <2>4. /\ inbound \in BOOLEAN /\ sockErr \in BOOLEAN /\ delayed \in BOOLEAN
        /\ peer \in {"open", "fin", "reset"} /\ sent \in 0 .. MaxSends
    BY <1>1 DEF EnvInv
  <2>5. aborted \in {"no"} \cup Asserts
    BY <2>2
  <2> QED BY <1>3, <1>6, <1>7, <2>1, <2>2, <2>3, <2>4, <2>5 DEF TypeOK
<1> QED BY <1>2, <1>3, <1>4, <1>5, <1>8

(* The inductive invariant holds in every state of every disciplined use of *)
(* a connection (TcpConnection.cc, TcpServer.cc 39-117, Channel.cc).       *)
THEOREM Invariant == ASSUME AllDisciplined PROVE Spec => []IInv
<1>1. Init => IInv
  BY InitInv
<1>2. IInv /\ [Next]_vars => IInv'
  BY InvStep
<1> QED BY <1>1, <1>2, PTL DEF Spec

(* Every variable stays in its type. *)
THEOREM TypeCorrect == ASSUME AllDisciplined PROVE Spec => []TypeOK
BY Invariant, InvImplies, PTL

(* The peer gets what sendInLoop took, in order, nothing twice and nothing *)
(* skipped: sendInLoop's direct write, what it leaves in outputBuffer_ and *)
(* handleWrite never overtake each other (TcpConnection.cc 134-192,        *)
(* 368-406).                                                               *)
THEOREM WireIsInOrder == ASSUME AllDisciplined PROVE Spec => []WireInOrder
BY Invariant, InvImplies, PTL

(* POLLOUT is asked for exactly while there is something to write, and     *)
(* shutdownInLoop and handleWrite send the FIN behind the last byte        *)
(* (TcpConnection.cc 177-191, 205-213, 378-390).                           *)
THEOREM WritesWhatIsPending == ASSUME AllDisciplined PROVE Spec => []WritingIffPending
BY Invariant, InvImplies, PTL

(* connectionCallback_ is called for one up and then for one down, by      *)
(* handleClose or by connectDestroyed, never by both (TcpConnection.cc     *)
(* 323-345, 408-421).                                                      *)
THEOREM GoesUpThenDown == ASSUME AllDisciplined PROVE Spec => []UpThenDown
BY Invariant, InvImplies, PTL

(* No assert on the path fails, no disciplined use reaches a TcpServer     *)
(* that is gone, and a connection that connectDestroyed has left is        *)
(* disconnected and unknown to the poller, as the destructors assert       *)
(* (TcpConnection.cc 66-72, 326, 412; TcpServer.cc 106-117; Channel.cc     *)
(* 37-45, 59-64).                                                          *)
THEOREM AssertsHold == ASSUME AllDisciplined PROVE Spec => []NoAssertFails
BY Invariant, InvImplies, PTL

(* Once all that was sent is written, the writeComplete callback has run   *)
(* or is in the queue (TcpConnection.cc 157-160, 382-385).                 *)
THEOREM CompletionIsAlwaysNotified == ASSUME AllDisciplined PROVE Spec => []CompletionIsNotified
BY Invariant, InvImplies, PTL
=============================================================================

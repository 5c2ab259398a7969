------------------------- MODULE ProtobufCodecLite --------------------------
(***************************************************************************)
(* The framing of messages (muduo/net/protobuf/ProtobufCodecLite.cc, and   *)
(* RpcCodec.h for the format): a length, a tag, the message and a checksum *)
(* of tag and message.  Here a length takes kHeaderLen cells, tag and      *)
(* checksum one each, and the checksum is the list of what it covers: two  *)
(* contents never have the same.                                           *)
(***************************************************************************)
EXTENDS Buffer, FiniteSets, FiniteSetsExt

CONSTANT kMaxMessageLen

kHeaderLen == 2
kChecksumLen == 1
kMinMessageLen == 1 + kChecksumLen

(* There is room for the length in front of a message, and the messages    *)
(* fit: tag, message, one cell of arguments and checksum.                  *)
ASSUME CodecAssumption ==
  kHeaderLen <= kCheapPrepend /\ kMaxMessageLen \in Nat /\ kMinMessageLen + 2 <= kMaxMessageLen

tag_ == <<"RPC0">>
LengthCells(n) == [i \in 1..kHeaderLen |-> <<"len", n, i>>]

(* A message is one cell, followed by as many as its arguments take. *)
Serialized(m) == <<<<"msg", m>>>> \o [i \in 1..m.size |-> <<"arg">>]

(* fillEmptyBuffer: what send() puts on the wire for m. *)
Frame(m) ==
  LET body == append(append(NewBuffer, <<tag_>>), Serialized(m))
      summed == append(body, <<<<"sum", Content(body)>>>>)
  IN  Content(prepend(summed, LengthCells(readableBytes(summed))))

(* Frames that onMessage rejects, by the error they cause. *)
BadFrame(error) ==
  LET covered == <<IF error = "kUnknownMessageType" THEN <<"XXXX">> ELSE tag_, <<"bad">>>>
      sum == IF error = "kCheckSumError" THEN <<"sum", <<>>>> ELSE <<"sum", covered>>
      len == IF error = "kInvalidLength" THEN kMaxMessageLen + 1 ELSE 3
  IN  LengthCells(len) \o covered \o <<sum>>

(* peekInt32 of cells that are not a length yields no length. *)
peekInt32(b) ==
  IF \E n \in 0..kMaxMessageLen + 1 : SubSeq(Content(b), 1, kHeaderLen) = LengthCells(n)
  THEN Content(b)[1][2] ELSE 0

(* parse: checksum, then tag, then the message itself. *)
parse(cells) ==
  LET covered == SubSeq(cells, 1, Len(cells) - kChecksumLen)
      intact == cells[Len(cells)] = <<"sum", covered>>
      known == covered[1] = tag_
      message == Len(covered) > 1 /\ covered[2][1] = "msg"
  IN  CASE ~intact -> "kCheckSumError"
        [] intact /\ ~known -> "kUnknownMessageType"
        [] intact /\ known /\ ~message -> "kParseError"
        [] intact /\ known /\ message -> "kNoError"

(* One iteration of the loop of onMessage: "wait" for more, an error, or   *)
(* "kNoError" with a message to dispatch.                                  *)
Decode(b) ==
  LET len == peekInt32(b)
      some == readableBytes(b) >= kMinMessageLen + kHeaderLen
      valid == len \in kMinMessageLen..kMaxMessageLen
      whole == readableBytes(b) >= kHeaderLen + len
  IN  CASE ~some \/ (valid /\ ~whole) -> "wait"
        [] some /\ ~valid -> "kInvalidLength"
        [] some /\ valid /\ whole ->
             parse(SubSeq(Content(b), kHeaderLen + 1, kHeaderLen + len))

Message(b) == Content(b)[kHeaderLen + 2][2]

Retrieved(b) == retrieve(b, kHeaderLen + peekInt32(b))
=============================================================================

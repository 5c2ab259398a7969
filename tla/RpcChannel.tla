----------------------------- MODULE RpcChannel -----------------------------
(***************************************************************************)
(* Remote calls over one connection (muduo/net/protorpc): the caller's     *)
(* RpcChannel, used by several threads, the server's RpcChannel that       *)
(* RpcServer::onConnection makes, and the codec of both.  A connection is  *)
(* a stream of bytes each way, delivered in order in chunks of any size    *)
(* (TcpConnection promises that), until it is lost.                        *)
(***************************************************************************)
EXTENDS ProtobufCodecLite

CONSTANTS Calls,     \* one call of CallMethod each, in threads of their own
          Method,    \* [Calls -> what the server makes of the call]
          Services,  \* how the service may answer, see Use
          Chunks,    \* how many bytes may arrive at once when there are more
          Foreign    \* bad frames that may come up: pairs of sender and error

(* "ok": the service answers; otherwise onRpcMessage itself refuses. *)
Methods == {"ok", "NO_SERVICE", "NO_METHOD", "INVALID_REQUEST"}
Errors == {"kInvalidLength", "kCheckSumError", "kUnknownMessageType", "kParseError"}

(* async: the service keeps the closure it is given and runs it later, in  *)
(* a thread of its own, else before CallMethod returns.  drops: the        *)
(* connection may go down, or carry a frame that the codec did not make.   *)
Use == [async : BOOLEAN, drops : BOOLEAN]

ASSUME RpcAssumption ==
  /\ IsFiniteSet(Calls)
  /\ Method \in [Calls -> Methods]
  /\ Services \subseteq Use
  /\ Chunks \subseteq Nat \ {0}
  /\ Foreign \subseteq {"client", "server"} \X Errors

Sides == {"client", "server"}
Peer(s) == CHOOSE t \in Sides : t # s

VARIABLES
  use,          \* the use made of the channel, one of Services
  id_,          \* ids given out so far
  pc,           \* [Calls -> next step of CallMethod: "call", "insert", "send", "sent"]
  id,           \* [Calls -> the id of the call]
  outstandings_,\* the client's map from ids to calls
  answers,      \* [Calls -> what done was run with, a sequence of answers]
  channel,      \* [Sides -> the RpcChannel exists]
  closures,     \* late closures of the service: [id, arg]
  dangling,     \* a closure ran on a deleted channel
  conn,         \* [Sides -> "connected", "disconnecting" or "disconnected"]
  wire,         \* [Sides -> bytes that this side has sent, not yet delivered]
  inputBuffer_, \* [Sides -> the connection's input buffer]
  decoding,     \* [Sides -> in the loop of ProtobufCodecLite::onMessage]
  sent,         \* history: [Sides -> messages it has sent; "bad" for a bad frame]
  dispatched    \* history: [Sides -> messages its codec has dispatched]

clientVars == <<id_, pc, id, outstandings_, answers>>
serverVars == <<closures, dangling>>
netVars == <<conn, wire, inputBuffer_, decoding, sent, dispatched>>
stateVars == <<clientVars, serverVars, channel, netVars>>
vars == <<use, stateVars>>

Init ==
  /\ use \in Services
  /\ id_ = 0
  /\ pc = [c \in Calls |-> "call"]
  /\ id = [c \in Calls |-> 0]
  /\ outstandings_ = <<>>
  /\ answers = [c \in Calls |-> <<>>]
  /\ channel = [s \in Sides |-> TRUE]   \* the client's, and the one of onConnection
  /\ closures = {}
  /\ dangling = FALSE
  /\ conn = [s \in Sides |-> "connected"]
  /\ wire = [s \in Sides |-> <<>>]
  /\ inputBuffer_ = [s \in Sides |-> NewBuffer]
  /\ decoding = [s \in Sides |-> FALSE]
  /\ sent = [s \in Sides |-> <<>>]
  /\ dispatched = [s \in Sides |-> <<>>]

-----------------------------------------------------------------------------
(* The messages: the request of a call, the answer of the service, and the *)
(* answer of onRpcMessage itself.                                          *)
Request(i, c) == [type |-> "REQUEST", id |-> i, what |-> Method[c], arg |-> c, size |-> 1]
Response(i, c) == [type |-> "RESPONSE", id |-> i, what |-> "ok", arg |-> c, size |-> 0]
Refusal(i, error) == [type |-> "RESPONSE", id |-> i, what |-> error, arg |-> "none", size |-> 0]

Ids == 1..Cardinality(Calls)
Messages == {Request(i, c) : i \in Ids, c \in Calls} \cup {Response(i, c) : i \in Ids, c \in Calls}
            \cup {Refusal(i, e) : i \in Ids, e \in Methods}
FrameOf == [m \in Messages |-> Frame(m)]

(* ProtobufCodecLite::send: dropped unless the connection is up. *)
Send(s, m) ==
  IF conn[s] = "connected"
  THEN /\ wire' = [wire EXCEPT ![s] = @ \o FrameOf[m]]
       /\ sent' = [sent EXCEPT ![s] = Append(@, m)]
  ELSE UNCHANGED <<wire, sent>>

(* CallMethod, by any thread: an id, ...                                   *)

(* Faulty variant: the id is read, not incremented. *)
GetIdReads(c) ==
  /\ pc[c] = "call" /\ channel["client"]
  /\ id' = [id EXCEPT ![c] = id_ + 1]
  /\ pc' = [pc EXCEPT ![c] = "insert"]
  /\ UNCHANGED <<id_, outstandings_, answers, serverVars, channel, netVars>>

GetId(c) ==
  /\ pc[c] = "call" /\ channel["client"]
  /\ id_' = id_ + 1
  /\ id' = [id EXCEPT ![c] = id_ + 1]
  /\ pc' = [pc EXCEPT ![c] = "insert"]
  /\ UNCHANGED <<outstandings_, answers, serverVars, channel, netVars>>

(* ... the entry in outstandings_, under the mutex, ...                    *)
Insert(c) ==
  /\ pc[c] = "insert"
  /\ outstandings_' = [i \in DOMAIN outstandings_ \cup {id[c]} |->
                         IF i = id[c] THEN c ELSE outstandings_[i]]
  /\ pc' = [pc EXCEPT ![c] = "send"]
  /\ UNCHANGED <<id_, id, answers, serverVars, channel, netVars>>

(* ... and the request. *)
SendRequest(c) ==
  /\ pc[c] = "send"
  /\ Send("client", Request(id[c], c))
  /\ pc' = [pc EXCEPT ![c] = "sent"]
  /\ UNCHANGED <<id_, id, outstandings_, answers, serverVars, channel,
                 conn, inputBuffer_, decoding, dispatched>>

(* ~RpcChannel of the client, when no call is under way: the responses and *)
(* closures of the outstanding calls are deleted, done is not run.         *)
DestroyClient ==
  /\ channel["client"] /\ conn["client"] = "disconnected"
  /\ \A c \in Calls : pc[c] \in {"call", "sent"}
  /\ channel' = [channel EXCEPT !["client"] = FALSE]
  /\ outstandings_' = <<>>
  /\ UNCHANGED <<id_, pc, id, answers, serverVars, netVars>>

-----------------------------------------------------------------------------
(* onRpcMessage *)

(* A response: its call leaves outstandings_, and done runs. *)
OnResponse(m) ==
  /\ IF m.id \in DOMAIN outstandings_
     THEN /\ outstandings_' = [i \in DOMAIN outstandings_ \ {m.id} |-> outstandings_[i]]
          /\ answers' = [answers EXCEPT ![outstandings_[m.id]] = Append(@, <<m.what, m.arg>>)]
     ELSE UNCHANGED <<outstandings_, answers>>
  /\ UNCHANGED <<serverVars, wire, sent>>

(* A request: an error response, or the call of the service. *)
OnRequest(m) ==
  /\ CASE m.what # "ok" -> Send("server", Refusal(m.id, m.what)) /\ UNCHANGED closures
       [] m.what = "ok" /\ use.async ->
            closures' = closures \cup {[id |-> m.id, arg |-> m.arg]} /\ UNCHANGED <<wire, sent>>
       [] m.what = "ok" /\ ~use.async ->
            Send("server", Response(m.id, m.arg)) /\ UNCHANGED closures
  /\ UNCHANGED <<dangling, outstandings_, answers>>

(* doneCallback, in a thread of the service.  The closure holds a plain    *)
(* pointer to the server's RpcChannel, which goes with the connection; if  *)
(* it is gone nothing is promised any more, and here the answer is lost.   *)
LateDone(x) ==
  /\ x \in closures
  /\ closures' = closures \ {x}
  /\ dangling' = (dangling \/ ~channel["server"])
  /\ Send("server", Response(x.id, x.arg))
  /\ UNCHANGED <<clientVars, channel, conn, inputBuffer_, decoding, dispatched>>

-----------------------------------------------------------------------------
(* TcpConnection::handleRead: n bytes arrive, the message callback runs.   *)
Arrive(s, n) ==
  /\ ~decoding[s] /\ conn[s] # "disconnected"
  /\ n > 0 /\ n <= Len(wire[Peer(s)]) /\ n <= Readable(inputBuffer_[s])
  /\ wire' = [wire EXCEPT ![Peer(s)] = SubSeq(@, n + 1, Len(@))]
  /\ inputBuffer_' = [inputBuffer_ EXCEPT ![s] = readFd(@, SubSeq(wire[Peer(s)], 1, n))]
  /\ decoding' = [decoding EXCEPT ![s] = TRUE]
  /\ UNCHANGED <<clientVars, serverVars, channel, conn, sent, dispatched>>

(* Faulty variant: onMessage returns after one message. *)
DispatchOne(s) ==
  /\ decoding[s] /\ Decode(inputBuffer_[s]) = "kNoError"
  /\ LET m == Message(inputBuffer_[s])
     IN  /\ dispatched' = [dispatched EXCEPT ![s] = Append(@, m)]
         /\ IF m.type = "RESPONSE" THEN OnResponse(m) ELSE OnRequest(m)
  /\ inputBuffer_' = [inputBuffer_ EXCEPT ![s] = Retrieved(@)]
  /\ decoding' = [decoding EXCEPT ![s] = FALSE]
  /\ UNCHANGED <<id_, pc, id, channel, conn>>

(* ProtobufCodecLite::onMessage finds a whole message ... *)
Dispatch(s) ==
  /\ decoding[s] /\ Decode(inputBuffer_[s]) = "kNoError"
  /\ LET m == Message(inputBuffer_[s])
     IN  /\ dispatched' = [dispatched EXCEPT ![s] = Append(@, m)]
         /\ IF m.type = "RESPONSE" THEN OnResponse(m) ELSE OnRequest(m)
  /\ inputBuffer_' = [inputBuffer_ EXCEPT ![s] = Retrieved(@)]
  /\ UNCHANGED <<id_, pc, id, channel, conn, decoding>>

(* ... or has to wait for more bytes, ... *)
AwaitMore(s) ==
  /\ decoding[s] /\ Decode(inputBuffer_[s]) = "wait"
  /\ decoding' = [decoding EXCEPT ![s] = FALSE]
  /\ UNCHANGED <<clientVars, serverVars, channel, conn, wire, inputBuffer_, sent, dispatched>>

(* ... or reports an error: defaultErrorCallback shuts the connection      *)
(* down, once, and the bytes stay in the buffer.                           *)
OnError(s) ==
  /\ decoding[s] /\ Decode(inputBuffer_[s]) \in Errors
  /\ decoding' = [decoding EXCEPT ![s] = FALSE]
  /\ conn' = [conn EXCEPT ![s] = IF @ = "connected" THEN "disconnecting" ELSE @]
  /\ UNCHANGED <<clientVars, serverVars, channel, wire, inputBuffer_, sent, dispatched>>

-----------------------------------------------------------------------------
(* handleClose and RpcServer::onConnection: the server's channel goes with *)
(* the connection, the client's stays with its user.  A side sees the end  *)
(* when the connection is lost, or once all that the peer sent before its  *)
(* shutdown has arrived.                                                   *)
Close(s) ==
  /\ conn[s] # "disconnected" /\ ~decoding[s]
  /\ \/ use.drops
     \/ conn[Peer(s)] # "connected" /\ wire[Peer(s)] = <<>>
  /\ conn' = [conn EXCEPT ![s] = "disconnected"]
  /\ channel' = [channel EXCEPT !["server"] = @ /\ s # "server"]
  /\ UNCHANGED <<clientVars, serverVars, wire, inputBuffer_, decoding, sent, dispatched>>

(* Other code sends bytes of its own on the connection, once. *)
ForeignFrame(s, error) ==
  /\ use.drops /\ conn[s] = "connected"
  /\ \A t \in Sides : \A i \in DOMAIN sent[t] : sent[t][i].type # "bad"
  /\ wire' = [wire EXCEPT ![s] = @ \o BadFrame(error)]
  /\ sent' = [sent EXCEPT ![s] = Append(@, [type |-> "bad"])]
  /\ UNCHANGED <<clientVars, serverVars, channel, conn, inputBuffer_, decoding, dispatched>>

-----------------------------------------------------------------------------
CallMethod(c) == GetId(c) \/ Insert(c) \/ SendRequest(c)
Arrival(s) ==
  \E n \in Chunks \cup {Min({Len(wire[Peer(s)]), Readable(inputBuffer_[s])})} : Arrive(s, n)
onMessage(s) == Dispatch(s) \/ AwaitMore(s) \/ OnError(s)
doneCallback == \E x \in closures : LateDone(x)

Next ==
  /\ \/ \E c \in Calls : CallMethod(c)
     \/ \E s \in Sides : \/ Arrival(s) \/ onMessage(s) \/ Close(s)
     \/ \E f \in Foreign : ForeignFrame(f[1], f[2])
     \/ doneCallback \/ DestroyClient
  /\ UNCHANGED use

Spec == Init /\ [][Next]_vars

(* A call that was begun goes on, bytes on the wire arrive, a loop that is *)
(* in onMessage leaves it, and a service that was called answers.          *)
FairSpec ==
  /\ Spec
  /\ \A c \in Calls : WF_stateVars((Insert(c) \/ SendRequest(c)) /\ UNCHANGED use)
  /\ \A s \in Sides : /\ WF_stateVars(Arrival(s) /\ UNCHANGED use)
                      /\ WF_stateVars(onMessage(s) /\ UNCHANGED use)
  /\ WF_stateVars(doneCallback /\ UNCHANGED use)

-----------------------------------------------------------------------------
(* The outcome of a call, if there is any: done ran once, with the answer  *)
(* to this call's own request.  A call that is still to be answered is in  *)
(* outstandings_ exactly once, under its own id, so that its objects are   *)
(* deleted once (CallMethod, onRpcMessage and ~RpcChannel).                *)
AnsweredOnce ==
  \A c \in Calls :
    /\ Len(answers[c]) <= 1
    /\ \A i \in DOMAIN answers[c] :
         answers[c][i] = <<Method[c], IF Method[c] = "ok" THEN c ELSE "none">>
    /\ {i \in DOMAIN outstandings_ : outstandings_[i] = c} =
         IF pc[c] \in {"send", "sent"} /\ answers[c] = <<>> /\ channel["client"]
         THEN {id[c]} ELSE {}

(* "response is deleted in doneCallback" (RpcChannel.cc:136): the closure  *)
(* that onRpcMessage hands to the service finds the channel it is a method *)
(* of whenever the service runs it.                                        *)
ClosureHasChannel == ~dangling

(* However the stream is cut into chunks, the codec dispatches what the    *)
(* peer sent, in order, and nothing after a frame that it rejects          *)
(* (fillEmptyBuffer, onMessage, Buffer).                                   *)
DispatchedAsSent ==
  \A s \in Sides :
    /\ Len(dispatched[s]) <= Len(sent[Peer(s)])
    /\ \A i \in DOMAIN dispatched[s] : dispatched[s][i] = sent[Peer(s)][i]

(* While the connection lasts, every call that was begun is answered,      *)
(* however threads, chunks and late answers interleave: no response comes  *)
(* before its entry in outstandings_, no message is left in a buffer.      *)
CallsComplete ==
  \A c \in Calls :
    pc[c] # "call" ~> \/ answers[c] # <<>>
                      \/ \E s \in Sides : conn[s] # "connected"
                                       \/ \E i \in DOMAIN sent[s] : sent[s][i].type = "bad"
=============================================================================

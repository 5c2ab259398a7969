----------------------------- MODULE HttpServer -----------------------------
(***************************************************************************)
(* One connection of the HTTP server (muduo/net/http/HttpServer.cc,        *)
(* HttpContext.cc, HttpRequest.h): the incremental parser, fed with chunks *)
(* that end anywhere, and the answers.  A cell of the stream is CR, LF, or *)
(* the text of a whole line, of which only its kind matters.  The names    *)
(* differ from those of RpcChannel, beside which the module is used.       *)
(***************************************************************************)
EXTENDS Buffer, FiniteSets, FiniteSetsExt, SequencesExt

CONSTANTS Lines,        \* kinds of lines that the client sends
          MaxLines,     \* how many lines it sends
          httpCallback_ \* the user's callback, by what it makes of the close flag of
                        \* the response: [request line, flag computed -> flag it leaves]

(* Request lines: valid ones (two paths that the callback may tell apart), *)
(* one whose method is unknown, and one whose method is fine and whose     *)
(* rest is not.  Header lines: those with the field Connection, any other, *)
(* and "plain", a line without a colon that is not empty.                  *)
Valid == {"HTTP/1.1", "HTTP/1.0", "nowhere HTTP/1.1"}
RequestLines == Valid \cup {"bad method", "bad rest"}
HeaderLines == {"Connection: close", "Connection: Keep-Alive", "other: header"}
ConnectionLines == {"Connection: close", "Connection: Keep-Alive"}
LineKinds == RequestLines \cup HeaderLines \cup {"plain", ""}

ASSUME HttpAssumption ==
  /\ Lines \subseteq LineKinds /\ MaxLines \in Nat
  /\ httpCallback_ \in [Valid \X BOOLEAN -> BOOLEAN]

VARIABLES
  lines,        \* history: the lines sent by the client
  cells,        \* cells that are under way
  buf,          \* the connection's input buffer
  parsing,      \* in the loop of HttpContext::parseRequest
  state_,       \* "kExpectRequestLine", "kExpectHeaders"
  request_,     \* method_, head (path_ and version_) and the Connection header so far
  connected,    \* kConnected, as opposed to kDisconnecting
  responses,    \* responses sent: "400", or the close flag of the response
  aborted       \* the assert of HttpRequest::setMethod has failed

httpVars == <<lines, cells, buf, parsing, state_, request_, connected, responses, aborted>>

NoRequest == [method_ |-> "kInvalid", head |-> "kUnknown", connection |-> ""]

HttpInit ==
  /\ lines = <<>>
  /\ cells = <<>>
  /\ buf = NewBuffer
  /\ parsing = FALSE
  /\ state_ = "kExpectRequestLine"
  /\ request_ = NoRequest
  /\ connected = TRUE
  /\ responses = <<>>
  /\ aborted = FALSE

-----------------------------------------------------------------------------
CR == "\r"
LF == "\n"

SendLine(k) ==
  /\ Len(lines) < MaxLines
  /\ lines' = Append(lines, k)
  /\ cells' = cells \o (IF k = "" THEN <<>> ELSE <<k>>) \o <<CR, LF>>
  /\ UNCHANGED <<buf, parsing, state_, request_, connected, responses, aborted>>

(* handleRead, which the server's shutdown does not end: n cells arrive.   *)
ArriveCells(n) ==
  /\ ~parsing
  /\ n \in 1..Len(cells) /\ n <= Readable(buf)
  /\ buf' = readFd(buf, SubSeq(cells, 1, n))
  /\ cells' = SubSeq(cells, n + 1, Len(cells))
  /\ parsing' = TRUE
  /\ UNCHANGED <<lines, state_, request_, connected, responses, aborted>>

(* Faulty variant: a line ends at its CR, whether the LF has come or not. *)
crlfAtCR ==
  LET at == {i \in 1..readableBytes(buf) : Content(buf)[i] = CR}
  IN  IF at = {} THEN 0 ELSE Min(at)

crlf == findCRLF(buf, CR, LF)

Line == IF crlf = 1 THEN "" ELSE Content(buf)[1]
AfterLine == retrieve(buf, crlf + 1)

(* conn->send: nothing is sent once the connection is shut down. *)
Respond(r) == responses' = IF connected THEN Append(responses, r) ELSE responses

(* The assert of setMethod, which a line with a space in it reaches. *)
SetMethodFails == Line \notin {"plain", ""} /\ request_.method_ # "kInvalid"

(* parseRequest waits for the rest of a line. *)
AwaitLine ==
  /\ parsing /\ crlf = 0
  /\ parsing' = FALSE
  /\ UNCHANGED <<lines, cells, buf, state_, request_, connected, responses, aborted>>

(* processRequestLine succeeds. *)
GoodRequestLine ==
  /\ parsing /\ crlf > 0 /\ state_ = "kExpectRequestLine"
  /\ Line \in Valid
  /\ aborted' = SetMethodFails
  /\ request_' = [request_ EXCEPT !.method_ = "kGet", !.head = Line]
  /\ buf' = AfterLine
  /\ state_' = "kExpectHeaders"
  /\ UNCHANGED <<lines, cells, parsing, connected, responses>>

(* It fails on any other line, a header in this place too: onMessage sends *)
(* the error and shuts the connection down, and the line stays in the      *)
(* buffer.  The method is set when the fault comes behind it.              *)
BadRequestLine ==
  /\ parsing /\ crlf > 0 /\ state_ = "kExpectRequestLine"
  /\ Line \notin Valid
  /\ aborted' = SetMethodFails
  /\ request_' = [request_ EXCEPT !.method_ = IF Line = "bad rest" THEN "kGet" ELSE @]
  /\ Respond("400")
  /\ connected' = FALSE
  /\ parsing' = FALSE
  /\ UNCHANGED <<lines, cells, buf, state_>>

(* A line with a colon is a header; its last value counts. *)
AddHeader ==
  /\ parsing /\ crlf > 0 /\ state_ = "kExpectHeaders"
  /\ Line \in HeaderLines
  /\ request_' = IF Line \in ConnectionLines
                 THEN [request_ EXCEPT !.connection = Line] ELSE request_
  /\ buf' = AfterLine
  /\ UNCHANGED <<lines, cells, parsing, state_, connected, responses, aborted>>

(* onRequest: whether the response closes the connection.  The callback    *)
(* has the last word.                                                      *)
Closing(head, connection) ==
  httpCallback_[head, \/ connection = "Connection: close"
                      \/ head = "HTTP/1.0" /\ connection # "Connection: Keep-Alive"]

(* Any other line ends the request, empty or not: parseRequest returns,    *)
(* onMessage has it answered, and the context is reset.  What is left in   *)
(* the buffer stays there until more arrives.                              *)
GotAll ==
  /\ parsing /\ crlf > 0 /\ state_ = "kExpectHeaders"
  /\ Line \notin HeaderLines
  /\ LET close == Closing(request_.head, request_.connection)
     IN  /\ Respond(IF close THEN "close" ELSE "keep")
         /\ connected' = (connected /\ ~close)
  /\ buf' = AfterLine
  /\ state_' = "kExpectRequestLine"
  /\ request_' = NoRequest
  /\ parsing' = FALSE
  /\ UNCHANGED <<lines, cells, aborted>>

-----------------------------------------------------------------------------
HttpServer_onMessage == AwaitLine \/ GoodRequestLine \/ BadRequestLine \/ AddHeader \/ GotAll

HttpNext ==
  /\ ~aborted
  /\ \/ \E k \in Lines : SendLine(k)
     \/ \E n \in 1..Len(cells) : ArriveCells(n)
     \/ HttpServer_onMessage

HttpSpec == HttpInit /\ [][HttpNext]_httpVars

-----------------------------------------------------------------------------
(* What the stream of lines asks for, read as a whole.  The request that   *)
(* begins at line i ends with the first line behind it that is no header.  *)
Ends(ls, i) == {e \in i + 1..Len(ls) : ls[e] \notin HeaderLines}

Connection(ls, i, e) ==
  LET at == {j \in i + 1..e - 1 : ls[j] \in ConnectionLines}
  IN  IF at = {} THEN "" ELSE ls[Max(at)]

(* The answers to the requests from line i on, up to the first that ends   *)
(* the connection.                                                         *)
From(ls) ==
  LET from[i \in 1..Len(ls) + 1] ==
        IF i > Len(ls) THEN <<>>
        ELSE IF ls[i] \notin Valid THEN <<"400">>
        ELSE IF Ends(ls, i) = {} THEN <<>>
        ELSE LET e == Min(Ends(ls, i))
             IN  IF Closing(ls[i], Connection(ls, i, e)) THEN <<"close">>
                 ELSE <<"keep">> \o from[e + 1]
  IN  from

Expected(ls) == From(ls)[1]

(* The lines that have arrived to their last cell. *)
Arrived == SubSeq(lines, 1, Len(lines) - Cardinality({i \in DOMAIN cells : cells[i] = LF}))

(* However the stream is cut into chunks, the answers are those that the   *)
(* lines ask for when read as a whole, none twice and none out of order;   *)
(* one that is due is late only while it is a further request of a chunk,  *)
(* complete in the buffer (HttpServer::onMessage answers at most one       *)
(* request each time it is called).                                        *)
AnswersFollowStream ==
  /\ IsPrefix(responses, Expected(Arrived))
  /\ ~parsing /\ responses # Expected(Arrived) => crlf > 0

(* "assert(method_ == kInvalid);" (HttpRequest.h:55): setMethod is called  *)
(* once for a request.                                                     *)
MethodSetOnce == ~aborted
=============================================================================

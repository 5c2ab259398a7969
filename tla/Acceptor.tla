------------------------------ MODULE Acceptor ------------------------------
(***************************************************************************)
(* The descriptors of a server: the Acceptor (muduo/net/Acceptor.cc) with  *)
(* its idle descriptor, the connections TcpServer makes of what it accepts *)
(* and the poller their channels register with, in one loop, in a process  *)
(* whose other threads open and close descriptors too and whose table of   *)
(* descriptors has a limit.  A descriptor number is reused as soon as it   *)
(* is free, lowest first, and so is the memory of a connection.            *)
(***************************************************************************)
EXTENDS Integers, Sequences, FiniteSets, FiniteSetsExt

CONSTANTS Conns,      \* memory for TcpConnection objects
          MaxFd,      \* RLIMIT_NOFILE: descriptors are 0 .. MaxFd - 1
          MaxBacklog, \* clients that wait to be accepted, at most
          Interests,  \* sets of events that connections come to ask for
          Acc,        \* the Acceptor's channel
          Risks       \* what the users of the library do that it does not withstand:
                      \* "late": ask for events of a connection that is down,
                      \* "half": destroy a server that has a half-closed connection,
                      \* "unlistened": destroy a server that has not listened

(* What a descriptor is when it is not a connection. *)
Kernel == {"free", "other", "listen", "null", "refused"}

ASSUME AcceptorAssumption ==
  /\ MaxFd \in Nat /\ MaxFd > 2 /\ MaxBacklog \in Nat \ {0}
  /\ Conns \cap Kernel = {}   \* different things
  /\ Risks \subseteq {"late", "half", "unlistened"}
  /\ Acc \notin Conns /\ Interests \subseteq SUBSET {"read", "write"}
  /\ IsFiniteSet(Conns) /\ Cardinality(Conns) >= MaxFd - 1   \* memory does not run out first

EP == INSTANCE EPollPoller
PP == INSTANCE PollPoller

VARIABLES
  kind,      \* Poller::newDefaultPoller: "epoll", or "poll" if the environment asks
  poller,    \* the poller's state
  files,     \* [0..MaxFd-1 -> what the descriptor is]
  idleFd_,   \* the descriptor held in reserve, -1: none
  server,    \* the TcpServer: "alive", "closing" (in its destructor) or "destroyed"
  listenning_, \* whether the Acceptor has listened
  sockfd,    \* [channel -> its descriptor, -1: no object]
  events_,   \* [channel -> the events it asks for]
  conn,      \* [Conns -> "free", "up" (kConnected or kDisconnecting), "down" (handleClose
             \*           done) or "removed"]
  backlog,   \* clients in the accept queue of the listening socket
  turn,      \* what the loop does: "poll", "handle", "accept" or "run"
  active,    \* reported channels that are still to be handled
  dance      \* the next system call of handleRead after EMFILE, or "none"

loopVars == <<poller, sockfd, events_, conn, turn, active>>
vars == <<kind, poller, files, idleFd_, server, listenning_, sockfd, events_, conn, backlog,
          turn, active, dance>>

Channels == Conns \cup {Acc}
Listening == listenning_ /\ server = "alive"

TypeOK ==
  /\ kind \in {"epoll", "poll"}
  /\ files \in [0..MaxFd-1 -> Kernel \cup Conns]
  /\ idleFd_ \in -1..MaxFd-1
  /\ server \in {"alive", "closing", "destroyed"}
  /\ listenning_ \in BOOLEAN
  /\ sockfd \in [Channels -> -1..MaxFd-1]
  /\ events_ \in [Channels -> SUBSET {"read", "write"}]
  /\ conn \in [Conns -> {"free", "up", "down", "removed"}]
  /\ backlog \in 0..MaxBacklog
  /\ turn \in {"poll", "handle", "accept", "run"}
  /\ active \subseteq Channels
  /\ dance \in {"none", "close idle", "accept", "close accepted", "open"}

(* The constructor of Acceptor has made its two descriptors. *)
Init ==
  /\ kind \in {"epoll", "poll"}
  /\ poller = IF kind = "epoll" THEN EP!Initial(Channels) ELSE PP!Initial(Channels)
  /\ files = [f \in 0..MaxFd-1 |-> CASE f = 0 -> "listen" [] f = 1 -> "null" [] f > 1 -> "free"]
  /\ idleFd_ = 1
  /\ server = "alive"
  /\ listenning_ = FALSE
  /\ sockfd = [c \in Channels |-> IF c = Acc THEN 0 ELSE -1]
  /\ events_ = [c \in Channels |-> {}]
  /\ conn = [c \in Conns |-> "free"]
  /\ backlog = 0
  /\ turn = "run"
  /\ active = {}
  /\ dance = "none"

-----------------------------------------------------------------------------
(* The kernel's table of descriptors. *)

FreeFds == {f \in 0..MaxFd-1 : files[f] = "free"}
EMFILE == FreeFds = {}
NextFd == Min(FreeFds)

Opened(what) == [files EXCEPT ![NextFd] = what]
Closed(fs) == [f \in 0..MaxFd-1 |-> IF f \in fs THEN "free" ELSE files[f]]

(* Another thread of the process opens or closes a file of its own. *)
OpenOther ==
  /\ ~EMFILE
  /\ files' = Opened("other")
  /\ UNCHANGED <<loopVars, kind, idleFd_, server, listenning_, backlog, dance>>

CloseOther(f) ==
  /\ files[f] = "other"
  /\ files' = Closed({f})
  /\ UNCHANGED <<loopVars, kind, idleFd_, server, listenning_, backlog, dance>>

(* A client connects, or gives up before it is accepted. *)
ClientConnects ==
  /\ Listening /\ backlog < MaxBacklog
  /\ backlog' = backlog + 1
  /\ UNCHANGED <<loopVars, kind, files, idleFd_, server, listenning_, dance>>

ClientAborts ==
  /\ backlog > 0
  /\ backlog' = backlog - 1
  /\ UNCHANGED <<loopVars, kind, files, idleFd_, server, listenning_, dance>>

-----------------------------------------------------------------------------
(* Channel::update and Channel::remove, through the loop to the poller. *)

Updated(p, c, fd, e) ==
  IF kind = "epoll" THEN EP!updateChannel(p, c, fd, e) ELSE PP!updateChannel(p, c, fd, e)
Removed(p, c, fd, e) ==
  IF kind = "epoll" THEN EP!removeChannel(p, c, fd, e) ELSE PP!removeChannel(p, c, fd, e)
Constructed(p, c) ==
  IF kind = "epoll" THEN EP!Construct(p, c) ELSE PP!Construct(p, c)
WatchedBy(p) == IF kind = "epoll" THEN EP!Watched(p) ELSE PP!Watched(p)
Known(p, c) ==
  IF kind = "epoll" THEN EP!hasChannel(p, c, sockfd[c]) ELSE PP!hasChannel(p, c, sockfd[c])

SetEvents(c, e) ==
  /\ events_' = [events_ EXCEPT ![c] = e]
  /\ poller' = Updated(poller, c, sockfd[c], e)

Remove(c) ==
  /\ poller' = Removed(poller, c, sockfd[c], events_[c])
  /\ UNCHANGED events_

(* disableAll followed by remove, as in ~Acceptor and connectDestroyed. *)
Detach(c) ==
  /\ events_' = [events_ EXCEPT ![c] = {}]
  /\ poller' = LET p == Updated(poller, c, sockfd[c], {})
               IN  IF p.ok THEN Removed(p, c, sockfd[c], {}) ELSE p

-----------------------------------------------------------------------------
(* The loop.  What poll reports is level-triggered: the listening socket   *)
(* whenever a client waits, a connection whenever the network says so, for *)
(* hang-up or error even when it asks for no event.                        *)

Poll(report) ==
  /\ turn = "poll"
  /\ report \subseteq {w[2] : w \in WatchedBy(poller)}
  /\ Acc \in report <=> backlog > 0 /\ "read" \in events_[Acc]
  /\ active' = report
  /\ turn' = "handle"
  /\ UNCHANGED <<kind, poller, files, idleFd_, server, listenning_, sockfd, events_, conn, backlog, dance>>

EndHandling ==
  /\ turn = "handle" /\ active = {}
  /\ turn' = "run"
  /\ UNCHANGED <<kind, poller, files, idleFd_, server, listenning_, sockfd, events_, conn, backlog,
                 active, dance>>

(* doPendingFunctors ends once the connections that went down are gone. *)
EndTurn ==
  /\ turn = "run"
  /\ server # "closing"
  /\ \A c \in Conns : conn[c] # "down"
  /\ turn' = "poll"
  /\ UNCHANGED <<kind, poller, files, idleFd_, server, listenning_, sockfd, events_, conn, backlog,
                 active, dance>>

(* TcpServer::start: Acceptor::listen runs in the loop. *)
listen ==
  /\ turn = "run" /\ server = "alive" /\ ~listenning_
  /\ listenning_' = TRUE
  /\ SetEvents(Acc, {"read"})
  /\ UNCHANGED <<kind, files, idleFd_, server, sockfd, conn, backlog, turn, active, dance>>

-----------------------------------------------------------------------------
(* Acceptor::handleRead *)

(* accept succeeds: TcpServer::newConnection, and connectEstablished at    *)
(* once since the connection lives in the same loop.  Which free memory    *)
(* the new object gets does not matter: objects differ in nothing else.    *)
newConnection ==
  /\ turn = "handle" /\ Acc \in active
  /\ ~EMFILE /\ backlog > 0
  /\ backlog' = backlog - 1
  /\ LET c == CHOOSE x \in Conns : conn[x] = "free"
     IN  /\ files' = Opened(c)
         /\ sockfd' = [sockfd EXCEPT ![c] = NextFd]
         /\ conn' = [conn EXCEPT ![c] = "up"]
         /\ events_' = [events_ EXCEPT ![c] = {"read"}]
         /\ poller' = Updated(Constructed(poller, c), c, NextFd, {"read"})
  /\ active' = active \ {Acc}
  /\ UNCHANGED <<kind, idleFd_, server, listenning_, turn, dance>>

(* accept fails with EAGAIN: the client is gone. *)
AcceptFindsNobody ==
  /\ turn = "handle" /\ Acc \in active
  /\ ~EMFILE /\ backlog = 0
  /\ active' = active \ {Acc}
  /\ UNCHANGED <<kind, poller, files, idleFd_, server, listenning_, sockfd, events_, conn, backlog,
                 turn, dance>>

(* Faulty variant: EMFILE is only logged. *)
AcceptOnlyLogs ==
  /\ turn = "handle" /\ Acc \in active
  /\ EMFILE
  /\ active' = active \ {Acc}
  /\ UNCHANGED <<kind, poller, files, idleFd_, server, listenning_, sockfd, events_, conn, backlog,
                 turn, dance>>

(* accept fails with EMFILE: four system calls follow, and other threads   *)
(* may open and close descriptors between them.                            *)
AcceptRunsOut ==
  /\ turn = "handle" /\ Acc \in active
  /\ EMFILE
  /\ turn' = "accept"
  /\ dance' = "close idle"
  /\ active' = active \ {Acc}
  /\ UNCHANGED <<kind, poller, files, idleFd_, server, listenning_, sockfd, events_, conn, backlog>>

CloseIdle ==
  /\ dance = "close idle"
  /\ files' = Closed({idleFd_})
  /\ dance' = "accept"
  /\ UNCHANGED <<loopVars, kind, idleFd_, server, listenning_, backlog>>

(* Faulty variant: idleFd_ is not overwritten when accept fails. *)
AcceptKeepsIdleFd ==
  /\ dance = "accept"
  /\ IF ~EMFILE /\ backlog > 0
     THEN /\ idleFd_' = NextFd
          /\ files' = Opened("refused")
          /\ backlog' = backlog - 1
     ELSE UNCHANGED <<idleFd_, files, backlog>>
  /\ dance' = "close accepted"
  /\ UNCHANGED <<loopVars, kind, server, listenning_>>

AcceptOnIdle ==
  /\ dance = "accept"
  /\ IF ~EMFILE /\ backlog > 0
     THEN /\ idleFd_' = NextFd
          /\ files' = Opened("refused")
          /\ backlog' = backlog - 1
     ELSE idleFd_' = -1 /\ UNCHANGED <<files, backlog>>
  /\ dance' = "close accepted"
  /\ UNCHANGED <<loopVars, kind, server, listenning_>>

CloseAccepted ==
  /\ dance = "close accepted"
  /\ files' = Closed({idleFd_})
  /\ dance' = "open"
  /\ UNCHANGED <<loopVars, kind, idleFd_, server, listenning_, backlog>>

OpenIdle ==
  /\ dance = "open"
  /\ IF EMFILE THEN idleFd_' = -1 /\ UNCHANGED files
     ELSE idleFd_' = NextFd /\ files' = Opened("null")
  /\ dance' = "none"
  /\ turn' = "handle"
  /\ UNCHANGED <<kind, poller, server, listenning_, sockfd, events_, conn, backlog, active>>

-----------------------------------------------------------------------------
(* The connections: handlers, their own or others', and functors ask for   *)
(* other events (output starts or ends, reading stops or resumes) ...      *)

Interest(c, e) ==
  /\ conn[c] = "up" \/ ("late" \in Risks /\ conn[c] # "free")
  /\ \/ turn = "handle" /\ \E d \in active \ {Acc} : active' = active \ {d}
     \/ turn = "run" /\ server # "closing" /\ UNCHANGED active
  /\ e # events_[c]
  /\ SetEvents(c, e)
  /\ UNCHANGED <<kind, files, idleFd_, server, listenning_, sockfd, conn, backlog, turn, dance>>

(* ... or leave everything as it is; ...                                   *)
HandleOther(c) ==
  /\ turn = "handle" /\ c \in active \ {Acc}
  /\ active' = active \ {c}
  /\ UNCHANGED <<kind, poller, files, idleFd_, server, listenning_, sockfd, events_, conn, backlog,
                 turn, dance>>

(* ... handleClose: no more events, the server forgets the connection and  *)
(* queues connectDestroyed.                                                *)
handleClose(c) ==
  /\ turn = "handle" /\ c \in active
  /\ conn[c] = "up"
  /\ SetEvents(c, {})
  /\ conn' = [conn EXCEPT ![c] = "down"]
  /\ active' = active \ {c}
  /\ UNCHANGED <<kind, files, idleFd_, server, listenning_, sockfd, backlog, turn, dance>>

connectDestroyed(c) ==
  /\ turn = "run" /\ conn[c] = "down"
  /\ conn' = [conn EXCEPT ![c] = "removed"]
  /\ Remove(c)
  /\ UNCHANGED <<kind, files, idleFd_, server, listenning_, sockfd, backlog, turn, active, dance>>

(* The last TcpConnectionPtr goes, in any thread: ~Channel asserts that    *)
(* the loop has forgotten it, ~Socket closes the descriptor.               *)
Release(c) ==
  /\ conn[c] = "removed"
  /\ conn' = [conn EXCEPT ![c] = "free"]
  /\ sockfd' = [sockfd EXCEPT ![c] = -1]
  /\ files' = Closed({sockfd[c]})
  /\ poller' = [IF kind = "epoll" THEN EP!Closed(poller, sockfd[c]) ELSE poller
                EXCEPT !.ok = @ /\ ~Known(poller, c)]
  /\ UNCHANGED <<kind, idleFd_, server, listenning_, events_, backlog, turn, active, dance>>

-----------------------------------------------------------------------------
(* ~TcpServer runs in the loop's thread, outside the handling of events:   *)
(* connectDestroyed for every connection, one after the other *)

DestroyServer ==
  /\ turn = "run" /\ server = "alive"
  /\ listenning_ \/ "unlistened" \in Risks
  /\ server' = "closing"
  /\ UNCHANGED <<loopVars, kind, files, idleFd_, listenning_, backlog, dance>>

(* (which disables the channel in state kConnected only) ...               *)
MayBeConnected == IF "half" \in Risks THEN BOOLEAN ELSE {TRUE}

DestroyConnection(c) ==
  /\ server = "closing" /\ conn[c] = "up"
  /\ conn' = [conn EXCEPT ![c] = "removed"]
  /\ \E connected \in MayBeConnected : IF connected THEN Detach(c) ELSE Remove(c)
  /\ UNCHANGED <<kind, files, idleFd_, server, listenning_, sockfd, backlog, turn, active, dance>>

(* ... and then ~Acceptor with the two descriptors. *)
DestroyAcceptor ==
  /\ server = "closing"
  /\ \A c \in Conns : conn[c] # "up"
  /\ server' = "destroyed"
  /\ Detach(Acc)
  /\ files' = Closed({idleFd_, sockfd[Acc]})
  /\ idleFd_' = -1
  /\ sockfd' = [sockfd EXCEPT ![Acc] = -1]
  /\ backlog' = 0
  /\ UNCHANGED <<kind, listenning_, conn, turn, active, dance>>

-----------------------------------------------------------------------------
handleRead ==
  \/ newConnection \/ AcceptFindsNobody \/ AcceptRunsOut
  \/ CloseIdle \/ AcceptOnIdle \/ CloseAccepted \/ OpenIdle

Loop ==
  \/ \E report \in SUBSET Channels : Poll(report)
  \/ EndHandling \/ EndTurn
  \/ handleRead
  \/ \E c \in Conns : \/ HandleOther(c) \/ handleClose(c)
                      \/ connectDestroyed(c) \/ DestroyConnection(c)
  \/ DestroyAcceptor

Users ==
  \/ listen \/ DestroyServer
  \/ \E c \in Conns, e \in Interests : Interest(c, e)
  \/ \E c \in Conns : Release(c)

Others ==
  \/ OpenOther \/ (\E f \in 0..MaxFd-1 : CloseOther(f))
  \/ ClientConnects \/ ClientAborts

(* A failed assert or LOG_SYSFATAL ends the process. *)
Next == poller.ok /\ (Loop \/ Users \/ Others)

Spec == Init /\ [][Next]_vars

(* The loop's thread keeps running; nothing is assumed of anybody else.    *)
FairSpec == Spec /\ WF_vars(poller.ok /\ Loop)

-----------------------------------------------------------------------------
(* The kernel watches exactly what the channels ask for and reports it to  *)
(* the channel that owns the descriptor, though numbers and memory are     *)
(* reused and entries are swapped: every channel with events is watched    *)
(* for them, and whatever is watched belongs to a channel that still       *)
(* exists, on its descriptor, with its events (Channel::update,            *)
(* updateChannel and removeChannel of both pollers).                       *)
WatchedAsAsked ==
  poller.ok =>
    /\ \A c \in Channels : events_[c] # {} =>
         <<sockfd[c], c, events_[c]>> \in WatchedBy(poller)
    /\ \A w \in WatchedBy(poller) :
         w[1] >= 0 /\ sockfd[w[2]] = w[1] /\ events_[w[2]] = w[3]

(* Every descriptor that the server holds, and is about to close, is its   *)
(* own: no close of Acceptor::handleRead, ~Acceptor or ~Socket hits a file *)
(* that another thread opened under a reused number.                       *)
ClosesItsOwn ==
  /\ \A c \in Conns : sockfd[c] >= 0 => files[sockfd[c]] = c
  /\ sockfd[Acc] >= 0 => files[sockfd[Acc]] = "listen"
  /\ dance \in {"none", "close idle"} /\ idleFd_ >= 0 => files[idleFd_] = "null"
  /\ dance = "close accepted" /\ idleFd_ >= 0 => files[idleFd_] = "refused"

(* The asserts of Channel and of both pollers hold and epoll_ctl never     *)
(* fails (Channel.cc:40 and 61, EPollPoller.cc:119-163, PollPoller.cc:82-  *)
(* 124), for users that take none of the Risks.                            *)
AssertsHold == poller.ok

(* Clients do not wait for ever while descriptors are short: each one is   *)
(* accepted, or accepted and closed on the idle descriptor (handleRead),   *)
(* unless other threads keep taking that descriptor too.                   *)
AcceptsOrRefuses ==
  \/ []<>(backlog = 0 \/ ~Listening \/ idleFd_ = -1)
  \/ []<><<backlog' < backlog>>_vars
=============================================================================

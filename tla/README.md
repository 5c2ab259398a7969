# A TLA+ model of muduo

This directory holds a verification development of the muduo network library as
it stands in `src/muduo_server_learn/muduo-master/muduo/` (all paths below are
relative to it).  The directories `muduo_server_learn/src/NN` are earlier stages of the
same library, one per lesson, and are not modelled.

## 1. Inventory

muduo is a reactor library.  A thread runs at most one `EventLoop`; whatever
belongs to a loop is touched by its thread only, and other threads hand it
functors.  The library's difficult behaviour is almost all in that hand-over.

| Component | State | Operations | What makes it correct |
|---|---|---|---|
| `net/EventLoop` | `pendingFunctors_`, `quit_`, `looping_`, `eventHandling_`, `callingPendingFunctors_`, the wakeup eventfd | `loop`, `runInLoop`, `queueInLoop`, `quit`, `wakeup` | each functor runs once and in order; the loop never sleeps over a functor or a quit |
| `net/TimerQueue`, `Timer`, `TimerId` | `timers_` and `activeTimers_` (two indexes of one set), `cancelingTimers_`, the timerfd, heap-allocated timers | `addTimer`, `cancel`, `handleRead`, `reset` | the indexes agree, a timer has one owner, the timerfd is never late, a cancelled timer does not come back |
| `net/Channel`, `net/poller/EPollPoller`, `PollPoller` | `events_`, `index_`, `channels_`, `pollfds_` or the kernel's interest list | `enable…`, `disable…`, `remove`, `updateChannel`, `removeChannel`, `poll` | the kernel watches what the channels ask for and reports it to the right one; nothing is removed while it asks for events |
| `net/TcpConnection`, `net/TcpServer` | `state_`, `outputBuffer_`, `reading_`, the server's map | `send`, `shutdown`, `forceClose`, `start/stopRead`, the event handlers, `newConnection`, `removeConnection`, destruction | bytes in order, FIN behind them, up once and down once, destroyed once and on the right loop |
| `net/Connector`, `net/TcpClient` | two `connect_` flags, `state_`, `channel_`, `retryDelayMs_`, `connection_` | `connect`, `stop`, `disconnect`, retry, `restart`, the destructors | one attempt at a time, never given up, stop is final, nothing reaches a deleted client or connector |
| `net/EventLoopThread`, `…Pool` | `loop_` (a pointer to the thread's stack), `next_` | `startLoop`, `start`, `getNextLoop`, destructors | no loop handed out too early or used too late; start and join return |
| `base/ThreadPool` | `queue_`, `running_`, two condition variables | `start`, `run`, `take`, `stop` | no task left behind, and no submitter until `stop`; each task called once, overtaken only by tasks that other workers have popped; stop returns |
| `base/AsyncLogging`, `base/LogFile` | two front buffers, `buffers_`, two spare buffers, `running_`; the open file, when it was rolled and flushed | `append`, `threadFunc`, `start`, `stop`; `append`, `flush`, `rollFile` | lines in the files once and in order, buffers recycled, nothing appended before `stop` lost, no file opened twice |
| `net/Acceptor` | the listening socket, `listenning_`, `idleFd_` | `listen`, `handleRead`, destructor | clients are accepted or refused when descriptors run out; only its own descriptors are closed |
| `net/Buffer` | `buffer_`, `readerIndex_`, `writerIndex_` | `append`, `retrieve`, `prepend`, `unwrite`, `shrink`, `ensureWritableBytes`, `readFd` | a queue of bytes, whatever the indexes are |
| `net/protobuf/ProtobufCodecLite`, `net/protorpc` | the connection's input buffer, `id_`, `outstandings_`, closures | `send`, `onMessage`, `CallMethod`, `onRpcMessage`, `doneCallback` | messages as sent, however the stream is cut; each call answered once, with its own answer |
| `net/http` | the parser's `state_` and `request_` | `parseRequest`, `onMessage`, `onRequest` | the answers do not depend on how the stream is cut |
| `base/Condition`, `Mutex`, `CountDownLatch`, `BlockingQueue`, `BoundedBlockingQueue` | waiters, queue | wait, notify, put, take | in the users above; the two queues have no user in the library |

How they interact: `TcpServer` gives each new connection a loop of the pool; the
connection's handlers run there, and its removal travels server loop → I/O loop
as functors.  `TcpClient` owns a `Connector`, which retries with timers of the
loop.  `TimerQueue` is a channel of its loop.  The `Acceptor` of a server shares its
poller with connections, and the process's table of descriptors with everybody.
`RpcServer` and `HttpServer` are users of `TcpServer` and of a connection's input
`Buffer`.  `AsyncLogging`, with a `LogFile`, and `ThreadPool` stand apart from the loops.  What is hard to test is listed line by line under
"hazards" in `PROJECT.json`.

## 2. Modules

| Module | Models | Extends / instantiates |
|---|---|---|
| `Executor` | abstract: submitted work is begun once each, in the order of submission | – |
| `EventLoop` | `EventLoop.cc`, the poller's loop side | refines `Executor` |
| `EventLoopProofs` | the theorems about `EventLoop` and `EventLoopThreadPool` | `EventLoop`, `EventLoopThreadPool`, `SequenceTheorems`, `TLAPS` |
| `TimerQueue` | `TimerQueue.cc`, `Timer` | – |
| `TimerQueueProofs` | the theorems about `TimerQueue` | `TimerQueue`, `WellFoundedInduction`, `TLAPS` |
| `Channel` | one channel and its entry in `EPollPoller` | – |
| `EPollPoller`, `PollPoller` | the two pollers, as operators on a poller's state | – |
| `Acceptor` | `Acceptor.cc`, the connections of `TcpServer`, descriptors and their reuse | instantiates both pollers |
| `AcceptorProofs` | the theorems about `Acceptor` and both pollers | `Acceptor`, `FiniteSetTheorems`, `SequenceTheorems`, `NaturalsInduction`, `WellFoundedInduction`, `TLAPS` |
| `TcpConnection` | a connection, its server and both loops | `Channel` |
| `TcpConnectionProofs` | the theorems about `TcpConnection` | `TcpConnection`, `SequenceTheorems`, `TLAPS` |
| `Condition` | `Condition.h`: notify wakes one waiter, waiters may wake up by themselves | – |
| `ThreadPool` | `ThreadPool.cc` | `Condition`, refines `Executor` |
| `ThreadPoolProofs` | the theorems about `ThreadPool` | `ThreadPool`, `FiniteSetTheorems`, `TLAPS` |
| `LogFile` | `LogFile.cc`, `AppendFile`, as operators on a file's state | – |
| `AsyncLogging` | `AsyncLogging.cc`, `.h` | instantiates `LogFile` |
| `AsyncLoggingProofs` | the theorems about `AsyncLogging` and `LogFile` | `AsyncLogging`, `SequenceTheorems`, `TLAPS` |
| `EventLoopThreadPool` | `EventLoopThread.cc`, `EventLoopThreadPool.cc` | – |
| `Connector` | the handlers of `Connector.cc` | – |
| `TcpClient` | `TcpClient.cc`, its loop and the calls | `Connector` |
| `TcpClientProofs` | the theorems about `TcpClient` and `Connector` | `TcpClient`, `SequenceTheorems`, `TLAPS` |
| `Buffer` | `Buffer.h`, `Buffer.cc`, as operators on a buffer's state | – |
| `ProtobufCodecLite` | the framing, and one step of `onMessage` | `Buffer` |
| `RpcChannel` | `RpcChannel.cc` on both sides of a connection, `RpcServer.cc` | `ProtobufCodecLite` |
| `HttpServer` | `HttpServer.cc`, `HttpContext.cc` | `Buffer` |
| `StreamProofs` | the theorems about `Buffer`, the codec with `RpcChannel`, and `HttpServer` | `RpcChannel`, `HttpServer`, `SequenceTheorems`, `FiniteSetTheorems`, `WellFoundedInduction`, `TLAPS` |
| `MCLoops`, `MCBase`, `MCSockets`, `MCStreams` | nothing of their own: several components side by side for TLC | see section 3 |
| `MCTcpConnection`, `MCRpcChannel`, `MCHttpServer`, `MCTimerQueue` | values of constants and symmetry sets for TLC | the module named |

Conventions.  Variables and operators keep the names of the source, unless a module is used beside another one that
has the name already: then the name gets a prefix (`logRunning_` and `AsyncLogging_stop` beside `ThreadPool`, `TimerInit`
and `TimerQueue_handleRead` beside `EventLoop`, `ClientNext` beside `Acceptor`) or differs (`quits` for the `quit_` of each
loop in `EventLoopThreadPool`, `buf` in `HttpServer` for the connection's `inputBuffer_`, as `onMessage` calls it).  A step is
what the code does without giving another thread a chance to matter: a critical
section, a callback on the loop's thread between two reads of shared state, a
store to a shared flag.  An `assert` that would fail sets `aborted` (in
`TcpConnection`, `TcpClient` and `HttpServer`; `poller.ok` turns false in `Acceptor`) and stops the behaviour, so that a failing
assert is seen as the violation of an invariant.  Definitions that begin with the
comment "Faulty variant" are mutations of the definition below them, used to
check that a property can fail; no specification uses them.

**EventLoop.**  The program counter `loop` of the loop's thread follows `loop()`:
test of `quit_`, poll, one handler after the other, swap of `pendingFunctors_`,
the functors.  Each call of another thread is in two steps, the store or
`push_back` and the wakeup; user code in handlers and functors makes the same
calls.  The eventfd is a flag, and `handleRead` clears it.

**TimerQueue.**  Timers live at addresses, and `new` may return any free one, so
that reuse of a deleted timer's address happens.  Sequence numbers are global.
`handleRead` is split at each callback, since callbacks add and cancel.  Another
thread's `addTimer` is in two steps, because it reads `timer->sequence()` after
the hand-over.  A timerfd is `Disarmed` or holds the tick at which it expires.
`~TimerQueue`, which deletes what is left when `loop()` has returned, is not modelled.

**Channel and TcpConnection.**  `index_` and the kernel's registration follow
`updateChannel` and `removeChannel`.  The bytes that are sent are numbered;
`wire` is what the kernel has taken, `unread` how much of it the peer has not
read, and a write takes any amount up to the room there is.  Callbacks of the user make calls too (`…Here`), in
the loop's thread; another thread's call tests `state_`, sets it and queues its
functor in separate steps.  A behaviour begins with the choice of a use (`Uses`): which
calls are made on the loop's thread (`inside`) and by the other thread (`outside`), whether users start or stop
reading on a connection that is down (`late`: `startRead` and `stopRead` test nothing), whether the server
shares the loop, and whether it is destroyed (`serverDies`): never, in a functor or a message callback of
the connection (`"own"`), or in the handler of any channel of the loop (`"any"`).  The poller's list of active
channels is there, so that removing a channel whose event is still to be handled shows.  `Disciplined` says which
uses the library withstands; the other ones are uses of the model too (section 3).

**Acceptor, EPollPoller and PollPoller.**  `files` is the kernel's table of
descriptors; a new one gets the lowest free number, as POSIX says, so that
numbers are reused at once, and so is the memory of connections.  The four system
calls that answer `EMFILE` are four steps, and other threads open and close
files between any two of them.  The choice between the pollers is made once
(`kind`), and both go through the same life: channels registered, changed, set to no events, set
again, removed.  The interest list belongs to the kernel: it refuses a second
`EPOLL_CTL_ADD` and a `MOD` of what is not there, which ends the process.  `Risks` are the things users may do
that the code does not withstand: change the interests of a connection that is down (`"late"`), destroy the server with
half-closed connections, whose events `connectDestroyed` leaves on (`"half"`), or before it has listened
(`"unlistened"`).  The server is destroyed between two handlers here; `TcpConnection` has its destruction inside one.

**ThreadPool.**  A waiter is a member of `notEmpty_` or `notFull_`; `notify` takes
any one member out, a waiter that is out contends for the mutex with everybody
else and tests its condition again.  `take()` pops a task under the mutex and the worker calls it after releasing
it: between the two steps the task is in `popped`, other workers may pop and call later tasks, and `stop` may come.

**AsyncLogging and LogFile.**  A buffer is a sequence of at most `BufferSize` lines, the
limit of 25 buffers is `MaxBacklog`.  `output` is the `LogFile`: the lines of all its files as one
sequence, the files, each with its name (the second of its opening) and the number of its first
line, and how much was flushed.  `dropped` is what was
cut.  Every `append` to the file is a step, and the clock may tick between two, so that
files are rolled by size and by time in the middle of a batch, and in the same second.

**EventLoopThreadPool.**  The owner's program counter follows `start` and the
destructors, each thread's follows `threadFunc`.  The destructor of a thread tests `loop_` and reads it again without the
mutex, and `quit()` on it is a store and then a wakeup, while the thread may leave `loop()`, clear the pointer
and destroy its loop.  `wild` records the accesses that find no loop.  The store finds one unless a user has quit the loop
(`QuitOnLiveLoop`); the wakeup may find none in any case, as the comments at `EventLoop.cc:139` and `EventLoopThread.cc:32` admit.

**Connector and TcpClient.**  The outcomes of `connect(2)` are the three classes
that `Connector::connect` tells apart.  A stop or connect of another thread is in two steps, the
stores to the two flags and the functor; `removeConnection` is split between its
test of `connect_` and `restart()`.  `~TcpClient` runs on the loop's thread, between two
callbacks; functors hold plain pointers to the `Connector`, timers and the
client share it, and `keeper` is the timer of one second that the destructor sets.  `ClientRisks` are the two
things that nothing in the code rules out: an iteration of the loop that lasts longer than that second
(`"slowLoop"`), so that the timer runs before functors that need the `Connector`, and a client destroyed when it has just
connected (`"dtorAtOnce"`), which sets no timer although `resetChannel` is queued.

**Buffer, ProtobufCodecLite and RpcChannel.**  A cell of a buffer stands for a byte.
A frame has `kHeaderLen` cells of length, one of tag, one or more of message and
one of checksum, which is the list of what it covers.  `CallMethod` is in three steps: the id,
the entry in the map, the request.  Bytes on the wire arrive in chunks of any of the
sizes in `Chunks`, or as much as `readFd` takes at once; each turn of the loop in `onMessage` is a step.
A service answers before `CallMethod` returns, or later from a thread of its own (`async`), over a connection that lasts
or one that may be lost (`drops`), in all combinations; `dangling` records the closures that have run on a channel that
`RpcServer` had deleted.

**HttpServer.**  A line is a cell for its text, and CR and LF; chunks end anywhere.
What the stream asks for is stated once, over the whole list of lines
(`Expected`), and the incremental parser is compared with it.  The user's `httpCallback_` may set the close flag of
the response, or clear it; it is a function of the request line and the flag that was computed (`TestCallback` is that of
`http/tests/HttpServer_test.cc`); a callback that keeps state of its own is not modelled.

## 3. Runs

Every run explores its instance completely.  The bounds are the constants of its
`.cfg`.  A run may hold components that share no state: then `moves` says at the start which of them
the behaviour is about, the others stay as they were created, and the states of the parts add up instead of
multiplying.

| Run | Part | Instance | Shows |
|---|---|---|---|
| `loops` | `EventLoop` | two threads and the loop's own callbacks, three functors, a channel besides the wakeup channel | no lost wakeup; refinement of `Executor`; functors run; quit ends the loop |
| | `TimerQueue` | two timers at two addresses (an address may be reused), clock to 3, one-shot and repeating, a second thread | indexes, ownership, timerfd, cancel; timers are served |
| | `EventLoopThreadPool` | pool of three loop threads, users that quit two of the loops | hand-over, the store of `quit()`; start and join |
| `connection` | `TcpConnection` | two messages of two bytes through a socket buffer of one, in three uses: an I/O loop of its own with another thread sending and shutdown, forceClose with and without delay on the loop; the server's loop with stopRead, startRead and shutdown; the server's loop with reading stopped and started and the server destroyed in a functor or in a message callback | order, FIN, state, asserts, destruction, notification; the FIN is sent, closed connections are destroyed |
| `base` | `ThreadPool` | two workers, two submitters, four tasks, a queue of two, spurious wakeups | no stranded task or submitter; refinement of `Executor`; tasks are called and `stop` returns |
| | `AsyncLogging` | eight lines, buffers of two, a backlog over the limit of three, files rolled above three lines and every two seconds, a clock that ticks once | order, loss, recycling, rolling; a `stop()` that finds the thread waiting loses nothing, and stop returns |
| `sockets` | `Acceptor` | either poller, four descriptors (listening, idle, and two for connections or others), three objects for connections, one client waiting, three sets of events, none of the `Risks` | what is watched, what is closed, asserts; clients are accepted or refused |
| | `TcpClient` | one `connect()` from either thread, all outcomes, retries, reconnects, stop on the loop's thread, disconnect, destruction, none of the `ClientRisks` | one attempt, no failed assert, no use after delete, never given up, stop is final |
| `streams` | `RpcChannel` | two calls, one served and one refused, chunks of three cells or as much as there is, buffers of three cells that have to grow and move, a stack buffer of seven; late answers, lost connections, or both, and bad frames of all four kinds | answers, framing; calls complete |
| | `HttpServer` | four lines out of seven kinds, chunks of any size, the same buffers, the callback of the test | the answers are those of the stream |

Two timers at two addresses are the least in which an old `TimerId` meets a new timer
at its address, and two timers share a batch; three functors and two
threads are the least in which one functor is queued while another runs and a third
waits in the batch; messages longer than the socket buffer make partial writes, and
a second one is sent directly or behind a rest; a backlog of four buffers needs
seven lines and an eighth rolls a file twice in one second; with four descriptors, two connections are up
and the table is full, or one connection and one file of another thread; four lines
hold two requests, or one with a header and the start of the next, or one that was refused with input behind it.

### Where the code does otherwise than it says

Each of these runs violates one property that a comment, a test or an `assert` of
the source states; what it says and what the code does is quoted under "findings" in `PROJECT.json`.

| Run | What happens |
|---|---|
| `timer_queue_ids` | `addTimer` from another thread reads the timer after the loop may have deleted it, and may return another timer's id (`TimerQueue.h:45`) |
| `loop_threads_dtor` | `quit()` before the thread is in `loop()` is lost and the destructor never returns |
| `tcp_client_stop` | `restart()` overwrites the `connect_` that `stop()` of another thread has just cleared, and the client connects again (`Connector.h:42`) |
| `connection_late_read` | `startRead` on a connection that is down, as `examples/socks4a/tunnel.h:172` may call it, enables the channel that `connectDestroyed` removes (`Channel.cc:61`) |
| `server_sockets_unlistened` | with `MUDUO_USE_POLL`, an `Acceptor` destroyed before it listened enters its channel with no events and a descriptor that is not negated, and removes it (`PollPoller.cc:122`) |
| `rpc_late_answers` | a service answers after the connection was lost, as `examples/protobuf/resolver/server.cc:65` may: its closure runs on a channel that `RpcServer.cc:56` has deleted |
| `http_method` | a request line that was refused stays in the buffer, and input behind it makes `setMethod` fail its assert (`HttpRequest.h:55`) |

The disciplines under which the passing runs and the theorems hold are stated in the modules (`Disciplined` in
`TcpConnection`, `Risks`, `ClientRisks`, `Again` and `Outside`).  The code checks none of them, and each is needed.
These configurations, which are not part of the runs, make TLC show a failure as well (`tlc -config X.cfg M`):

| Configuration, module | Violates | What happens |
|---|---|---|
| `ConnectionOtherCloser`, `MCTcpConnection` | `ErasedOnce` | `forceClose` by another thread tests and sets `state_` in two steps; a close by the peer in between is undone, and the connection is closed and erased twice (`TcpServer.cc:113`) |
| `ConnectionHalfClosed`, `MCTcpConnection` | `RemovedUnwatched` | the server is destroyed after `shutdown`: `connectDestroyed` disables the channel in `kConnected` only and removes it with its events on (`Channel.cc:61`) |
| `ConnectionStoppedReader`, `MCTcpConnection` | `ClosedWhileOpen` | after `stopRead` on another loop than the server's the channel is out of epoll as `kDeleted`; the `disableAll` of `handleClose` registers it again, the hang-up is reported again, and `handleClose` runs a second time (`TcpConnection.cc:412`) |
| `ConnectionOtherHandler`, `MCTcpConnection` | `RemovedInactive` | the server is destroyed in the handler of another channel while events of the connection are pending: a channel in `activeChannels_` is removed (`EventLoop.cc:214`) |
| `TcpClientSlowLoop`, `TcpClient` | `DeletedWithoutChannel` | the `keeper` timer is due before the functors that use the `Connector` have run (`TcpClient.cc:100`, `Connector.cc:37`) |
| `TcpClientDtorAtOnce`, `TcpClient` | `DeletedWithoutChannel` | a client destroyed with `resetChannel` still queued takes its `Connector` along (`Connector.cc:37`) |

Further, found by changing the constant named:

* `TcpConnection`, the server destroyed and the connection on a loop of its own: the destruction always races
  with `removeConnection`, which the source calls unsafe (`TcpServer.cc:96`, `:102`).
* `Acceptor`, `"late"` or `"half"` in `Risks`: a channel is removed with its events on (`Channel.cc:61`), as above.
* `TcpClient`, `"afterDown"` in `Again`, no `enableRetry()`: the connector is still in `kConnected`
  (`Connector.cc:49`).
* `TcpClient`, `"afterStop"` in `Again`: `startInLoop` runs before the `resetChannel` that
  `stopInLoop` queued (`Connector.cc:131`).
* `TimerQueue`: a timer that an earlier callback of the same batch cancels still
  runs (`TimerQueue.cc:174`), and a cancel on the loop's thread may find nothing because the
  add of another thread is still queued.

`AnswersFollowStream` has an exception: a second request of the same chunk is not answered before more
input comes, since `HttpServer::onMessage` answers one request per call.  `AcceptsOrRefuses` has one too: once another
thread has taken the last descriptor before `idleFd_` was opened again, `idleFd_` is -1, and while it is nothing is
promised: the loop spins on a client that waits as long as the table is full (`Acceptor.cc:80-86`).

The HTTP parser also ends a request at any line without a colon, empty or not
(`HttpContext.cc:94`), and calls outstanding when an RPC connection drops are not completed: they are deleted with the channel
(`RpcChannel.cc:37`).  The model has both as they are.

## 4. Fairness

Weak fairness of a thread's steps: the scheduler runs every thread that can run,
and mutexes are granted.  Nothing relies on a spurious wakeup or on a user's
call.  Beyond that:

* `EventLoop`: the loop's thread only; poll with a time-out is not counted on (the
  wakeup has to come from the code).
* `TimerQueue`: the clock advances, and `Poll` is taken although functors keep
  coming, since a batch of functors is finite.
* `TcpConnection`: the timer of `forceCloseWithDelay` fires when the loop keeps
  coming round (strong fairness, the loop's visits to its handlers alternate with other work),
  and the peer reads.  Nothing is assumed of the peer's closing.
* `Acceptor`: the loop's thread only; nothing of clients, other threads, or the
  users that release connections.
* `RpcChannel`: a call that was begun goes on, bytes on the wire arrive, a loop in
  `onMessage` leaves it, and a service that was called answers.  That the connection
  stays up is not assumed: `CallsComplete` is about calls while it does.
* `ThreadPool`: tasks return.
* `AsyncLogging`: the time-out of `waitForSeconds`, which the code sets, comes.
* `EventLoopThreadPool`: the owner and the threads run; `loop()` leaves when `quit_`
  is set, which is what `QuitLeavesLoop` shows for `EventLoop`.

`CHECK_DEADLOCK FALSE` is said where the system may really stop: a connection that was
destroyed has nothing left to do, a client that has sent its lines or calls is content, and a
failed assert ends the process.

## 5. Proofs

`EventLoopProofs` proves, for every set of threads, functors and descriptors and
every bound on the calls:

* `TypeCorrect`, `LoopThreadIsConsistent`, `NoWakeupIsLost`: the invariants of
  `EventLoop` (the last one is checked in the run `loops`);
* `ImplementsExecutor`: every step of the loop is a step of `Executor` or leaves it
  alone.

`NoLostWakeup` is not inductive: that the loop does not poll over a functor
depends on what every thread between its `push_back` and its wakeup, and the
loop between two functors, still owe.  `Invariant` proves `IInv`, the conjunction of
`TypeOK`, `LoopThreadConsistent` and `WakeupOwed`, which says for every place of the
loop's thread who owes the wakeup: a thread that has pushed and not yet written,
the eventfd, or the swap that is still to come in this round.  The only
assumptions are those on the constants in `EventLoop`.

It also proves of `EventLoopThreadPool`, for every number of loop threads:

* `PoolTypeCorrect`;
* `LoopsAreAlive` and `QuitsLiveLoops`: its safety invariants in the run `loops`.  The second one says that of the two
  unlocked accesses of the destructor only the wakeup can find no loop, unless users quit it;
* `RoundRobinIsEven`: `getNextLoop` hands out loops evenly, for any number of calls.

The assumption is `PoolAssumption`.  The inductive invariant, `PoolInv`, ties the pointer
`loop_` of each `EventLoopThread` to the place of
its thread (`PointerInv`), the owner's progress through `start` and the destructors to
the threads it has waited for (`OwnerInv`), the loops that were quit to who quit them
(`QuitInv`), and `next_` to the number of loops handed out (`RobinInv`).

`ThreadPoolProofs` proves, for all workers, submitters and tasks (finite sets) and every
`maxQueueSize_`:

* `TypeCorrect`;
* `NoTaskIsStranded`, `NoSubmitterIsStranded`: its two invariants in the run
  `base`, about its condition variables;
* `ImplementsExecutor`: the pool refines an `Executor` whose width is the number of workers: each task is called once,
  and overtakes fewer tasks than there are workers.  This covers the pool of no threads, which
  the run does not instantiate.

The argument is a count: the queued tasks against the workers that are in
`take()` and awake, the free places against the submitters that are in `run()` and awake.
A push adds a task and, while somebody sleeps, an awake worker; a `take()`
removes one of each.  The woken thread is counted only because it is still in the
function that called `wait()`, which is `SleepersWait`, the strengthening that makes
`IInv` inductive.  The refinement uses `HandedOver`, a task is with its submitter or with
the pool, never with both, and `PoppedByWorkers`, a worker between its pop and its call holds one task and the others none of it.

`TimerQueueProofs` proves, for any threads, addresses, times, intervals and bounds:

* `TypeCorrect`;
* `IndexesAlwaysAgree`, `TimersHaveOneOwner`, `TimerfdIsNeverLate`, `CancelledStaysOut`: the four
  safety invariants of `TimerQueue` in the run `loops`.

None of the four is inductive.  An address may be reused while an old `TimerId`, a queued functor or
`cancelingTimers_` still holds it, so what identifies a timer is its sequence number:
`HeapInv` says that live timers have different ones, all of them given out.  `BatchInv` says that the entries of
the batch are live timers as they were when they expired, which is what `reset` relies on; `AddedOnce`
that one functor at most brings a timer to the loop; `DroppedInv` that a cancelled timer that is still alive is in the
batch and in `cancelingTimers_`; `InvalidIsArmed` that inside `handleRead` the timerfd is set
for a timer with the invalid time, for which `reset` will not set it.  `TimerfdIsNeverLate` needs
that a nonempty set of entries has an earliest one (the lemma `LeastOf`).

`TcpConnectionProofs` proves, for any messages, socket buffer, high-water mark and set of callbacks and
every set of disciplined uses (each theorem is stated under `AllDisciplined`; the run's three uses are such, and section 3 shows
what fails in others):

* `TypeCorrect`;
* `WireIsInOrder`, `WritesWhatIsPending`, `GoesUpThenDown`, `AssertsHold`, `CompletionIsAlwaysNotified`:
  the five safety invariants of the run `connection`.

`IInv` follows the life of the connection: `Fresh`, `Open` and `Down` tie `state_`, the channel and its entry
in the poller, the server's map, the two queues and the callbacks together before, while and after the
connection is up; in `Down` one thing at most is left to do, `removeConnectionInLoop` or `connectDestroyed`.
`QueueInv` says which functors may be queued, and that those two are queued once; `DataInv`
contains the order of the bytes; `ServerInv` that the server goes only when it has erased the
connection; `DoneInv` that `writeComplete` is queued when it is owed.  `PollInv` is the delicate one: no event is
reported for a connection that is down, although after `stopRead` the `disableAll` of `handleClose`
puts the channel back into epoll, because `connectDestroyed` is then in the batch that runs before the next poll.
Handlers run with their functor already taken off the queue, so these parts are stated of a queue and a
batch as parameters (`Good`).

`TcpClientProofs` proves, for any retry delays, any outcomes of `connect(2)`, with and without
`enableRetry()`, any number of the other calls and destruction wherever `MayDestroy` allows it:

* `TypeCorrect`;
* `AssertsHold`, `OneAttemptAtATime`, `ClientNeverGivesUp`, `StopStaysFinal`: the four safety invariants
  of `TcpClient` in the run `sockets`.

Each is stated under `Disciplined`: `connect()` is not called again (`Again = {}`), the iterations of the loop are shorter than
a second and no client is destroyed when it has just connected (`ClientRisks = {}`), and with `enableRetry()` the other thread
does not call `stop()`.  These are assumptions on users and their callbacks, which the code does not check; section 3
shows what happens without each of them.  `IInv` says
where the one attempt is (`AttemptInv`: due, waiting for its timer, being connected, connected, or to be
restarted); that the channel is on while the socket is being connected and, once off, has its `resetChannel`
queued, which runs before the next poll unless there was a stop (`ChannelInv`); what a stop has made sure of (`StopInv`);
that after `~TcpClient` the connection does without it, or the timer `keeper` outlasts the functors that
point to the `Connector` (`LifeInv`).  `RetryInv` is `NeverGivesUp`.

`AcceptorProofs` proves, for any limit on descriptors, any number of connections, any backlog, any sets of
events and either poller:

* `TypeCorrect`;
* `KernelWatchesAsAsked`, `ClosesOnlyItsOwn`, `PollerAssertsHold`: the three safety invariants of `Acceptor` in the run
  `sockets`;
* `UnlistenedFailsPollOnly`: among users who may also destroy a server that never listened, exactly those with `PollPoller`
  fail an assert.

`PollerAssertsHold` is stated for `Risks = {}`, the other theorems for `Risks \subseteq {"unlistened"}` (`Disciplined`).

`IInv` says who holds each descriptor (`FileInv`); that the four system calls that answer `EMFILE` and the
destruction of the server never meet, and the `Acceptor` is active only while it listens (`TurnInv`); which channels
ask for events (`EventInv`); and how each poller's bookkeeping matches the channels (`RegInv`): for
`EPollPoller` `channels_` and `index_` against the kernel's interest list, for `PollPoller` `index_` as the
place in `pollfds_`, whose swap with the last entry in `removeChannel` is the hardest
step.  The assumptions are those of `Acceptor`: at least three descriptors,
connections and the kernel's own files are different things, and memory for connections does not run out
before descriptors do; the proof uses the last one to show, by counting, that
`newConnection` finds a free object.

`AsyncLoggingProofs` proves, for any number of messages, size and limit of buffers, and limits on a file:

* `TypeCorrect`;
* `LinesKeepOrder`, `StopLosesNothing`: the two safety invariants of `AsyncLogging` in the run `base`.

`IInv` says where every message is: `OrderInv` that the lines in the files, in the batch that the thread writes
and in the front buffers are in order, each part before the next, and together are what was appended and not
dropped; `BatchInv` that the spare buffers are there when the code asserts it; `FileOk` that files are named by
ascending seconds; and `PromiseInv`, which the proof about `stop` needs, that what was there at a `stop()` has left the front buffers unless the
thread is still to swap them.  The assumptions are `LoggingAssumption`; that the limit is at least the two
buffers that are kept of a batch too long is what the code's 25 and 2 satisfy.

`StreamProofs` proves first that `Buffer` is a queue of bytes, for every vector, every pair of
indexes that `IsBuffer` allows (reader ≤ writer ≤ size, and `kCheapPrepend` ≤ size) and
every content; each theorem also says that `IsBuffer` is kept:

* `MakeSpaceKeepsContent`: whenever `ensureWritableBytes` calls `makeSpace` the assert
  there holds (content moves to the left only), room is made and the content stays;
* `AppendAddsBehind`, `ReadFdAddsBehind`: data is added behind the content, whichever way room
  had to be made;
* `RetrieveTakesFront`, `UnwriteTakesEnd`, `PrependAddsFront`, `ShrinkKeepsContent`: what their names say.

The argument is about positions: `Overwritten` is characterised cell by cell, and the content as
the cells between the indexes; the theorems follow by comparing cells.  The assumptions are that the
constants are natural numbers and that fresh memory holds some byte.

On these rests what the module says of streams.  `Framed` says of a sequence of cells that it can be cut into frames,
one for each of a list of entries; data added behind the stream, a frame taken off its front and the
position of the end of a frame are the subject of lemmas that both protocols use.

Of the codec and `RpcChannel`, for any finite set of calls, any sizes of buffers and chunks, any set of
services, those that answer late on connections that are lost included, and any foreign frames:

* `RpcInvariant`;
* `CallsAnsweredOnce`, `MessagesAsSent`: the two safety invariants of `RpcChannel` in the run `streams`.

`NetInv` is the framing: what is in a side's buffer, followed by what is on the wire, is the frames of the
messages that its peer has sent and it has not dispatched.  So the length that `onMessage` reads is that of the
next frame, or of a foreign one that ends the connection.  `CallInv` says that ids are different and count the
calls begun, `MapInv` that `outstandings_` has exactly the calls that wait, and `MessageInv` that whatever the server has sent, or
a closure will send, is the answer to a request that was sent, which is why `AnswerInv` is kept when it
arrives.  That no closure runs on a deleted channel is not proved, since it does not hold (`rpc_late_answers`).  The assumptions
are `BufferAssumption`, `CodecAssumption` (the length fits in front of the content, and the limits on a frame leave room for a
message) and `RpcAssumption`.

Of `HttpServer`, for any sizes of buffers, any subset of the kinds of lines, any number of
lines, any cut into chunks and any `httpCallback_` that is a function of the request line and the computed flag:

* `HttpInvariant`;
* `HttpAnswersFollowStream`: the safety invariant of `HttpServer` in the run `streams`;
* `SetMethodFailsAfterRefusal`: the assert that the run `http_method` violates fails only for a line that was refused behind
  its method, on a connection that is shut down.

The assumptions are `BufferAssumption` and `HttpAssumption`.  `HttpInv` says that there are a number `p` of lines
taken and a line `s` at which the current request began, such that the buffer and the wire hold the lines after `p` (`StreamAt`), the parser has kept of the
request what the lines from `s` to `p` say (`RequestAt`), and the answers so far, followed by what the lines from `s` on ask for,
are what the whole stream asks for, for every stream that begins with these `p` lines (`AnswersAt`): what the client
sends later may complete the current request, and does not change the answers given.
`Expected` is defined by a recursive function on the lines (`From`); the lemmas `FromExists`, `FromIs` and
the ones after them show that the function exists and what it is at each kind of line, by arguments on a
least counterexample.

The inductive invariants of `TimerQueue`, `TcpConnection`, `TcpClient`, `Acceptor` and `AsyncLogging` were checked by TLC
too, as invariants of their instances.  Those of `RpcChannel` and `HttpServer` quantify over
ways to cut a stream and over streams, which TLC does not enumerate; the properties that follow from them are
checked by the run `streams`.

## 6. What is only model-checked

All liveness (`QueuedIsRun`, `QuitLeavesLoop`, `ScheduledIsServed`, `ShutdownCompletes`, `DownIsDestroyed`,
`NobodyWaitsForever`, `AppendedIsWritten`, `StopReturns`, `StartAndJoinReturn`, `AcceptsOrRefuses`, `CallsComplete`):
TLAPS does not handle fairness and `ENABLED`.  Every safety invariant of a passing run is also a theorem.  What
the recursive operators of the sequence modules (folds, `FlattenSeq`) compute for
every input is not proved, since that takes induction over data; the order of bytes, lines and functors in the
theorems above is therefore stated position by position, and frames by where they end.

Abstractions to keep in mind: microseconds are ticks; sockets' errors are one
choice; memory is sequentially consistent (the flags that threads share
are plain or atomic variables, and compilers' reordering of them is not
modelled); `shared_ptr` lifetimes are modelled where they decide something (`Acceptor`,
`TcpClient`, `RpcChannel`) and taken as long enough elsewhere, `tie()` included; one client per
loop; `TcpConnection` has one connection and its input is a flag, several connections are in
`Acceptor`, and input bytes in `RpcChannel` and `HttpServer`.

### Not modelled

Sockets and addresses (wrappers of system calls, whose outcomes are choices), the inspector, logging
and its streams, dates and time zones, process information, compression: sequential code
without state of its own, or I/O.  `BlockingQueue` and `BoundedBlockingQueue` have no user in the library;
`ThreadPool` contains the same queue with its two condition variables.  Destruction of a
`TcpClient` by another thread, which the source calls unsafe; `~TimerQueue`; what a `stop()` of `AsyncLogging` that does not
find the thread waiting leaves unwritten is promised by nobody and stated by no property.  The examples, contributions
and the earlier stages of the library under `muduo_server_learn/src`.

## 7. Plan

1. **Done**: `EventLoop`, `ThreadPool`, `EventLoopThreadPool`, `Buffer`, `TimerQueue`, `TcpConnection` with `Channel` and
   `TcpServer`, `Connector` with `TcpClient`, `Acceptor` with both pollers, `AsyncLogging` with `LogFile`, the codec
   with `RpcChannel`, `HttpServer`: modelled, checked by TLC, and their safety proved.
2. **Further modules**, should they get users: `BlockingQueue`, `BoundedBlockingQueue`.

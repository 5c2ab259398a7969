---------------------------- MODULE AsyncLogging ----------------------------
(***************************************************************************)
(* muduo::AsyncLogging (muduo/base/AsyncLogging.cc): any thread appends    *)
(* messages to a buffer under mutex_, one logging thread swaps the full    *)
(* buffers out and writes them while appending goes on, and stop() ends    *)
(* it.  A message is the number of its append; a spare buffer is empty, so *)
(* all there is to know of it is whether its pointer is set.  The logging  *)
(* thread writes to a LogFile of its own.                                  *)
(***************************************************************************)
EXTENDS Naturals, Sequences, Functions

CONSTANTS
  MaxMsgs,      \* bound on the messages
  BufferSize,   \* messages a buffer holds (kLargeBuffer)
  MaxBacklog,   \* buffers above which a batch is cut (25)
  MaxClock,     \* bound on the seconds that pass
  rollSize_, flushInterval_, checkEveryN_, kRollPerSeconds_   \* of the LogFile

ASSUME LoggingAssumption ==
  /\ MaxMsgs \in Nat /\ BufferSize \in Nat \ {0}
  /\ MaxBacklog \in Nat /\ MaxBacklog >= 2
  /\ MaxClock \in Nat /\ rollSize_ \in Nat /\ flushInterval_ \in Nat
  /\ checkEveryN_ \in Nat \ {0} /\ kRollPerSeconds_ \in Nat \ {0}

LF == INSTANCE LogFile

VARIABLES
  logRunning_, currentBuffer_, buffers_,
  nextBuffer_,              \* the pointer is set
  newBuffer1, newBuffer2,   \* these too
  buffersToWrite,
  thread,                   \* where the logging thread is
  stopper,                  \* where the thread that calls stop() is
  appended,                 \* messages appended so far
  written,                  \* how many of buffersToWrite are written
  output,                   \* the LogFile
  now,                      \* the clock, in seconds
  dropped,                  \* messages erased from a batch
  promised                  \* those appended when stop() found the thread idle

frontVars == <<currentBuffer_, nextBuffer_, buffers_, appended>>
spareVars == <<newBuffer1, newBuffer2>>
backVars == <<spareVars, buffersToWrite, written, output, dropped>>
logVars == <<logRunning_, frontVars, backVars, thread, stopper, promised, now>>

Msgs == 1 .. MaxMsgs
Notice == 0      \* the line that says "Dropped log messages"

(* The messages in a sequence of buffers. *)
In(bs) == UNION {Range(bs[k]) : k \in DOMAIN bs}

LogTypeOK ==
  /\ logRunning_ \in BOOLEAN /\ nextBuffer_ \in BOOLEAN
  /\ newBuffer1 \in BOOLEAN /\ newBuffer2 \in BOOLEAN
  /\ currentBuffer_ \in Seq(Msgs) /\ Len(currentBuffer_) <= BufferSize
  /\ buffers_ \in Seq(Seq(Msgs))
  /\ buffersToWrite \in Seq(Seq(Msgs))
  /\ thread \in {"new", "begin", "open", "check", "lock", "wait", "swap", "cut",
                 "write", "done"}
  /\ stopper \in {"no", "notify", "join", "returned"}
  /\ appended \in 0 .. MaxMsgs
  /\ written \in 0 .. Len(buffersToWrite)
  /\ output \in LF!LogFiles
  /\ now \in 1 .. MaxClock + 1
  /\ dropped \subseteq Msgs
  /\ promised \in 0 .. MaxMsgs

LogInit ==
  /\ logRunning_ = FALSE
  /\ currentBuffer_ = <<>> /\ nextBuffer_ = TRUE /\ buffers_ = <<>>
  /\ newBuffer1 = TRUE /\ newBuffer2 = TRUE /\ buffersToWrite = <<>>
  /\ written = 0 /\ now = 1
  /\ thread = "new" /\ stopper = "no"
  /\ appended = 0 /\ output = LF!NoFile /\ dropped = {} /\ promised = 0

-----------------------------------------------------------------------------
(* cond_.notify(): the logging thread is the only one that ever waits. *)
Notified == IF thread = "wait" THEN "swap" ELSE thread

hasRoom == Len(currentBuffer_) < BufferSize

append ==
  /\ appended < MaxMsgs
  /\ appended' = appended + 1
  /\ IF hasRoom
     THEN /\ currentBuffer_' = Append(currentBuffer_, appended + 1)
          /\ UNCHANGED <<buffers_, nextBuffer_, thread>>
     ELSE /\ buffers_' = Append(buffers_, currentBuffer_)
          /\ currentBuffer_' = <<appended + 1>>
          /\ nextBuffer_' = FALSE
          /\ thread' = Notified
  /\ UNCHANGED <<logRunning_, backVars, stopper, promised, now>>

(* start() returns when threadFunc has counted the latch down, that is when *)
(* the thread is past "begin".                                             *)
AsyncLogging_start ==
  /\ thread = "new"
  /\ logRunning_' = TRUE
  /\ thread' = "begin"
  /\ UNCHANGED <<frontVars, backVars, stopper, promised, now>>

(* stop(): running_ = false; cond_.notify(), without the mutex; join. *)
AsyncLogging_stop ==
  /\ stopper = "no" /\ logRunning_ /\ thread # "begin"
  /\ logRunning_' = FALSE
  /\ stopper' = "notify"
  /\ promised' = IF thread \in {"lock", "wait", "swap"} THEN appended ELSE 0
  /\ UNCHANGED <<frontVars, backVars, thread, now>>

StopNotifies ==
  /\ stopper = "notify"
  /\ thread' = Notified
  /\ stopper' = "join"
  /\ UNCHANGED <<logRunning_, frontVars, backVars, promised, now>>

StopJoins ==
  /\ stopper = "join" /\ thread = "done"
  /\ stopper' = "returned"
  /\ UNCHANGED <<logRunning_, frontVars, backVars, thread, promised, now>>

-----------------------------------------------------------------------------
(* threadFunc.                                                             *)

(* latch_.countDown() *)
CountDown ==
  /\ thread = "begin"
  /\ thread' = "open"
  /\ UNCHANGED <<logRunning_, frontVars, backVars, stopper, promised, now>>

(* LogFile output *)
OpenLogFile ==
  /\ thread = "open"
  /\ output' = LF!NewLogFile(now)
  /\ thread' = "check"
  /\ UNCHANGED <<logRunning_, frontVars, spareVars, buffersToWrite, written, dropped,
                 stopper, promised, now>>

(* while (running_), and the flush behind it. *)
CheckLogRunning ==
  /\ thread = "check"
  /\ thread' = IF logRunning_ THEN "lock" ELSE "done"
  /\ output' = IF logRunning_ THEN output ELSE LF!flush(output)
  /\ UNCHANGED <<logRunning_, frontVars, spareVars, buffersToWrite, written, dropped,
                 stopper, promised, now>>

(* if (buffers_.empty()) cond_.waitForSeconds(flushInterval_) *)
Wait ==
  /\ thread = "lock"
  /\ buffers_ = <<>>
  /\ thread' = "wait"
  /\ UNCHANGED <<logRunning_, frontVars, backVars, stopper, promised, now>>

(* Faulty variant: the wait has no timeout. *)
NeverTimesOut ==
  /\ FALSE
  /\ UNCHANGED logVars

(* flushInterval_ is over, or the wakeup is spurious. *)
Timeout ==
  /\ thread = "wait"
  /\ thread' = "swap"
  /\ UNCHANGED <<logRunning_, frontVars, backVars, stopper, promised, now>>

(* In the critical section, past the wait. *)
MaySwap == thread = "swap" \/ (thread = "lock" /\ buffers_ # <<>>)

(* Faulty variant: a stopped logger leaves without a last look. *)
SwapUnlessStopped ==
  /\ MaySwap
  /\ IF logRunning_
     THEN /\ buffersToWrite' = Append(buffers_, currentBuffer_)
          /\ buffers_' = <<>>
          /\ currentBuffer_' = <<>> /\ newBuffer1' = FALSE
          /\ nextBuffer_' = (nextBuffer_ \/ newBuffer2)
          /\ newBuffer2' = (newBuffer2 /\ nextBuffer_)
          /\ thread' = "cut"
     ELSE /\ thread' = "done"
          /\ UNCHANGED <<buffersToWrite, buffers_, currentBuffer_, newBuffer1,
                         newBuffer2, nextBuffer_>>
  /\ UNCHANGED <<logRunning_, appended, written, output, dropped, stopper,
                 promised, now>>

(* The rest of the critical section: what is filled and the current buffer *)
(* go out, the spare ones come in.                                         *)
Swap ==
  /\ MaySwap
  /\ buffersToWrite' = Append(buffers_, currentBuffer_)
  /\ buffers_' = <<>>
  /\ currentBuffer_' = <<>> /\ newBuffer1' = FALSE
  /\ nextBuffer_' = (nextBuffer_ \/ newBuffer2)
  /\ newBuffer2' = (newBuffer2 /\ nextBuffer_)
  /\ thread' = "cut"
  /\ UNCHANGED <<logRunning_, appended, written, output, dropped, stopper,
                 promised, now>>

(* Faulty variant: a long batch keeps its first two and last buffers. *)
CutKeepsLast ==
  IF Len(buffersToWrite) > MaxBacklog
  THEN <<buffersToWrite[1], buffersToWrite[Len(buffersToWrite)], buffersToWrite[2]>>
  ELSE buffersToWrite

(* erase(begin() + 2, end()) of a batch that is too long. *)
Cut == IF Len(buffersToWrite) > MaxBacklog THEN SubSeq(buffersToWrite, 1, 2)
                                           ELSE buffersToWrite

(* A batch that is too long is cut, with a notice in the file. *)
CutBatch ==
  /\ thread = "cut"
  /\ buffersToWrite' = Cut
  /\ output' = IF Cut = buffersToWrite THEN output
               ELSE LF!append_unlocked(output, <<Notice>>, now)
  /\ dropped' = dropped \cup (In(buffersToWrite) \ In(Cut))
  /\ thread' = "write"
  /\ UNCHANGED <<logRunning_, frontVars, spareVars, written, stopper, promised, now>>

WriteBuffer ==
  /\ thread = "write" /\ written < Len(buffersToWrite)
  /\ output' = LF!append_unlocked(output, buffersToWrite[written + 1], now)
  /\ written' = written + 1
  /\ UNCHANGED <<logRunning_, frontVars, spareVars, buffersToWrite, dropped, thread,
                 stopper, promised, now>>

(* Two of the buffers become the spare ones that are missing, taken from   *)
(* the back; the others are freed.                                         *)
Recycle ==
  /\ thread = "write" /\ written = Len(buffersToWrite)
  /\ newBuffer1' = (newBuffer1 \/ written >= 1)
  /\ newBuffer2' = (newBuffer2 \/ written >= 2)
  /\ buffersToWrite' = <<>> /\ written' = 0
  /\ output' = LF!flush(output)
  /\ thread' = "check"
  /\ UNCHANGED <<logRunning_, frontVars, dropped, stopper, promised, now>>

(* A second goes by. *)
Tick ==
  /\ now <= MaxClock
  /\ now' = now + 1
  /\ UNCHANGED <<logRunning_, frontVars, backVars, thread, stopper, promised>>

-----------------------------------------------------------------------------
ThreadStep ==
  \/ CountDown \/ OpenLogFile \/ CheckLogRunning \/ Wait \/ Timeout \/ Swap
  \/ CutBatch \/ WriteBuffer \/ Recycle

LogNext ==
  \/ append \/ AsyncLogging_start \/ AsyncLogging_stop \/ StopNotifies \/ StopJoins
  \/ ThreadStep \/ Tick

LogSpec == LogInit /\ [][LogNext]_logVars

(* The logging thread is scheduled and its timed wait ends; a call of      *)
(* stop() goes on.                                                         *)
LogFairSpec == LogSpec /\ WF_logVars(ThreadStep) /\ WF_logVars(StopNotifies \/ StopJoins)

-----------------------------------------------------------------------------
(* What is in the files, what the thread has yet to write, and what it has *)
(* yet to fetch.                                                           *)
InFile == Range(output.lines) \ {Notice}
Batch == SubSeq(buffersToWrite, written + 1, Len(buffersToWrite))
Front == Append(buffers_, currentBuffer_)

(* Every message of S comes before every message of T. *)
Before(S, T) == \A x \in S, y \in T : x < y

Ordered(lines) ==
  \A i, j \in DOMAIN lines :
    i < j /\ lines[i] # Notice /\ lines[j] # Notice => lines[i] < lines[j]
AllOrdered(bs) ==
  /\ \A k \in DOMAIN bs : Ordered(bs[k])
  /\ \A k, l \in DOMAIN bs : k < l => Before(Range(bs[k]), Range(bs[l]))

(* The asserts of threadFunc: both spare buffers are there when an         *)
(* iteration begins, the one that append may need is refilled from the     *)
(* batch, and the batch is never empty when it is needed.                  *)
SpareBuffersReturn ==
  /\ thread \in {"check", "lock", "wait", "swap"} =>
       newBuffer1 /\ newBuffer2 /\ buffersToWrite = <<>>
  /\ thread \in {"cut", "write"} => Len(Cut) >= IF newBuffer2 THEN 1 ELSE 2
  /\ buffers_ = <<>> => nextBuffer_

(* The files, followed by what is still in buffers, hold every message     *)
(* that was appended and not dropped, once each and in the order of the    *)
(* appends, in whatever second files are rolled; no file is opened twice   *)
(* (append, threadFunc, LogFile::append_unlocked).  The buffers themselves *)
(* come back, too.                                                         *)
NothingLostOrReordered ==
  /\ Ordered(output.lines) /\ AllOrdered(Batch) /\ AllOrdered(Front)
  /\ Before(InFile, In(Batch) \cup In(Front)) /\ Before(In(Batch), In(Front))
  /\ InFile \cup In(Batch) \cup In(Front) = (1 .. appended) \ dropped
  /\ \A i \in 2 .. Len(output.files) : output.files[i - 1].name < output.files[i].name
  /\ SpareBuffersReturn

OnDisk == Range(LF!OnDisk(output))

(* A stop() that finds the thread idle loses nothing appended before it:   *)
(* the thread makes one more round, and flushes, before it ends.           *)
StopWritesWhatWasThere ==
  thread = "done" => \A m \in 1 .. promised : m \in OnDisk \cup dropped

(* A message is written and flushed, or dropped, without waiting for       *)
(* another append, unless the logger is stopped.                           *)
AppendedIsWritten ==
  \A m \in Msgs :
    (logRunning_ /\ appended >= m)
      ~> (~logRunning_ \/ m \in OnDisk \cup dropped)

(* stop() returns, though its notify may come when the thread is just      *)
(* about to wait.                                                          *)
StopReturns == stopper = "notify" ~> stopper = "returned"
=============================================================================

------------------------------- MODULE LogFile -------------------------------
(***************************************************************************)
(* muduo::LogFile and the AppendFile behind it (muduo/base/LogFile.cc,     *)
(* FileUtil.cc), not shared between threads, as operators on its state.    *)
(* The name of a file is the second in which it was opened, a line counts  *)
(* for a byte, and now is what time(NULL) returns.  The lines of all files *)
(* are one sequence, and a file has the lines from its first on, up to the *)
(* first of the next file.                                                 *)
(***************************************************************************)
EXTENDS Naturals, Sequences

CONSTANTS rollSize_,        \* lines above which a file is rolled
          flushInterval_,
          checkEveryN_,     \* appends between two looks at the clock
          kRollPerSeconds_  \* the period after which a file is rolled

LogFiles ==
  [files : Seq([name : Nat, first : Nat]), lines : Seq(Nat), flushed : Nat,
   count_ : Nat, startOfPeriod_ : Nat, lastRoll_ : Nat, lastFlush_ : Nat]

(* fflush: everything so far is out of the process. *)
flush(l) == [l EXCEPT !.flushed = Len(l.lines)]
OnDisk(l) == SubSeq(l.lines, 1, l.flushed)

Period(now) == (now \div kRollPerSeconds_) * kRollPerSeconds_

(* The old file is closed, which flushes it, unless it was opened in this  *)
(* very second: then there is no other name for a new one.                 *)
rollFile(l, now) ==
  IF now > l.lastRoll_
  THEN [flush(l) EXCEPT !.lastRoll_ = now, !.lastFlush_ = now,
                        !.startOfPeriod_ = Period(now),
                        !.files = Append(@, [name |-> now, first |-> Len(l.lines) + 1])]
  ELSE l

NoFile ==
  [files |-> <<>>, lines |-> <<>>, flushed |-> 0, count_ |-> 0,
   startOfPeriod_ |-> 0, lastRoll_ |-> 0, lastFlush_ |-> 0]

NewLogFile(now) == rollFile(NoFile, now)

append_unlocked(l, lines, now) ==
  LET written == [l EXCEPT !.lines = @ \o lines]
      counted == [written EXCEPT !.count_ = IF @ + 1 >= checkEveryN_ THEN 0 ELSE @ + 1]
      full    == Len(written.lines) - (l.files[Len(l.files)].first - 1) > rollSize_
      looks   == counted.count_ = 0
      over    == Period(now) # l.startOfPeriod_
  IN  CASE full -> rollFile(written, now)
        [] ~full /\ looks /\ over -> rollFile(counted, now)
        [] ~full /\ looks /\ ~over /\ now - l.lastFlush_ > flushInterval_ ->
             [flush(counted) EXCEPT !.lastFlush_ = now]
        [] OTHER -> counted
=============================================================================

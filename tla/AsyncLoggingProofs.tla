------------------------- MODULE AsyncLoggingProofs -------------------------
(***************************************************************************)
(* Theorems about AsyncLogging and its LogFile, for any number of messages *)
(* and any sizes, limits and intervals: no message is lost, repeated or    *)
(* out of order, the buffers come back, no file is opened twice, and stop  *)
(* writes what was there.                                                  *)
(***************************************************************************)
EXTENDS AsyncLogging, SequenceTheorems, TLAPS

(* What is right about a log file l at the second t: no name is used twice, *)
(* since the last file was opened at lastRoll_, which is not to come.      *)
FileOk(l, t) ==
  /\ l \in LF!LogFiles
  /\ l.flushed <= Len(l.lines)
  /\ l.lastRoll_ <= t
  /\ \A i \in DOMAIN l.files : l.files[i].name <= l.lastRoll_
  /\ \A i \in 2 .. Len(l.files) : l.files[i - 1].name < l.files[i].name

(* The messages, in order. *)
OrderInv ==
  /\ Ordered(output.lines) /\ AllOrdered(Batch) /\ AllOrdered(Front)
  /\ Before(InFile, In(Batch) \cup In(Front)) /\ Before(In(Batch), In(Front))
  /\ InFile \cup In(Batch) \cup In(Front) = (1 .. appended) \ dropped
  /\ dropped \subseteq 1 .. appended

(* The buffers that go round. *)
BatchInv ==
  /\ SpareBuffersReturn
  /\ thread \in {"new", "begin", "open"} =>
       newBuffer1 /\ newBuffer2 /\ buffersToWrite = <<>> /\ output = LF!NoFile
  /\ thread = "write" => Len(buffersToWrite) <= MaxBacklog
  /\ thread # "write" => written = 0
  /\ thread = "done" => buffersToWrite = <<>>

(* What is promised at stop() is not in the front any more once the thread *)
(* has swapped, and there is no second round.                              *)
PromiseInv ==
  /\ promised <= appended
  /\ stopper = "no" => promised = 0
  /\ stopper # "no" => ~logRunning_
  /\ thread = "new" => stopper = "no" /\ ~logRunning_
  /\ thread \notin {"lock", "wait", "swap"} => Before(1 .. promised, In(Front))
  /\ thread = "done" => output.flushed = Len(output.lines)

IInv == LogTypeOK /\ FileOk(output, now) /\ OrderInv /\ BatchInv /\ PromiseInv

-----------------------------------------------------------------------------
(* The log file.                                                           *)

LEMMA FlushOk ==
  ASSUME NEW l, NEW t \in Nat, FileOk(l, t)
  PROVE  /\ FileOk(LF!flush(l), t)
         /\ LF!flush(l).lines = l.lines
         /\ LF!flush(l).flushed = Len(l.lines)
<1>1. l.lines \in Seq(Nat) /\ Len(l.lines) \in Nat
  BY DEF FileOk, LF!LogFiles
<1> QED BY <1>1, SMTT(60) DEF FileOk, LF!LogFiles, LF!flush

LEMMA RollOk ==
  ASSUME NEW l, NEW t \in Nat, FileOk(l, t)
  PROVE  FileOk(LF!rollFile(l, t), t) /\ LF!rollFile(l, t).lines = l.lines
<1>1. CASE ~(t > l.lastRoll_)
  BY <1>1 DEF LF!rollFile
<1>2. CASE t > l.lastRoll_
  <2> DEFINE f == LF!flush(l)
             e == [name |-> t, first |-> Len(l.lines) + 1]
             r == LF!rollFile(l, t)
  <2>1. /\ f \in LF!LogFiles /\ f.lines = l.lines /\ f.flushed = Len(l.lines)
        /\ f.files = l.files
    BY FlushOk DEF FileOk, LF!flush, LF!LogFiles
  <2>2. LF!Period(t) \in Nat
    BY LoggingAssumption DEF LF!Period
  <2>3. e \in [name : Nat, first : Nat]
    BY <2>1 DEF FileOk, LF!LogFiles
  <2>4. /\ l.files \in Seq([name : Nat, first : Nat])
        /\ Append(l.files, e) \in Seq([name : Nat, first : Nat])
        /\ Len(Append(l.files, e)) = Len(l.files) + 1
        /\ Append(l.files, e)[Len(l.files) + 1] = e
        /\ \A i \in 1 .. Len(l.files) : Append(l.files, e)[i] = l.files[i]
    BY <2>3, AppendProperties DEF FileOk, LF!LogFiles
  <2>5. /\ r = [f EXCEPT !.lastRoll_ = t, !.lastFlush_ = t,
                         !.startOfPeriod_ = LF!Period(t),
                         !.files = Append(@, e)]
    BY <1>2 DEF LF!rollFile
  <2> HIDE DEF r, e, f
  <2>6. /\ r \in LF!LogFiles /\ r.lines = l.lines /\ r.flushed = Len(l.lines)
        /\ r.lastRoll_ = t /\ r.files = Append(l.files, e)
    BY <2>1, <2>2, <2>4, <2>5 DEF LF!LogFiles
  <2>7. e.name = t
    BY DEF e
  <2>11. /\ l.lastRoll_ \in Nat /\ Len(l.files) \in Nat
         /\ DOMAIN l.files = 1 .. Len(l.files)
         /\ \A i \in 1 .. Len(l.files) :
              l.files[i].name \in Nat /\ l.files[i].name <= l.lastRoll_
         /\ \A i \in 2 .. Len(l.files) : l.files[i - 1].name < l.files[i].name
    <3>1. l.lastRoll_ \in Nat /\ l.files \in Seq([name : Nat, first : Nat])
      BY DEF FileOk, LF!LogFiles
    <3>2. \A i \in 1 .. Len(l.files) : l.files[i] \in [name : Nat, first : Nat]
      BY <3>1, ElementOfSeq
    <3> QED BY <3>1, <3>2, SMTT(60) DEF FileOk
  <2>12. DOMAIN r.files = 1 .. Len(l.files) + 1 /\ Len(r.files) = Len(l.files) + 1
    BY <2>4, <2>6
  <2>13. ASSUME NEW i \in 1 .. Len(l.files) + 1
         PROVE  /\ i = Len(l.files) + 1 => r.files[i].name = t
                /\ i # Len(l.files) + 1 => r.files[i].name = l.files[i].name
    BY <2>4, <2>6, <2>7, <2>11
  <2>8. \A i \in DOMAIN r.files : r.files[i].name <= t
    BY <1>2, <2>11, <2>12, <2>13, SMTT(60)
  <2>9. \A i \in 2 .. Len(r.files) : r.files[i - 1].name < r.files[i].name
    <3> SUFFICES ASSUME NEW i \in 2 .. Len(l.files) + 1
                 PROVE  r.files[i - 1].name < r.files[i].name
      BY <2>12
    <3>1. /\ i - 1 \in 1 .. Len(l.files) + 1 /\ i - 1 # Len(l.files) + 1
          /\ i \in 1 .. Len(l.files) + 1
      BY <2>11
    <3>2. r.files[i - 1].name = l.files[i - 1].name
      BY <2>13, <3>1
    <3>3. CASE i = Len(l.files) + 1
      <4>1. l.files[i - 1].name <= l.lastRoll_ /\ l.files[i - 1].name \in Nat
        BY <2>11, <3>3
      <4> QED BY <1>2, <2>11, <2>13, <3>1, <3>2, <3>3, <4>1
    <3>4. CASE i # Len(l.files) + 1
      <4>1. i \in 2 .. Len(l.files)
        BY <2>11, <3>4
      <4> QED BY <2>11, <2>13, <3>1, <3>2, <3>4, <4>1
    <3> QED BY <3>3, <3>4
  <2>10. Len(l.lines) \in Nat
    BY DEF FileOk, LF!LogFiles
  <2> QED BY <2>6, <2>8, <2>9, <2>10, SMTT(60) DEF FileOk, r
<1> QED BY <1>1, <1>2 DEF FileOk, LF!LogFiles

LEMMA AppendOk ==
  ASSUME NEW l, NEW t \in Nat, NEW ls \in Seq(Nat), FileOk(l, t)
  PROVE  /\ FileOk(LF!append_unlocked(l, ls, t), t)
         /\ LF!append_unlocked(l, ls, t).lines = l.lines \o ls
<1> DEFINE w == [l EXCEPT !.lines = @ \o ls]
           c == [w EXCEPT !.count_ = IF @ + 1 >= checkEveryN_ THEN 0 ELSE @ + 1]
<1>1. /\ l.lines \o ls \in Seq(Nat) /\ Len(l.lines) <= Len(l.lines \o ls)
      /\ Len(l.lines \o ls) \in Nat /\ Len(l.lines) \in Nat
  BY ConcatProperties DEF FileOk, LF!LogFiles
<1>2. FileOk(w, t) /\ w.lines = l.lines \o ls
  <2>1. /\ w \in LF!LogFiles /\ w.lines = l.lines \o ls
        /\ w.flushed = l.flushed /\ w.lastRoll_ = l.lastRoll_ /\ w.files = l.files
    BY <1>1 DEF FileOk, LF!LogFiles
  <2>2. w.flushed <= Len(w.lines)
    BY <1>1, <2>1, SMTT(60) DEF FileOk, LF!LogFiles
  <2> HIDE DEF w
  <2> QED BY <2>1, <2>2 DEF FileOk
<1>3. FileOk(c, t) /\ c.lines = l.lines \o ls
  <2> HIDE DEF w
  <2>1. /\ c \in LF!LogFiles /\ c.lines = w.lines
        /\ c.flushed = w.flushed /\ c.lastRoll_ = w.lastRoll_ /\ c.files = w.files
    <3> DEFINE k == IF w.count_ + 1 >= checkEveryN_ THEN 0 ELSE w.count_ + 1
    <3>1. k \in Nat
      BY <1>2, LoggingAssumption, SMTT(60) DEF FileOk, LF!LogFiles
    <3>2. c = [w EXCEPT !.count_ = k]
      OBVIOUS
    <3> HIDE DEF k, c
    <3> QED BY <1>2, <3>1, <3>2 DEF FileOk, LF!LogFiles
  <2> HIDE DEF c
  <2> QED BY <1>2, <2>1 DEF FileOk
<1>4. /\ FileOk([LF!flush(c) EXCEPT !.lastFlush_ = t], t)
      /\ [LF!flush(c) EXCEPT !.lastFlush_ = t].lines = l.lines \o ls
  <2> HIDE DEF c
  <2> QED BY <1>3, FlushOk DEF FileOk, LF!LogFiles
<1>5. \/ LF!append_unlocked(l, ls, t) = LF!rollFile(w, t)
      \/ LF!append_unlocked(l, ls, t) = LF!rollFile(c, t)
      \/ LF!append_unlocked(l, ls, t) = [LF!flush(c) EXCEPT !.lastFlush_ = t]
      \/ LF!append_unlocked(l, ls, t) = c
  BY Zenon DEF LF!append_unlocked
<1> HIDE DEF w, c
<1> QED BY <1>2, <1>3, <1>4, <1>5, RollOk

-----------------------------------------------------------------------------
(* Buffers, and the messages in them.                                      *)

LEMMA RangeOf ==
  ASSUME NEW T, NEW s \in Seq(T), NEW t \in Seq(T), NEW x \in T
  PROVE  /\ Range(s) \subseteq T
         /\ Range(Append(s, x)) = Range(s) \cup {x}
         /\ Range(s \o t) = Range(s) \cup Range(t)
<1>1. Range(s) \subseteq T
  BY ElementOfSeq DEF Range
<1>2. Range(Append(s, x)) = Range(s) \cup {x}
  <2>1. /\ DOMAIN Append(s, x) = 1 .. Len(s) + 1 /\ DOMAIN s = 1 .. Len(s)
        /\ Append(s, x)[Len(s) + 1] = x /\ Len(s) \in Nat
        /\ \A i \in 1 .. Len(s) : Append(s, x)[i] = s[i]
    BY AppendProperties
  <2> QED BY <2>1 DEF Range
<1>3. Range(s \o t) = Range(s) \cup Range(t)
  <2>1. /\ DOMAIN (s \o t) = 1 .. Len(s) + Len(t)
        /\ DOMAIN s = 1 .. Len(s) /\ DOMAIN t = 1 .. Len(t)
        /\ Len(s) \in Nat /\ Len(t) \in Nat
        /\ \A i \in 1 .. Len(s) : (s \o t)[i] = s[i]
        /\ \A i \in Len(s) + 1 .. Len(s) + Len(t) : (s \o t)[i] = t[i - Len(s)]
    BY ConcatProperties
  <2>2. ASSUME NEW y \in Range(s \o t)
        PROVE  y \in Range(s) \cup Range(t)
    <3>1. PICK i \in 1 .. Len(s) + Len(t) : y = (s \o t)[i]
      BY <2>1, <2>2 DEF Range
    <3>2. CASE i \in 1 .. Len(s)
      BY <2>1, <3>1, <3>2 DEF Range
    <3>3. CASE i \notin 1 .. Len(s)
      <4>1. i \in Len(s) + 1 .. Len(s) + Len(t) /\ i - Len(s) \in 1 .. Len(t)
        BY <2>1, <3>3
      <4> QED BY <2>1, <3>1, <4>1 DEF Range
    <3> QED BY <3>2, <3>3
  <2>3. ASSUME NEW y \in Range(s)
        PROVE  y \in Range(s \o t)
    <3>1. PICK i \in 1 .. Len(s) : y = s[i]
      BY <2>1, <2>3 DEF Range
    <3>2. i \in 1 .. Len(s) + Len(t)
      BY <2>1
    <3> QED BY <2>1, <3>1, <3>2 DEF Range
  <2>4. ASSUME NEW y \in Range(t)
        PROVE  y \in Range(s \o t)
    <3>1. PICK i \in 1 .. Len(t) : y = t[i]
      BY <2>1, <2>4 DEF Range
    <3>2. /\ i + Len(s) \in Len(s) + 1 .. Len(s) + Len(t)
          /\ i + Len(s) \in 1 .. Len(s) + Len(t) /\ (i + Len(s)) - Len(s) = i
      BY <2>1
    <3>3. (s \o t)[i + Len(s)] = t[i]
      BY <2>1, <3>2
    <3> QED BY <2>1, <3>1, <3>2, <3>3 DEF Range
  <2> QED BY <2>2, <2>3, <2>4
<1> QED BY <1>1, <1>2, <1>3

(* A message is added at the end of a buffer. *)
LEMMA OrderedAppend ==
  ASSUME NEW s \in Seq(Msgs), NEW x \in Msgs, Ordered(s), Before(Range(s), {x})
  PROVE  Ordered(Append(s, x))
<1>1. /\ DOMAIN Append(s, x) = 1 .. Len(s) + 1 /\ DOMAIN s = 1 .. Len(s)
      /\ Append(s, x)[Len(s) + 1] = x /\ Len(s) \in Nat
      /\ \A i \in 1 .. Len(s) : Append(s, x)[i] = s[i] /\ s[i] \in Range(s)
  BY AppendProperties DEF Range
<1> SUFFICES ASSUME NEW i \in 1 .. Len(s) + 1, NEW j \in 1 .. Len(s) + 1, i < j,
                    Append(s, x)[i] # Notice, Append(s, x)[j] # Notice
             PROVE  Append(s, x)[i] < Append(s, x)[j]
  BY <1>1 DEF Ordered
<1>2. i \in 1 .. Len(s)
  BY <1>1
<1>3. CASE j = Len(s) + 1
  BY <1>1, <1>2, <1>3 DEF Before
<1>4. CASE j # Len(s) + 1
  <2>1. j \in 1 .. Len(s)
    BY <1>1, <1>4
  <2>2. Append(s, x)[i] = s[i] /\ Append(s, x)[j] = s[j]
    BY <1>1, <1>2, <2>1
  <2> QED BY <1>1, <1>2, <2>1, <2>2 DEF Ordered
<1> QED BY <1>3, <1>4

(* Lines are added to the file. *)
LEMMA OrderedConcat ==
  ASSUME NEW s \in Seq(Nat), NEW t \in Seq(Nat), Ordered(s), Ordered(t),
         Before(Range(s) \ {Notice}, Range(t) \ {Notice})
  PROVE  Ordered(s \o t)
<1>1. /\ DOMAIN (s \o t) = 1 .. Len(s) + Len(t)
      /\ DOMAIN s = 1 .. Len(s) /\ DOMAIN t = 1 .. Len(t)
      /\ Len(s) \in Nat /\ Len(t) \in Nat
      /\ \A i \in 1 .. Len(s) : (s \o t)[i] = s[i] /\ s[i] \in Range(s)
      /\ \A i \in Len(s) + 1 .. Len(s) + Len(t) : (s \o t)[i] = t[i - Len(s)]
      /\ \A i \in 1 .. Len(t) : t[i] \in Range(t)
  BY ConcatProperties DEF Range
<1> DEFINE u == s \o t
<1> SUFFICES ASSUME NEW i \in 1 .. Len(s) + Len(t), NEW j \in 1 .. Len(s) + Len(t),
                    i < j, u[i] # Notice, u[j] # Notice
             PROVE  u[i] < u[j]
  BY <1>1 DEF Ordered
<1>2. ASSUME NEW k \in 1 .. Len(s) + Len(t), k \notin 1 .. Len(s)
      PROVE  k - Len(s) \in 1 .. Len(t) /\ u[k] = t[k - Len(s)]
  <2>1. k \in Len(s) + 1 .. Len(s) + Len(t) /\ k - Len(s) \in 1 .. Len(t)
    BY <1>1, <1>2
  <2> QED BY <1>1, <2>1
<1>3. CASE i \in 1 .. Len(s) /\ j \in 1 .. Len(s)
  BY <1>1, <1>3 DEF Ordered
<1>4. CASE i \in 1 .. Len(s) /\ j \notin 1 .. Len(s)
  <2>1. u[i] \in Range(s) \ {Notice} /\ u[j] \in Range(t) \ {Notice}
    BY <1>1, <1>2, <1>4
  <2> QED BY <2>1 DEF Before
<1>5. CASE i \notin 1 .. Len(s)
  <2>1. j \notin 1 .. Len(s)
    BY <1>1, <1>5
  <2>2. i - Len(s) < j - Len(s)
    BY <1>1
  <2>3. /\ i - Len(s) \in DOMAIN t /\ u[i] = t[i - Len(s)]
        /\ j - Len(s) \in DOMAIN t /\ u[j] = t[j - Len(s)]
    BY <1>1, <1>2, <1>5, <2>1
  <2> HIDE DEF u
  <2> QED BY <2>2, <2>3 DEF Ordered
<1> QED BY <1>3, <1>4, <1>5

Buffers == Seq(Seq(Msgs))

(* A buffer is added behind others. *)
LEMMA BuffersAppend ==
  ASSUME NEW bs \in Buffers, NEW b \in Seq(Msgs)
  PROVE  /\ Append(bs, b) \in Buffers
         /\ In(Append(bs, b)) = In(bs) \cup Range(b)
         /\ AllOrdered(Append(bs, b)) <=>
              AllOrdered(bs) /\ Ordered(b) /\ Before(In(bs), Range(b))
<1> DEFINE a == Append(bs, b)
           n == Len(bs)
<1>1. /\ a \in Buffers /\ DOMAIN a = 1 .. n + 1 /\ DOMAIN bs = 1 .. n /\ n \in Nat
      /\ a[n + 1] = b /\ \A k \in 1 .. n : a[k] = bs[k]
  BY AppendProperties DEF Buffers
<1>2. 1 .. n + 1 = (1 .. n) \cup {n + 1}
  BY <1>1
<1> HIDE DEF a, n
<1>3. In(a) = In(bs) \cup Range(b)
  BY <1>1, <1>2 DEF In
<1>4. ASSUME AllOrdered(a)
      PROVE  AllOrdered(bs) /\ Ordered(b) /\ Before(In(bs), Range(b))
  <2>1. AllOrdered(bs)
    BY <1>1, <1>2, <1>4 DEF AllOrdered
  <2>2. Ordered(b)
    BY <1>1, <1>2, <1>4 DEF AllOrdered
  <2>3. \A k \in 1 .. n : Before(Range(bs[k]), Range(b))
    <3> TAKE k \in 1 .. n
    <3>1. k < n + 1 /\ k \in DOMAIN a /\ n + 1 \in DOMAIN a
      BY <1>1
    <3>2. Before(Range(a[k]), Range(a[n + 1]))
      BY <1>4, <3>1 DEF AllOrdered
    <3> QED BY <1>1, <3>2
  <2> QED BY <1>1, <2>1, <2>2, <2>3 DEF Before, In
<1>5. ASSUME AllOrdered(bs), Ordered(b), Before(In(bs), Range(b))
      PROVE  AllOrdered(a)
  <2>1. \A k \in DOMAIN a : Ordered(a[k])
    BY <1>1, <1>2, <1>5 DEF AllOrdered
  <2>2. ASSUME NEW k \in DOMAIN a, NEW l \in DOMAIN a, k < l
        PROVE  Before(Range(a[k]), Range(a[l]))
    <3>1. k \in 1 .. n /\ a[k] = bs[k]
      BY <1>1, <2>2
    <3>2. CASE l = n + 1
      BY <1>1, <1>5, <3>1, <3>2 DEF Before, In
    <3>3. CASE l # n + 1
      <4>1. l \in 1 .. n /\ a[l] = bs[l]
        BY <1>1, <3>3
      <4> QED BY <1>1, <1>5, <2>2, <3>1, <4>1 DEF AllOrdered
    <3> QED BY <3>2, <3>3
  <2> QED BY <2>1, <2>2 DEF AllOrdered
<1> QED BY <1>1, <1>3, <1>4, <1>5 DEF a

(* Buffers are taken out of the middle. *)
LEMMA PartOfSeq ==
  ASSUME NEW T, NEW bs \in Seq(T), NEW m \in Nat, NEW n \in Nat, m <= n, n <= Len(bs)
  PROVE  /\ SubSeq(bs, m + 1, n) \in Seq(T)
         /\ DOMAIN SubSeq(bs, m + 1, n) = 1 .. n - m
         /\ \A k \in 1 .. n - m : SubSeq(bs, m + 1, n)[k] = bs[m + k]
<1>1. \A k \in m + 1 .. n : bs[k] \in T
  BY ElementOfSeq
<1>2. \A k \in 1 .. n - m : m + 1 + k - 1 = m + k
  OBVIOUS
<1> QED BY <1>1, <1>2, SubSeqProperties

LEMMA PartOf ==
  ASSUME NEW bs \in Buffers, NEW m \in Nat, NEW n \in Nat, m <= n, n <= Len(bs)
  PROVE  /\ SubSeq(bs, m + 1, n) \in Buffers
         /\ DOMAIN SubSeq(bs, m + 1, n) = 1 .. n - m
         /\ \A k \in 1 .. n - m : /\ m + k \in DOMAIN bs
                                  /\ SubSeq(bs, m + 1, n)[k] = bs[m + k]
<1>1. \A k \in 1 .. n - m : m + k \in DOMAIN bs
  BY DEF Buffers
<1> DEFINE T == Seq(Msgs)
<1>2. bs \in Seq(T)
  BY DEF Buffers
<1> HIDE DEF T
<1>3. /\ SubSeq(bs, m + 1, n) \in Seq(T)
      /\ DOMAIN SubSeq(bs, m + 1, n) = 1 .. n - m
      /\ \A k \in 1 .. n - m : SubSeq(bs, m + 1, n)[k] = bs[m + k]
  BY <1>2, PartOfSeq
<1> QED BY <1>1, <1>3 DEF Buffers, T

LEMMA PartOrdered ==
  ASSUME NEW bs \in Buffers, NEW m \in Nat, NEW n \in Nat, m <= n, n <= Len(bs)
  PROVE  /\ AllOrdered(bs) => AllOrdered(SubSeq(bs, m + 1, n))
         /\ In(SubSeq(bs, m + 1, n)) \subseteq In(bs)
<1> DEFINE p == SubSeq(bs, m + 1, n)
<1>1. /\ DOMAIN p = 1 .. n - m
      /\ \A k \in 1 .. n - m : m + k \in DOMAIN bs /\ p[k] = bs[m + k]
  BY PartOf
<1>2. \A k, l \in 1 .. n - m : k < l => m + k < m + l
  OBVIOUS
<1> HIDE DEF p
<1>3. AllOrdered(bs) => AllOrdered(p)
  BY <1>1, <1>2 DEF AllOrdered
<1>4. In(p) \subseteq In(bs)
  BY <1>1 DEF In
<1> QED BY <1>3, <1>4 DEF p

(* The first of the buffers that are left is taken. *)
LEMMA TakeFirst ==
  ASSUME NEW bs \in Buffers, NEW m \in Nat, m < Len(bs)
  PROVE  LET a == SubSeq(bs, m + 1, Len(bs))
             r == SubSeq(bs, (m + 1) + 1, Len(bs))
         IN  /\ bs[m + 1] \in Seq(Msgs)
             /\ In(a) = Range(bs[m + 1]) \cup In(r)
             /\ AllOrdered(a) => /\ AllOrdered(r) /\ Ordered(bs[m + 1])
                                 /\ Before(Range(bs[m + 1]), In(r))
<1> DEFINE a == SubSeq(bs, m + 1, Len(bs))
           r == SubSeq(bs, (m + 1) + 1, Len(bs))
           n == Len(bs)
<1>1. n \in Nat /\ m + 1 <= n /\ m <= n /\ m + 1 \in Nat
  BY DEF Buffers
<1>2. /\ DOMAIN a = 1 .. n - m
      /\ \A k \in 1 .. n - m : a[k] = bs[m + k]
  BY <1>1, PartOf
<1>3. /\ DOMAIN r = 1 .. n - (m + 1)
      /\ \A k \in 1 .. n - (m + 1) : r[k] = bs[m + 1 + k]
  BY <1>1, PartOf
<1> HIDE DEF a, r, n
<1>4. bs[m + 1] \in Seq(Msgs)
  BY <1>1, ElementOfSeq DEF Buffers, n
<1>5. 1 \in 1 .. n - m /\ a[1] = bs[m + 1]
  BY <1>1, <1>2
<1>6. ASSUME NEW k \in DOMAIN r
      PROVE  k + 1 \in DOMAIN a /\ r[k] = a[k + 1] /\ 1 < k + 1
  <2>1. k \in 1 .. n - (m + 1)
    BY <1>3, <1>6
  <2>2. k + 1 \in 1 .. n - m /\ m + (k + 1) = m + 1 + k /\ 1 < k + 1
    BY <1>1, <2>1
  <2> QED BY <1>2, <1>3, <2>1, <2>2
<1>7. ASSUME NEW k \in DOMAIN a, k # 1
      PROVE  k - 1 \in DOMAIN r /\ r[k - 1] = a[k]
  <2>1. k - 1 \in 1 .. n - (m + 1) /\ m + 1 + (k - 1) = m + k
    BY <1>1, <1>2, <1>7
  <2> QED BY <1>2, <1>3, <2>1
<1>8. In(a) = Range(bs[m + 1]) \cup In(r)
  BY <1>2, <1>5, <1>6, <1>7 DEF In
<1>9. ASSUME AllOrdered(a)
      PROVE  AllOrdered(r) /\ Ordered(bs[m + 1]) /\ Before(Range(bs[m + 1]), In(r))
  <2>1. \A k, l \in DOMAIN r : k < l => k + 1 < l + 1
    BY <1>3
  <2>2. AllOrdered(r)
    BY <1>6, <1>9, <2>1 DEF AllOrdered
  <2>3. Ordered(bs[m + 1])
    BY <1>2, <1>5, <1>9 DEF AllOrdered
  <2>4. \A k \in DOMAIN r : Before(Range(bs[m + 1]), Range(r[k]))
    BY <1>2, <1>5, <1>6, <1>9 DEF AllOrdered
  <2> QED BY <2>2, <2>3, <2>4 DEF Before, In
<1> QED BY <1>4, <1>8, <1>9 DEF a, r

(* The buffers that are left of a batch that is cut. *)
LEMMA FirstTwo ==
  ASSUME NEW bs \in Buffers, Len(bs) >= 2
  PROVE  /\ SubSeq(bs, 1, 2) \in Buffers /\ Len(SubSeq(bs, 1, 2)) = 2
         /\ AllOrdered(bs) => AllOrdered(SubSeq(bs, 1, 2))
         /\ In(SubSeq(bs, 1, 2)) \subseteq In(bs)
<1> DEFINE m == 0
           n == 2
<1>1. m \in Nat /\ n \in Nat /\ m <= n /\ n <= Len(bs) /\ m + 1 = 1 /\ n - m = 2
  BY DEF Buffers
<1>2. SubSeq(bs, 1, 2) = SubSeq(bs, m + 1, n)
  OBVIOUS
<1> HIDE DEF m, n
<1>3. /\ SubSeq(bs, m + 1, n) \in Buffers /\ DOMAIN SubSeq(bs, m + 1, n) = 1 .. n - m
      /\ AllOrdered(bs) => AllOrdered(SubSeq(bs, m + 1, n))
      /\ In(SubSeq(bs, m + 1, n)) \subseteq In(bs)
  BY <1>1, PartOf, PartOrdered
<1>4. Len(SubSeq(bs, m + 1, n)) = 2
  BY <1>1, <1>3, LenProperties DEF Buffers
<1> QED BY <1>2, <1>3, <1>4

LEMMA NoBuffers ==
         /\ In(<<>>) = {} /\ AllOrdered(<<>>)
         /\ SubSeq(<<>>, 1, 0) = <<>>
         /\ \A bs \in Buffers : SubSeq(bs, Len(bs) + 1, Len(bs)) = <<>>
                                /\ SubSeq(bs, 1, Len(bs)) = bs
BY DEF In, AllOrdered, Buffers

LEMMA EmptyBuffer ==
  Range(<<>>) = {} /\ Ordered(<<>>)
BY DEF Range, Ordered

-----------------------------------------------------------------------------
(* The steps.                                                              *)

LEMMA Typed ==
  ASSUME LogTypeOK
  PROVE  /\ buffers_ \in Buffers /\ buffersToWrite \in Buffers
         /\ currentBuffer_ \in Seq(Msgs) /\ written \in Nat
         /\ Len(buffersToWrite) \in Nat /\ written <= Len(buffersToWrite)
         /\ Front \in Buffers /\ Batch \in Buffers
         /\ In(Front) = In(buffers_) \cup Range(currentBuffer_)
         /\ output.lines \in Seq(Nat) /\ now \in Nat
         /\ appended \in Nat /\ promised \in Nat
<1>1. /\ buffers_ \in Buffers /\ buffersToWrite \in Buffers
      /\ currentBuffer_ \in Seq(Msgs) /\ written \in Nat
      /\ Len(buffersToWrite) \in Nat /\ written <= Len(buffersToWrite)
      /\ now \in Nat /\ appended \in Nat /\ promised \in Nat
  BY LoggingAssumption DEF LogTypeOK, Buffers
<1>2. output.lines \in Seq(Nat)
  BY DEF LogTypeOK, LF!LogFiles
<1>3. Front \in Buffers /\ In(Front) = In(buffers_) \cup Range(currentBuffer_)
  BY <1>1, BuffersAppend DEF Front
<1>4. Len(buffersToWrite) <= Len(buffersToWrite)
  BY <1>1
<1>5. SubSeq(buffersToWrite, written + 1, Len(buffersToWrite)) \in Buffers
  BY <1>1, <1>4, PartOf, Zenon
<1>6. Batch \in Buffers
  BY <1>5 DEF Batch
<1> QED BY <1>1, <1>2, <1>3, <1>6

(* Steps that leave the messages where they are. *)
LEMMA QuietStep ==
  ASSUME IInv, LogTypeOK', UNCHANGED <<frontVars, buffersToWrite, written, dropped>>,
         output'.lines = output.lines, FileOk(output', now')
  PROVE  FileOk(output, now)' /\ OrderInv'
<1>1. Batch' = Batch /\ Front' = Front /\ InFile' = InFile
  BY DEF Batch, Front, InFile, frontVars
<1> QED BY <1>1 DEF IInv, OrderInv, frontVars, FileOk

LEMMA InitOk == LogInit => IInv
<1> SUFFICES ASSUME LogInit PROVE IInv
  OBVIOUS
<1>1. <<>> \in Seq(Msgs) /\ <<>> \in Buffers /\ <<>> \in Seq(Nat) /\ Len(<<>>) = 0
  BY DEF Buffers
<1>2. LF!NoFile \in LF!LogFiles /\ LF!NoFile.lines = <<>>
  BY DEF LF!NoFile, LF!LogFiles
<1>3. LogTypeOK
  <2>1. /\ currentBuffer_ \in Seq(Msgs) /\ Len(currentBuffer_) <= BufferSize
        /\ buffers_ \in Seq(Seq(Msgs)) /\ buffersToWrite \in Seq(Seq(Msgs))
        /\ written \in 0 .. Len(buffersToWrite)
    BY <1>1, LoggingAssumption DEF LogInit, Buffers
  <2>2. /\ appended \in 0 .. MaxMsgs /\ now \in 1 .. MaxClock + 1
        /\ promised \in 0 .. MaxMsgs /\ dropped \subseteq Msgs
    BY LoggingAssumption DEF LogInit
  <2> QED BY <1>2, <2>1, <2>2 DEF LogInit, LogTypeOK
<1>4. FileOk(output, now)
  BY <1>2 DEF LogInit, FileOk, LF!NoFile
<1>5. Batch = <<>> /\ Front = Append(<<>>, <<>>) /\ InFile = {}
  BY <1>2, NoBuffers, EmptyBuffer DEF LogInit, Batch, Front, InFile
<1>6. In(Front) = {} /\ AllOrdered(Front)
  BY <1>1, <1>5, BuffersAppend, NoBuffers, EmptyBuffer DEF Before
<1>7. OrderInv
  BY <1>2, <1>5, <1>6, NoBuffers, EmptyBuffer DEF LogInit, OrderInv, Before
<1>8. BatchInv
  BY DEF LogInit, BatchInv, SpareBuffersReturn
<1>9. PromiseInv
  BY <1>6 DEF LogInit, PromiseInv, Before
<1> QED BY <1>3, <1>4, <1>7, <1>8, <1>9 DEF IInv

LEMMA EasySteps ==
  ASSUME IInv,
         \/ AsyncLogging_start \/ AsyncLogging_stop \/ StopNotifies \/ StopJoins
         \/ CountDown \/ Wait \/ Timeout \/ Tick
  PROVE  IInv'
<1> USE DEF AsyncLogging_start, AsyncLogging_stop, StopNotifies, StopJoins, CountDown, Wait,
            Timeout, Tick, Notified
<1>1. UNCHANGED <<frontVars, backVars>>
  OBVIOUS
<1>2. LogTypeOK'
  <2>1. /\ thread' \in {"new", "begin", "open", "check", "lock", "wait", "swap", "cut",
                        "write", "done"}
        /\ stopper' \in {"no", "notify", "join", "returned"}
        /\ logRunning_' \in BOOLEAN
    BY DEF IInv, LogTypeOK
  <2>2. now' \in 1 .. MaxClock + 1 /\ promised' \in 0 .. MaxMsgs
    BY LoggingAssumption DEF IInv, LogTypeOK
  <2> QED BY <1>1, <2>1, <2>2 DEF IInv, LogTypeOK, frontVars, backVars, spareVars
<1>3. now <= now' /\ now \in Nat /\ now' \in Nat
  BY <1>2, LoggingAssumption DEF IInv, LogTypeOK
<1>4. FileOk(output', now')
  <2>1. output' = output /\ output.lastRoll_ \in Nat
    BY <1>1 DEF IInv, LogTypeOK, LF!LogFiles, backVars
  <2> QED BY <1>3, <2>1 DEF IInv, FileOk
<1>5. FileOk(output, now)' /\ OrderInv'
  BY <1>1, <1>2, <1>4, QuietStep DEF backVars
<1>6. Cut' = Cut /\ In(Front)' = In(Front)
  BY <1>1 DEF Cut, Front, frontVars, backVars
<1>7. BatchInv'
  BY <1>1, <1>6 DEF IInv, BatchInv, SpareBuffersReturn, frontVars, backVars, spareVars, LogTypeOK
<1>8. PromiseInv'
  <2>1. promised' <= appended'
    BY <1>1, LoggingAssumption DEF IInv, PromiseInv, LogTypeOK, frontVars
  <2>2. /\ stopper' = "no" => promised' = 0
        /\ stopper' # "no" => ~logRunning_'
        /\ thread' = "new" => stopper' = "no" /\ ~logRunning_'
    BY DEF IInv, PromiseInv, LogTypeOK
  <2>3. thread' \notin {"lock", "wait", "swap"} => Before(1 .. promised', In(Front)')
    <3>1. Before(1 .. 0, In(Front))
      BY DEF Before
    <3>2. CASE AsyncLogging_stop
      BY <1>6, <3>1, <3>2
    <3>3. CASE ~AsyncLogging_stop
      <4>1. promised' = promised
        BY <3>3
      <4>2. thread' \notin {"lock", "wait", "swap"} => thread \notin {"lock", "wait", "swap"}
        BY <3>3
      <4> QED BY <1>6, <4>1, <4>2 DEF IInv, PromiseInv
    <3> QED BY <3>2, <3>3
  <2>4. thread' = "done" => (output'.flushed = Len(output'.lines))
    BY <1>1 DEF IInv, PromiseInv, backVars
  <2> QED BY <2>1, <2>2, <2>3, <2>4 DEF PromiseInv
<1> QED BY <1>2, <1>5, <1>7, <1>8 DEF IInv

LEMMA AppendStep ==
  ASSUME IInv, append
  PROVE  IInv'
<1> DEFINE x == appended + 1
<1>1. /\ x \in Msgs /\ appended' = x /\ x \in Nat /\ appended \in Nat
      /\ UNCHANGED <<logRunning_, backVars, stopper, promised, now>>
  BY LoggingAssumption DEF append, IInv, LogTypeOK, Msgs
<1>2. /\ \A y \in InFile \cup In(Batch) \cup In(Front) : y \in Nat /\ y < x
      /\ AllOrdered(buffers_) /\ Ordered(currentBuffer_)
      /\ Before(In(buffers_), Range(currentBuffer_))
      /\ In(Front) = In(buffers_) \cup Range(currentBuffer_)
      /\ buffers_ \in Buffers /\ currentBuffer_ \in Seq(Msgs) /\ Front \in Buffers
  BY <1>1, Typed, BuffersAppend DEF IInv, OrderInv, Front
<1>3. <<x>> \in Seq(Msgs) /\ Len(<<x>>) = 1 /\ Range(<<x>>) = {x} /\ Ordered(<<x>>)
  BY <1>1 DEF Range, Ordered
<1>4. /\ In(Front)' = In(Front) \cup {x} /\ AllOrdered(Front)'
      /\ buffers_' \in Buffers /\ currentBuffer_' \in Seq(Msgs)
      /\ Len(currentBuffer_') <= BufferSize
  <2>1. CASE hasRoom
    <3>1. /\ Front' = Append(buffers_, Append(currentBuffer_, x)) /\ buffers_' = buffers_
          /\ currentBuffer_' = Append(currentBuffer_, x)
      BY <2>1 DEF append, Front
    <3>2. /\ Append(currentBuffer_, x) \in Seq(Msgs)
          /\ Len(Append(currentBuffer_, x)) <= BufferSize
          /\ Range(Append(currentBuffer_, x)) = Range(currentBuffer_) \cup {x}
      BY <1>1, <1>2, <2>1, RangeOf, AppendProperties, LoggingAssumption DEF hasRoom
    <3>3. Ordered(Append(currentBuffer_, x))
      BY <1>1, <1>2, OrderedAppend DEF Before
    <3>4. Before(In(buffers_), Range(Append(currentBuffer_, x)))
      BY <1>2, <3>2 DEF Before
    <3> DEFINE b == Append(currentBuffer_, x)
    <3> HIDE DEF x, b
    <3>5. In(Append(buffers_, b)) = In(buffers_) \cup Range(b) /\ AllOrdered(Append(buffers_, b))
      BY <1>2, <3>2, <3>3, <3>4, BuffersAppend DEF b
    <3> QED BY <1>2, <3>1, <3>2, <3>5 DEF b
  <2>2. CASE ~hasRoom
    <3>1. /\ Front' = Append(Front, <<x>>) /\ buffers_' = Front
          /\ currentBuffer_' = <<x>>
      BY <2>2 DEF append, Front
    <3>2. Before(In(Front), Range(<<x>>)) /\ AllOrdered(Front)
      BY <1>2, <1>3 DEF Before, IInv, OrderInv
    <3>3. Len(<<x>>) <= BufferSize
      BY <1>3, LoggingAssumption
    <3> HIDE DEF x
    <3> QED BY <1>2, <1>3, <3>1, <3>2, <3>3, BuffersAppend
  <2> QED BY <2>1, <2>2
<1>5. Batch' = Batch /\ InFile' = InFile /\ output' = output /\ Cut' = Cut
  BY <1>1 DEF Batch, InFile, backVars, Cut
<1>6. LogTypeOK'
  <2>1. nextBuffer_' \in BOOLEAN
    BY DEF append, IInv, LogTypeOK
  <2>2. thread' \in {"new", "begin", "open", "check", "lock", "wait", "swap", "cut",
                     "write", "done"}
    BY DEF append, IInv, LogTypeOK, Notified
  <2>3. appended' \in 0 .. MaxMsgs
    BY <1>1, LoggingAssumption DEF Msgs
  <2> QED BY <1>1, <1>4, <2>1, <2>2, <2>3 DEF IInv, LogTypeOK, backVars, spareVars, Buffers
<1>7. OrderInv'
  <2>1. /\ Ordered(output'.lines) /\ AllOrdered(Batch)' /\ AllOrdered(Front)'
    BY <1>4, <1>5 DEF IInv, OrderInv
  <2>2. /\ Before(InFile', In(Batch)' \cup In(Front)') /\ Before(In(Batch)', In(Front)')
    BY <1>2, <1>4, <1>5 DEF IInv, OrderInv, Before
  <2>3. 1 .. appended' = (1 .. appended) \cup {x} /\ x \notin 1 .. appended
    BY <1>1
  <2>4. dropped' = dropped /\ dropped \subseteq 1 .. appended
    BY <1>1 DEF IInv, OrderInv, backVars
  <2> HIDE DEF x
  <2>5. /\ (InFile \cup In(Batch) \cup In(Front))' = (1 .. appended') \ dropped'
        /\ dropped' \subseteq 1 .. appended'
    BY <1>4, <1>5, <2>3, <2>4 DEF IInv, OrderInv
  <2> QED BY <2>1, <2>2, <2>5 DEF OrderInv
<1>8. BatchInv'
  <2>1. buffers_' = <<>> => nextBuffer_'
    <3>1. Front # <<>>
      BY <1>2, AppendProperties DEF Front, Buffers
    <3>2. hasRoom => buffers_' = buffers_ /\ nextBuffer_' = nextBuffer_
      BY DEF append
    <3>3. ~hasRoom => buffers_' = Front
      BY DEF append, Front
    <3> QED BY <3>1, <3>2, <3>3 DEF IInv, BatchInv, SpareBuffersReturn
  <2>2. \/ thread' = thread
        \/ thread = "wait" /\ thread' = "swap"
    BY DEF append, Notified
  <2> QED BY <1>1, <1>5, <2>1, <2>2
          DEF IInv, BatchInv, SpareBuffersReturn, backVars, spareVars
<1>9. PromiseInv'
  <2>1. promised' <= appended' /\ promised' = promised /\ promised < x
    BY <1>1 DEF IInv, PromiseInv, LogTypeOK
  <2>2. \/ thread' = thread
        \/ thread = "wait" /\ thread' = "swap"
    BY DEF append, Notified
  <2>3. thread' \notin {"lock", "wait", "swap"} => Before(1 .. promised', In(Front)')
    <3> SUFFICES ASSUME thread' \notin {"lock", "wait", "swap"}
                 PROVE  Before(1 .. promised, In(Front) \cup {x})
      BY <1>4, <2>1
    <3>1. Before(1 .. promised, In(Front))
      BY <2>2 DEF IInv, PromiseInv
    <3>2. \A m \in 1 .. promised : m < x
      BY <1>1, <2>1 DEF IInv, LogTypeOK
    <3> QED BY <3>1, <3>2 DEF Before
  <2> QED BY <1>1, <1>5, <2>1, <2>2, <2>3 DEF IInv, PromiseInv
<1>10. FileOk(output, now)'
  BY <1>1, <1>5 DEF IInv, FileOk
<1> QED BY <1>6, <1>7, <1>8, <1>9, <1>10 DEF IInv

LEMMA SwapStep ==
  ASSUME IInv, Swap
  PROVE  IInv'
<1>1. /\ UNCHANGED <<logRunning_, appended, written, output, dropped, stopper, promised, now>>
      /\ buffersToWrite' = Front /\ buffers_' = <<>> /\ currentBuffer_' = <<>>
      /\ thread' = "cut" /\ thread \in {"lock", "swap"}
      /\ newBuffer1' = FALSE
  BY DEF Swap, MaySwap, Front
<1>2. /\ newBuffer1 /\ newBuffer2 /\ buffersToWrite = <<>> /\ written = 0
      /\ nextBuffer_' = TRUE /\ newBuffer2' = nextBuffer_ /\ nextBuffer_ \in BOOLEAN
  BY <1>1 DEF IInv, BatchInv, SpareBuffersReturn, Swap, LogTypeOK
<1>3. /\ Front \in Buffers /\ buffers_ \in Buffers /\ Len(Front) = Len(buffers_) + 1
      /\ <<>> \in Seq(Msgs) /\ <<>> \in Buffers /\ Len(<<>>) = 0
      /\ Len(buffers_) \in Nat /\ (~nextBuffer_ => Len(buffers_) >= 1)
  <2>1. Front \in Buffers /\ buffers_ \in Buffers /\ currentBuffer_ \in Seq(Msgs)
    BY Typed DEF IInv
  <2>2. <<>> \in Seq(Msgs) /\ <<>> \in Buffers /\ Len(<<>>) = 0
    BY DEF Buffers
  <2>3. Len(Front) = Len(buffers_) + 1 /\ Len(buffers_) \in Nat
    BY <2>1, AppendProperties DEF Buffers, Front
  <2>4. ~nextBuffer_ => Len(buffers_) >= 1
    <3>1. ~nextBuffer_ => buffers_ # <<>>
      BY DEF IInv, BatchInv, SpareBuffersReturn
    <3>2. Len(buffers_) = 0 => buffers_ = <<>>
      BY <2>1, EmptySeq DEF Buffers
    <3> QED BY <2>3, <3>1, <3>2
  <2> QED BY <2>1, <2>2, <2>3, <2>4
<1>4. Batch = <<>> /\ Batch' = Front /\ Front' = Append(<<>>, <<>>)
  BY <1>1, <1>2, <1>3, NoBuffers DEF Batch, Front
<1>5. In(Batch) = {} /\ In(Front)' = {} /\ AllOrdered(Front)' /\ InFile' = InFile
  BY <1>1, <1>3, <1>4, NoBuffers, EmptyBuffer, BuffersAppend DEF Before, InFile
<1>6. LogTypeOK'
  <2>1. /\ written' \in 0 .. Len(buffersToWrite')
        /\ Len(currentBuffer_') <= BufferSize
    BY <1>1, <1>2, <1>3, LoggingAssumption
  <2> QED BY <1>1, <1>2, <1>3, <2>1 DEF IInv, LogTypeOK, Buffers
<1>7. OrderInv'
  BY <1>1, <1>4, <1>5 DEF IInv, OrderInv, Before
<1>8. BatchInv'
  <2>1. Len(Cut') >= IF newBuffer2' THEN 1 ELSE 2
    <3>1. CASE Len(Front) > MaxBacklog
      <4>1. Cut' = SubSeq(Front, 1, 2) /\ Len(Front) >= 2
        BY <1>1, <1>3, <3>1, LoggingAssumption DEF Cut
      <4> QED BY <1>3, <4>1, FirstTwo
    <3>2. CASE ~(Len(Front) > MaxBacklog)
      BY <1>1, <1>2, <1>3, <3>2 DEF Cut
    <3> QED BY <3>1, <3>2
  <2> QED BY <1>1, <1>2, <2>1 DEF IInv, BatchInv, SpareBuffersReturn
<1>9. PromiseInv'
  BY <1>1, <1>5 DEF IInv, PromiseInv, Before
<1>10. FileOk(output, now)'
  BY <1>1 DEF IInv, FileOk
<1> QED BY <1>6, <1>7, <1>8, <1>9, <1>10 DEF IInv

LEMMA OpenStep ==
  ASSUME IInv, OpenLogFile
  PROVE  IInv'
<1>1. /\ UNCHANGED <<logRunning_, frontVars, spareVars, buffersToWrite, written, dropped,
                     stopper, promised, now>>
      /\ thread = "open" /\ thread' = "check" /\ output' = LF!rollFile(output, now)
  BY DEF OpenLogFile, IInv, BatchInv, LF!NewLogFile
<1>2. FileOk(output', now) /\ output'.lines = output.lines /\ now \in Nat
  BY <1>1, RollOk, Typed DEF IInv
<1>3. LogTypeOK'
  BY <1>1, <1>2 DEF IInv, LogTypeOK, frontVars, spareVars, FileOk
<1>4. FileOk(output, now)' /\ OrderInv'
  BY <1>1, <1>2, <1>3, QuietStep
<1>5. BatchInv'
  BY <1>1 DEF IInv, BatchInv, SpareBuffersReturn, frontVars, spareVars
<1>6. PromiseInv'
  <2>1. In(Front)' = In(Front)
    BY <1>1 DEF Front, frontVars
  <2> QED BY <1>1, <2>1 DEF IInv, PromiseInv, frontVars
<1> QED BY <1>3, <1>4, <1>5, <1>6 DEF IInv

LEMMA CheckStep ==
  ASSUME IInv, CheckLogRunning
  PROVE  IInv'
<1>1. /\ UNCHANGED <<logRunning_, frontVars, spareVars, buffersToWrite, written, dropped,
                     stopper, promised, now>>
      /\ thread = "check" /\ thread' = IF logRunning_ THEN "lock" ELSE "done"
      /\ output' = IF logRunning_ THEN output ELSE LF!flush(output)
  BY DEF CheckLogRunning
<1>2. /\ FileOk(output', now) /\ output'.lines = output.lines /\ now \in Nat
      /\ ~logRunning_ => output'.flushed = Len(output'.lines)
  BY <1>1, FlushOk, Typed DEF IInv
<1>3. LogTypeOK'
  BY <1>1, <1>2 DEF IInv, LogTypeOK, frontVars, spareVars, FileOk
<1>4. FileOk(output, now)' /\ OrderInv'
  BY <1>1, <1>2, <1>3, QuietStep
<1>5. BatchInv'
  BY <1>1 DEF IInv, BatchInv, SpareBuffersReturn, frontVars, spareVars
<1>6. PromiseInv'
  <2>1. In(Front)' = In(Front)
    BY <1>1 DEF Front, frontVars
  <2> QED BY <1>1, <1>2, <2>1 DEF IInv, PromiseInv, frontVars
<1> QED BY <1>3, <1>4, <1>5, <1>6 DEF IInv

LEMMA CutStep ==
  ASSUME IInv, CutBatch
  PROVE  IInv'
<1>1. /\ UNCHANGED <<logRunning_, frontVars, spareVars, written, stopper, promised, now>>
      /\ buffersToWrite' = Cut /\ thread = "cut" /\ thread' = "write" /\ written = 0
      /\ dropped' = dropped \cup (In(buffersToWrite) \ In(Cut))
      /\ output' = IF Cut = buffersToWrite THEN output
                   ELSE LF!append_unlocked(output, <<Notice>>, now)
  BY DEF CutBatch, IInv, BatchInv
<1>2. /\ buffersToWrite \in Buffers /\ Len(buffersToWrite) \in Nat
      /\ now \in Nat /\ output.lines \in Seq(Nat)
  BY Typed DEF IInv
<1>3. /\ Batch = buffersToWrite /\ Front' = Front
  BY <1>1, <1>2, NoBuffers DEF Batch, Front, frontVars
<1>4. /\ Cut \in Buffers /\ Len(Cut) \in Nat /\ Len(Cut) <= MaxBacklog
      /\ AllOrdered(Cut) /\ In(Cut) \subseteq In(Batch)
  <2>1. AllOrdered(buffersToWrite)
    BY <1>3 DEF IInv, OrderInv
  <2>2. CASE Len(buffersToWrite) > MaxBacklog
    <3>1. Cut = SubSeq(buffersToWrite, 1, 2) /\ Len(buffersToWrite) >= 2 /\ 2 <= MaxBacklog
      BY <1>2, <2>2, LoggingAssumption DEF Cut
    <3> QED BY <1>2, <1>3, <2>1, <3>1, FirstTwo
  <2>3. CASE ~(Len(buffersToWrite) > MaxBacklog)
    BY <1>2, <1>3, <2>1, <2>3, LoggingAssumption DEF Cut
  <2> QED BY <2>2, <2>3
<1>5. Batch' = Cut /\ Cut' = Cut
  <2>1. Batch' = Cut
    BY <1>1, <1>4, NoBuffers DEF Batch
  <2>2. ~(Len(Cut) > MaxBacklog)
    BY <1>4, LoggingAssumption
  <2>3. Cut' = IF Len(buffersToWrite') > MaxBacklog THEN SubSeq(buffersToWrite', 1, 2)
               ELSE buffersToWrite'
    BY DEF Cut
  <2> QED BY <1>1, <2>1, <2>2, <2>3
<1>6. FileOk(output', now) /\ Ordered(output'.lines) /\ InFile' = InFile
  <2>1. CASE Cut = buffersToWrite
    BY <1>1, <2>1 DEF IInv, OrderInv, InFile
  <2>2. CASE Cut # buffersToWrite
    <3>1. <<Notice>> \in Seq(Nat) /\ Ordered(<<Notice>>) /\ Range(<<Notice>>) = {Notice}
      BY DEF Notice, Ordered, Range
    <3>2. FileOk(output', now) /\ output'.lines = output.lines \o <<Notice>>
      BY <1>1, <1>2, <2>2, <3>1, AppendOk DEF IInv
    <3>3. Ordered(output.lines \o <<Notice>>)
      BY <1>2, <3>1, OrderedConcat DEF IInv, OrderInv, Before
    <3>4. Range(output.lines \o <<Notice>>) = Range(output.lines) \cup {Notice}
      <4>1. Notice \in Nat
        BY DEF Notice
      <4> DEFINE t == <<Notice>>
      <4> HIDE DEF t
      <4>2. t \in Seq(Nat) /\ Range(t) = {Notice}
        BY <3>1 DEF t
      <4>3. Range(output.lines \o t) = Range(output.lines) \cup Range(t)
        BY <1>2, <4>1, <4>2, RangeOf, SMTT(60)
      <4> QED BY <4>2, <4>3 DEF t
    <3> QED BY <3>2, <3>3, <3>4 DEF InFile
  <2> QED BY <2>1, <2>2
<1>7. /\ In(buffersToWrite) \subseteq 1 .. appended /\ appended \in 0 .. MaxMsgs
      /\ 1 .. appended \subseteq Msgs
  BY <1>3, LoggingAssumption DEF IInv, OrderInv, LogTypeOK, Msgs
<1>8. LogTypeOK'
  <2>1. written' \in 0 .. Len(buffersToWrite')
    BY <1>1, <1>4
  <2>2. dropped' \subseteq Msgs
    BY <1>1, <1>7 DEF IInv, LogTypeOK
  <2> QED BY <1>1, <1>4, <1>6, <2>1, <2>2
          DEF IInv, LogTypeOK, Buffers, frontVars, spareVars, FileOk
<1>9. OrderInv'
  <2>1. /\ Before(InFile, In(Batch) \cup In(Front)) /\ Before(In(Batch), In(Front))
        /\ InFile \cup In(Batch) \cup In(Front) = (1 .. appended) \ dropped
        /\ dropped \subseteq 1 .. appended /\ appended' = appended
        /\ AllOrdered(Front)
    BY <1>1 DEF IInv, OrderInv, frontVars
  <2>2. \A y \in In(Batch) : y \notin InFile /\ y \notin In(Front)
    <3>1. \A y \in In(Batch) : y \in Nat
      BY <2>1
    <3> QED BY <2>1, <3>1 DEF Before
  <2>3. InFile \cup In(Cut) \cup In(Front) = (1 .. appended) \ dropped'
    BY <1>1, <1>3, <1>4, <2>1, <2>2
  <2>4. dropped' \subseteq 1 .. appended
    BY <1>1, <1>7, <2>1
  <2>5. Before(InFile, In(Cut) \cup In(Front)) /\ Before(In(Cut), In(Front))
    BY <1>4, <2>1 DEF Before
  <2> QED BY <1>3, <1>4, <1>5, <1>6, <2>1, <2>3, <2>4, <2>5 DEF OrderInv
<1>10. BatchInv'
  BY <1>1, <1>4, <1>5 DEF IInv, BatchInv, SpareBuffersReturn, frontVars, spareVars
<1>11. PromiseInv'
  BY <1>1, <1>3 DEF IInv, PromiseInv, frontVars
<1>12. FileOk(output, now)'
  BY <1>1, <1>6 DEF FileOk
<1> QED BY <1>8, <1>9, <1>10, <1>11, <1>12 DEF IInv

LEMMA WriteStep ==
  ASSUME IInv, WriteBuffer
  PROVE  IInv'
<1> DEFINE b == buffersToWrite[written + 1]
           rest == SubSeq(buffersToWrite, (written + 1) + 1, Len(buffersToWrite))
<1>1. /\ UNCHANGED <<logRunning_, frontVars, spareVars, buffersToWrite, dropped, thread,
                     stopper, promised, now>>
      /\ thread = "write" /\ written < Len(buffersToWrite) /\ written' = written + 1
      /\ output' = LF!append_unlocked(output, b, now)
  BY DEF WriteBuffer
<1>2. /\ buffersToWrite \in Buffers /\ Len(buffersToWrite) \in Nat /\ written \in Nat
      /\ now \in Nat /\ output.lines \in Seq(Nat)
  BY Typed DEF IInv
<1>3. Batch' = rest /\ Front' = Front /\ Cut' = Cut
  BY <1>1 DEF Batch, Front, Cut, frontVars
<1>4. /\ b \in Seq(Msgs) /\ In(Batch) = Range(b) \cup In(rest)
      /\ AllOrdered(rest) /\ Ordered(b) /\ Before(Range(b), In(rest))
  BY <1>1, <1>2, TakeFirst DEF IInv, OrderInv, Batch
<1> HIDE DEF b, rest
<1>5. b \in Seq(Nat) /\ Range(b) \subseteq Msgs /\ Notice \notin Range(b)
  <2>1. Msgs \subseteq Nat /\ Notice \notin Msgs
    BY LoggingAssumption DEF Msgs, Notice
  <2>2. Range(b) \subseteq Msgs
    BY <1>4, ElementOfSeq DEF Range
  <2>3. b \in Seq(Nat)
    <3>1. \A i \in 1 .. Len(b) : b[i] \in Msgs
      BY <1>4, ElementOfSeq
    <3>2. \A i \in 1 .. Len(b) : b[i] \in Nat
      BY <2>1, <3>1
    <3>3. Len(b) \in Nat /\ b = [i \in 1 .. Len(b) |-> b[i]]
      BY <1>4
    <3> QED BY <3>2, <3>3, IsASeq
  <2> QED BY <2>1, <2>2, <2>3
<1>6. FileOk(output', now) /\ output'.lines = output.lines \o b
  BY <1>1, <1>2, <1>5, AppendOk DEF IInv
<1>7. InFile' = InFile \cup Range(b)
  <2>1. Range(output.lines \o b) = Range(output.lines) \cup Range(b)
    <3>1. Notice \in Nat
      BY DEF Notice
    <3> QED BY <1>2, <1>5, <3>1, RangeOf
  <2> QED BY <1>5, <1>6, <2>1 DEF InFile
<1>8. /\ Ordered(output.lines) /\ AllOrdered(Front)
      /\ Before(InFile, In(Batch) \cup In(Front)) /\ Before(In(Batch), In(Front))
      /\ InFile \cup In(Batch) \cup In(Front) = (1 .. appended) \ dropped
      /\ dropped \subseteq 1 .. appended /\ appended' = appended /\ dropped' = dropped
  BY <1>1 DEF IInv, OrderInv, frontVars
<1>9. Ordered(output'.lines)
  <2>1. Before(Range(output.lines) \ {Notice}, Range(b) \ {Notice})
    BY <1>4, <1>8 DEF Before, InFile
  <2> QED BY <1>2, <1>4, <1>5, <1>6, <1>8, <2>1, OrderedConcat
<1>10. OrderInv'
  <2>1. Before(InFile \cup Range(b), In(rest) \cup In(Front)) /\ Before(In(rest), In(Front))
    BY <1>4, <1>8 DEF Before
  <2>2. InFile' \cup In(rest) \cup In(Front) = (1 .. appended) \ dropped
    BY <1>4, <1>7, <1>8
  <2> QED BY <1>3, <1>4, <1>7, <1>8, <1>9, <2>1, <2>2 DEF OrderInv
<1>11. LogTypeOK'
  <2>1. written' \in 0 .. Len(buffersToWrite')
    BY <1>1, <1>2
  <2> QED BY <1>1, <1>6, <2>1 DEF IInv, LogTypeOK, frontVars, spareVars, FileOk
<1>12. BatchInv'
  BY <1>1, <1>3 DEF IInv, BatchInv, SpareBuffersReturn, frontVars, spareVars
<1>13. PromiseInv'
  BY <1>1, <1>3 DEF IInv, PromiseInv, frontVars
<1>14. FileOk(output, now)'
  BY <1>1, <1>6 DEF FileOk
<1> QED BY <1>10, <1>11, <1>12, <1>13, <1>14 DEF IInv

LEMMA RecycleStep ==
  ASSUME IInv, Recycle
  PROVE  IInv'
<1>1. /\ UNCHANGED <<logRunning_, frontVars, dropped, stopper, promised, now>>
      /\ newBuffer1' = (newBuffer1 \/ written >= 1)
      /\ newBuffer2' = (newBuffer2 \/ written >= 2)
      /\ buffersToWrite' = <<>> /\ written' = 0 /\ written = Len(buffersToWrite)
      /\ output' = LF!flush(output) /\ thread = "write" /\ thread' = "check"
  BY DEF Recycle
<1>2. buffersToWrite \in Buffers /\ now \in Nat /\ Len(buffersToWrite) \in Nat
  BY Typed DEF IInv
<1>3. Batch = <<>> /\ Batch' = <<>> /\ Front' = Front
  BY <1>1, <1>2, NoBuffers DEF Batch, Front, frontVars
<1>4. FileOk(output', now) /\ output'.lines = output.lines
  BY <1>1, <1>2, FlushOk DEF IInv
<1>5. newBuffer1' = TRUE /\ newBuffer2' = TRUE
  <2>1. Cut = buffersToWrite
    BY <1>1, <1>2, LoggingAssumption DEF IInv, BatchInv, Cut
  <2>2. /\ written >= IF newBuffer2 THEN 1 ELSE 2
        /\ newBuffer1 \in BOOLEAN /\ newBuffer2 \in BOOLEAN
    BY <1>1, <2>1 DEF IInv, BatchInv, SpareBuffersReturn, LogTypeOK
  <2>3. CASE newBuffer2
    <3>1. written >= 1
      BY <2>2, <2>3
    <3> QED BY <1>1, <2>2, <2>3, <3>1
  <2>4. CASE ~newBuffer2
    <3>1. written >= 2 /\ written >= 1
      BY <1>1, <1>2, <2>2, <2>4
    <3> QED BY <1>1, <2>2, <3>1
  <2> QED BY <2>3, <2>4
<1>6. LogTypeOK'
  <2>1. written' \in 0 .. Len(buffersToWrite') /\ buffersToWrite' \in Seq(Seq(Msgs))
    BY <1>1
  <2> QED BY <1>1, <1>4, <1>5, <2>1 DEF IInv, LogTypeOK, frontVars, FileOk
<1>7. OrderInv'
  BY <1>1, <1>3, <1>4 DEF IInv, OrderInv, InFile, frontVars
<1>8. BatchInv'
  BY <1>1, <1>5 DEF IInv, BatchInv, SpareBuffersReturn, frontVars
<1>9. PromiseInv'
  BY <1>1, <1>3 DEF IInv, PromiseInv, frontVars
<1>10. FileOk(output, now)'
  BY <1>1, <1>4 DEF FileOk
<1> QED BY <1>6, <1>7, <1>8, <1>9, <1>10 DEF IInv

-----------------------------------------------------------------------------
(* The invariant of the logger: what goes round between append, threadFunc *)
(* and stop keeps its order, and the spare buffers come back.              *)
THEOREM Invariant == LogSpec => []IInv
<1>1. IInv /\ [LogNext]_logVars => IInv'
  <2> SUFFICES ASSUME IInv, [LogNext]_logVars PROVE IInv'
    OBVIOUS
  <2>1. CASE append
    BY <2>1, AppendStep
  <2>2. CASE \/ AsyncLogging_start \/ AsyncLogging_stop \/ StopNotifies \/ StopJoins
             \/ CountDown \/ Wait \/ Timeout \/ Tick
    BY <2>2, EasySteps
  <2>3. CASE OpenLogFile
    BY <2>3, OpenStep
  <2>4. CASE CheckLogRunning
    BY <2>4, CheckStep
  <2>5. CASE Swap
    BY <2>5, SwapStep
  <2>6. CASE CutBatch
    BY <2>6, CutStep
  <2>7. CASE WriteBuffer
    BY <2>7, WriteStep
  <2>8. CASE Recycle
    BY <2>8, RecycleStep
  <2>9. CASE UNCHANGED logVars
    <3> USE <2>9 DEF logVars, frontVars, backVars, spareVars
    <3>1. Batch' = Batch /\ Front' = Front /\ InFile' = InFile /\ Cut' = Cut
      BY DEF Batch, Front, InFile, Cut
    <3>2. LogTypeOK' /\ FileOk(output, now)'
      BY DEF IInv, LogTypeOK, FileOk
    <3>3. OrderInv' /\ BatchInv'
      BY <3>1 DEF IInv, OrderInv, BatchInv, SpareBuffersReturn
    <3>4. PromiseInv'
      BY <3>1 DEF IInv, PromiseInv
    <3> QED BY <3>2, <3>3, <3>4 DEF IInv
  <2> QED BY <2>1, <2>2, <2>3, <2>4, <2>5, <2>6, <2>7, <2>8, <2>9 DEF LogNext, ThreadStep
<1> QED BY InitOk, <1>1, PTL DEF LogSpec

(* The state of AsyncLogging and its LogFile keeps its types.              *)
THEOREM TypeCorrect == LogSpec => []LogTypeOK
<1>1. IInv => LogTypeOK
  BY DEF IInv
<1> QED BY Invariant, <1>1, PTL

(* append and threadFunc lose, repeat and reorder no message but those     *)
(* erased from a batch that is too long; LogFile::append_unlocked opens no *)
(* file twice; and the asserts of threadFunc on its spare buffers hold.    *)
THEOREM LinesKeepOrder == LogSpec => []NothingLostOrReordered
<1>1. IInv => NothingLostOrReordered
  BY DEF IInv, OrderInv, FileOk, BatchInv, NothingLostOrReordered
<1> QED BY Invariant, <1>1, PTL

(* AsyncLogging::stop: when threadFunc has returned, what was appended     *)
(* before a stop() that found it waiting or about to wait is flushed, or   *)
(* was dropped with a notice.                                              *)
THEOREM StopLosesNothing == LogSpec => []StopWritesWhatWasThere
<1>1. IInv => StopWritesWhatWasThere
  <2> SUFFICES ASSUME IInv, thread = "done", NEW m \in 1 .. promised, m \notin dropped
               PROVE  m \in OnDisk
    BY DEF StopWritesWhatWasThere
  <2>1. output.lines \in Seq(Nat) /\ promised \in Nat /\ appended \in Nat /\ promised <= appended
    BY Typed DEF IInv, PromiseInv
  <2>2. m \in (1 .. appended) \ dropped
    BY <2>1
  <2>3. m \notin In(Front)
    BY <2>1 DEF IInv, PromiseInv, Before
  <2>4. In(Batch) = {}
    <3>1. buffersToWrite = <<>> /\ written = 0
      BY DEF IInv, BatchInv
    <3>2. Batch = <<>>
      BY <3>1, NoBuffers DEF Batch
    <3> QED BY <3>2, NoBuffers
  <2>5. m \in InFile
    BY <2>2, <2>3, <2>4 DEF IInv, OrderInv
  <2>6. LF!OnDisk(output) = output.lines
    BY <2>1 DEF IInv, PromiseInv, LF!OnDisk
  <2> QED BY <2>5, <2>6 DEF OnDisk, InFile
<1> QED BY Invariant, <1>1, PTL
=============================================================================

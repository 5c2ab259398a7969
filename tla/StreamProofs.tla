---------------------------- MODULE StreamProofs ----------------------------
(***************************************************************************)
(* Streams of bytes: what Buffer's operations do to the content; that a    *)
(* stream of frames, cut into chunks anywhere, is read back frame by       *)
(* frame; and from these, for every size of the buffer and every cut, that *)
(* RpcChannel dispatches what was sent and answers every call once, and    *)
(* that HttpServer's answers are those that the lines ask for.             *)
(***************************************************************************)
EXTENDS RpcChannel, HttpServer, SequenceTheorems, FiniteSetTheorems, WellFoundedInduction, TLAPS

(* A buffer of cells: readerIndex_ <= writerIndex_ <= size, and at least   *)
(* kCheapPrepend cells, not necessarily free ones: prepend() uses them.    *)
IsBuffer(b, Cell) ==
  /\ b \in [buffer_ : Seq(Cell), readerIndex_ : Nat, writerIndex_ : Nat]
  /\ b.readerIndex_ <= b.writerIndex_
  /\ b.writerIndex_ <= Len(b.buffer_)
  /\ kCheapPrepend <= Len(b.buffer_)

-----------------------------------------------------------------------------
(* Part of a sequence, cell by cell.                                       *)
LEMMA Part ==
  ASSUME NEW Cell, NEW v \in Seq(Cell), NEW m \in Nat, NEW n \in Nat,
         m <= n, n <= Len(v)
  PROVE  /\ SubSeq(v, m + 1, n) \in Seq(Cell)
         /\ Len(SubSeq(v, m + 1, n)) = n - m
         /\ \A i \in 1 .. n - m : SubSeq(v, m + 1, n)[i] = v[m + i]
<1>1. \A i \in m + 1 .. n : v[i] \in Cell
  BY ElementOfSeq
<1>2. /\ SubSeq(v, m + 1, n) \in Seq(Cell)
      /\ Len(SubSeq(v, m + 1, n)) = IF m + 1 <= n THEN n - (m + 1) + 1 ELSE 0
      /\ \A i \in 1 .. n - (m + 1) + 1 : SubSeq(v, m + 1, n)[i] = v[m + 1 + i - 1]
  BY <1>1, SubSeqProperties
<1> QED
  BY <1>2

(* Overwriting keeps the length and all other cells (std::copy).           *)
LEMMA OverwrittenCells ==
  ASSUME NEW Cell, NEW v \in Seq(Cell), NEW d \in Seq(Cell), NEW at \in Nat,
         at + Len(d) <= Len(v)
  PROVE  /\ Overwritten(v, at, d) \in Seq(Cell)
         /\ Len(Overwritten(v, at, d)) = Len(v)
         /\ \A i \in 1 .. Len(v) : Overwritten(v, at, d)[i] =
              IF at < i /\ i <= at + Len(d) THEN d[i - at] ELSE v[i]
<1> DEFINE left  == SubSeq(v, 1, at)
           right == SubSeq(v, at + Len(d) + 1, Len(v))
           most  == left \o d
           all   == most \o right
<1>0. Len(d) \in Nat /\ Len(v) \in Nat
  BY LenProperties
<1>1. /\ left \in Seq(Cell) /\ Len(left) = at
      /\ \A i \in 1 .. at : left[i] = v[i]
  BY <1>0, Part, 0 + 1 = 1, at - 0 = at, \A i \in 1 .. at : 0 + i = i
<1>2. /\ right \in Seq(Cell) /\ Len(right) = Len(v) - (at + Len(d))
      /\ \A i \in 1 .. Len(v) - (at + Len(d)) : right[i] = v[at + Len(d) + i]
  BY <1>0, Part
<1>3. /\ most \in Seq(Cell) /\ Len(most) = at + Len(d)
      /\ \A i \in 1 .. at + Len(d) : most[i] = IF i <= at THEN left[i] ELSE d[i - at]
  BY <1>1, ConcatProperties, SMTT(60)
<1>4. Overwritten(v, at, d) = all
  BY DEF Overwritten
<1> HIDE DEF left, right, most
<1>5. /\ all \in Seq(Cell)
      /\ Len(all) = Len(most) + Len(right)
      /\ \A i \in 1 .. Len(most) + Len(right) :
           all[i] = IF i <= Len(most) THEN most[i] ELSE right[i - Len(most)]
  <2>1. most \in Seq(Cell) /\ right \in Seq(Cell)
    BY <1>2, <1>3
  <2> QED
    BY <2>1, ConcatProperties
<1> HIDE DEF all
<1>6. Len(most) + Len(right) = Len(v)
  BY <1>0, <1>2, <1>3
<1>7. \A i \in 1 .. Len(v) :
        all[i] = IF i <= at + Len(d) THEN most[i] ELSE right[i - (at + Len(d))]
  <2>1. Len(most) = at + Len(d)
    BY <1>3
  <2>2. \A i \in 1 .. Len(v) :
          all[i] = IF i <= Len(most) THEN most[i] ELSE right[i - Len(most)]
    BY <1>5, <1>6, Zenon
  <2> QED
    BY <2>1, <2>2, Zenon
<1> DEFINE k == Len(d)
           n == Len(v)
<1>8. ASSUME NEW i \in 1 .. n
      PROVE  all[i] = IF at < i /\ i <= at + k THEN d[i - at] ELSE v[i]
  <2>0. k \in Nat /\ n \in Nat /\ at + k <= n
    BY <1>0
  <2>1. /\ all[i] = IF i <= at + k THEN most[i] ELSE right[i - (at + k)]
        /\ i <= at + k => most[i] = IF i <= at THEN left[i] ELSE d[i - at]
    BY <1>7, <1>3, <2>0
  <2>2. i <= at => left[i] = v[i]
    BY <1>1
  <2>3. at + k < i => right[i - (at + k)] = v[i]
    <3> SUFFICES ASSUME at + k < i
                 PROVE  right[i - (at + k)] = v[i]
      OBVIOUS
    <3> DEFINE j == i - (at + k)
    <3>1. j \in 1 .. n - (at + k) /\ at + k + j = i
      BY <2>0
    <3> HIDE DEF j
    <3>2. right[j] = v[at + k + j]
      BY <3>1, <1>2, Zenon
    <3> QED
      BY <3>1, <3>2, Zenon DEF j
  <2> HIDE DEF k, n
  <2> QED
    BY <2>0, <2>1, <2>2, <2>3
<1> QED
  BY <1>4, <1>5, <1>6, <1>8

-----------------------------------------------------------------------------
(* The content, cell by cell.                                              *)
LEMMA ContentCells ==
  ASSUME NEW Cell, NEW b, IsBuffer(b, Cell)
  PROVE  /\ Content(b) \in Seq(Cell)
         /\ Len(Content(b)) = readableBytes(b)
         /\ readableBytes(b) \in Nat
         /\ \A i \in 1 .. readableBytes(b) : Content(b)[i] = b.buffer_[b.readerIndex_ + i]
<1> DEFINE v == b.buffer_
           m == b.readerIndex_
           n == b.writerIndex_
<1>1. v \in Seq(Cell) /\ m \in Nat /\ n \in Nat /\ m <= n /\ n <= Len(v)
  BY DEF IsBuffer
<1>2. Content(b) = SubSeq(v, m + 1, n) /\ readableBytes(b) = n - m
  BY DEF Content, readableBytes
<1> HIDE DEF v, m, n
<1>3. /\ SubSeq(v, m + 1, n) \in Seq(Cell)
      /\ Len(SubSeq(v, m + 1, n)) = n - m
      /\ \A i \in 1 .. n - m : SubSeq(v, m + 1, n)[i] = v[m + i]
  BY <1>1, Part
<1>4. n - m \in Nat
  BY <1>1
<1> QED
  BY <1>2, <1>3, <1>4, Zenon DEF v, m

(* A buffer whose cells hold c from its readerIndex_ on has content c.     *)
LEMMA ContentIs ==
  ASSUME NEW Cell, NEW b, IsBuffer(b, Cell), NEW c \in Seq(Cell),
         Len(c) = readableBytes(b),
         \A i \in 1 .. Len(c) : b.buffer_[b.readerIndex_ + i] = c[i]
  PROVE  Content(b) = c
<1>1. /\ Content(b) \in Seq(Cell)
      /\ Len(Content(b)) = Len(c)
      /\ \A i \in 1 .. Len(c) : Content(b)[i] = b.buffer_[b.readerIndex_ + i]
  BY ContentCells
<1>2. \A i \in 1 .. Len(Content(b)) : Content(b)[i] = c[i]
  BY <1>1
<1> QED
  BY <1>1, <1>2, SeqEqual

(* A buffer whose cells and indexes are replaced.                          *)
With(b, v, r, e) == [b EXCEPT !.buffer_ = v, !.readerIndex_ = r, !.writerIndex_ = e]

LEMMA Updated ==
  ASSUME NEW Cell, NEW b, IsBuffer(b, Cell), NEW v, NEW r, NEW e,
         v \in Seq(Cell) /\ r \in Nat /\ e \in Nat /\ r <= e /\ e <= Len(v),
         kCheapPrepend <= Len(v)
  PROVE  /\ IsBuffer(With(b, v, r, e), Cell)
         /\ With(b, v, r, e).buffer_ = v
         /\ With(b, v, r, e).readerIndex_ = r /\ With(b, v, r, e).writerIndex_ = e
  BY DEF IsBuffer, With

(* What is copied behind the content becomes its end (hasWritten).         *)
LEMMA WrittenAppends ==
  ASSUME NEW Cell, NEW b, IsBuffer(b, Cell), NEW d \in Seq(Cell), CanWrite(b, Len(d))
  PROVE  /\ IsBuffer(Written(b, d), Cell)
         /\ Content(Written(b, d)) = Content(b) \o d
<1> DEFINE w == Written(b, d)
           v == b.buffer_
           r == b.readerIndex_
           e == b.writerIndex_
           k == Len(d)
           u == Overwritten(v, e, d)
           c == Content(b)
<1>1. /\ v \in Seq(Cell) /\ r \in Nat /\ e \in Nat /\ r <= e /\ e <= Len(v)
      /\ Len(v) \in Nat /\ k \in Nat /\ e + k <= Len(v) /\ kCheapPrepend <= Len(v)
  BY LenProperties DEF IsBuffer, CanWrite, writableBytes
<1>3. /\ u \in Seq(Cell) /\ Len(u) = Len(v)
      /\ \A i \in 1 .. Len(v) : u[i] = IF e < i /\ i <= e + k THEN d[i - e] ELSE v[i]
  <2> HIDE DEF v, e, k
  <2> QED
    BY <1>1, OverwrittenCells DEF k
<1>4. /\ c \in Seq(Cell) /\ Len(c) = e - r
      /\ \A i \in 1 .. e - r : c[i] = v[r + i]
  BY ContentCells DEF readableBytes
<1> HIDE DEF u, c
<1>5. w = With(b, u, r, e + k)
  BY DEF Written, IsBuffer, u, With
<1>6. IsBuffer(w, Cell) /\ w.buffer_ = u /\ w.readerIndex_ = r /\ w.writerIndex_ = e + k
  <2> HIDE DEF w, v, r, e, k
  <2>1. /\ u \in Seq(Cell) /\ r \in Nat /\ e + k \in Nat /\ r <= e + k /\ e + k <= Len(u)
        /\ kCheapPrepend <= Len(u)
    BY <1>1, <1>3
  <2> QED
    BY <1>5, <2>1, Updated
<1>7. /\ c \o d \in Seq(Cell) /\ Len(c \o d) = Len(c) + k
      /\ \A i \in 1 .. Len(c) + k : (c \o d)[i] = IF i <= Len(c) THEN c[i] ELSE d[i - Len(c)]
  BY <1>4, ConcatProperties
<1> DEFINE cd == c \o d
<1> HIDE DEF w, v, r, e, k, cd
<1>8. Len(cd) = readableBytes(w) /\ Len(cd) = (e - r) + k
  BY <1>1, <1>4, <1>6, <1>7 DEF readableBytes, cd
<1>9. ASSUME NEW i \in 1 .. Len(cd)
      PROVE  w.buffer_[w.readerIndex_ + i] = cd[i]
  <2>1. r + i \in 1 .. Len(v)
    BY <1>1, <1>8
  <2>2. u[r + i] = IF e < r + i /\ r + i <= e + k THEN d[(r + i) - e] ELSE v[r + i]
    BY <2>1, <1>3
  <2>3. cd[i] = IF i <= e - r THEN c[i] ELSE d[i - (e - r)]
    BY <1>4, <1>7, <1>8 DEF cd
  <2>4. i <= e - r => c[i] = v[r + i]
    BY <1>1, <1>4
  <2>5. (r + i) - e = i - (e - r)
    BY <1>1, <1>8
  <2>6. i <= e - r <=> ~(e < r + i)
    BY <1>1, <1>8
  <2>7. r + i <= e + k
    BY <1>1, <1>8
  <2>8. u[r + i] = cd[i]
    BY <2>2, <2>3, <2>4, <2>5, <2>6, <2>7, Zenon
  <2> QED
    BY <2>8, <1>6
<1>10. cd \in Seq(Cell)
  BY <1>7 DEF cd
<1>11. Content(w) = cd
  BY <1>6, <1>8, <1>9, <1>10, ContentIs
<1> QED
  BY <1>6, <1>11 DEF w, cd, c

-----------------------------------------------------------------------------
(* makeSpace, as ensureWritableBytes calls it: its assert holds, the room  *)
(* that was asked for is there, and the content is what it was, whether    *)
(* the vector grows or the content moves to the front.                     *)
THEOREM MakeSpaceKeepsContent ==
  ASSUME NEW Cell, Blank \in Cell, NEW b, IsBuffer(b, Cell), NEW len \in Nat,
         writableBytes(b) < len
  PROVE  /\ CanMakeSpace(b, len)
         /\ IsBuffer(makeSpace(b, len), Cell)
         /\ CanWrite(makeSpace(b, len), len)
         /\ Content(makeSpace(b, len)) = Content(b)
<1> DEFINE w == makeSpace(b, len)
           v == b.buffer_
           r == b.readerIndex_
           e == b.writerIndex_
           p == kCheapPrepend
           c == Content(b)
<1>1. /\ v \in Seq(Cell) /\ r \in Nat /\ e \in Nat /\ r <= e /\ e <= Len(v)
      /\ Len(v) \in Nat /\ Len(v) - e < len /\ p \in Nat /\ p <= Len(v)
  BY LenProperties, BufferAssumption DEF IsBuffer, writableBytes
<1>2. /\ c \in Seq(Cell) /\ Len(c) = e - r
      /\ \A i \in 1 .. e - r : c[i] = v[r + i]
  BY ContentCells DEF readableBytes
<1>3. CanMakeSpace(b, len)
  BY <1>1 DEF CanMakeSpace, writableBytes, prependableBytes
<1>4. CASE writableBytes(b) + prependableBytes(b) < len + p
  <2> DEFINE f == Fresh(e + len - Len(v))
             u == v \o f
  <2>1. e + len - Len(v) \in Nat
    BY <1>1
  <2>2. f \in Seq(Cell) /\ Len(f) = e + len - Len(v)
    BY <2>1 DEF Fresh
  <2> HIDE DEF f
  <2>3. /\ u \in Seq(Cell) /\ Len(u) = Len(v) + Len(f)
        /\ \A i \in 1 .. Len(v) + Len(f) : u[i] = IF i <= Len(v) THEN v[i] ELSE f[i - Len(v)]
    BY <1>1, <2>2, ConcatProperties
  <2>4. w = With(b, u, r, e)
    BY <1>4 DEF makeSpace, IsBuffer, f, With
  <2> HIDE DEF u, w, v, r, e, c
  <2>5. Len(u) = e + len
    BY <1>1, <2>2, <2>3
  <2>6. u \in Seq(Cell) /\ r \in Nat /\ e \in Nat /\ r <= e /\ e <= Len(u) /\ p <= Len(u)
    BY <1>1, <2>3, <2>5
  <2>7. IsBuffer(w, Cell) /\ w.buffer_ = u /\ w.readerIndex_ = r /\ w.writerIndex_ = e
    BY <2>4, <2>6, Updated
  <2>8. CanWrite(w, len)
    BY <1>1, <2>5, <2>7 DEF CanWrite, writableBytes
  <2>9. \A i \in 1 .. Len(c) : w.buffer_[w.readerIndex_ + i] = c[i]
    <3> SUFFICES ASSUME NEW i \in 1 .. e - r
                 PROVE  u[r + i] = v[r + i]
      BY <1>2, <2>7
    <3>1. r + i \in 1 .. Len(v) + Len(f) /\ r + i <= Len(v)
      BY <1>1, <2>1, <2>2
    <3> QED
      BY <3>1, <2>3
  <2>10. Len(c) = readableBytes(w)
    BY <1>2, <2>7 DEF readableBytes
  <2>11. Content(w) = c
    BY <1>2, <2>7, <2>9, <2>10, ContentIs
  <2> QED
    BY <1>3, <2>7, <2>8, <2>11 DEF w, c
<1>5. CASE ~(writableBytes(b) + prependableBytes(b) < len + p)
  <2> DEFINE u == Overwritten(v, p, c)
             k == Len(c)
  <2>1. w = With(b, u, p, p + k)
    BY <1>2, <1>5 DEF makeSpace, IsBuffer, readableBytes, With
  <2> HIDE DEF w, v, r, e, c
  <2>2. p < r /\ k = e - r /\ k \in Nat /\ p + k <= Len(v) /\ len <= Len(v) - (p + k)
    BY <1>1, <1>2, <1>5, SMTT(60) DEF writableBytes, prependableBytes, v, r, e
  <2>3. /\ u \in Seq(Cell) /\ Len(u) = Len(v)
        /\ \A i \in 1 .. Len(v) : u[i] = IF p < i /\ i <= p + k THEN c[i - p] ELSE v[i]
    <3>1. v \in Seq(Cell) /\ c \in Seq(Cell) /\ p \in Nat /\ p + Len(c) <= Len(v)
      BY <1>1, <1>2, <2>2
    <3> QED BY <3>1, OverwrittenCells
  <2> HIDE DEF u
  <2>4. /\ u \in Seq(Cell) /\ p \in Nat /\ p + k \in Nat /\ p <= p + k /\ p + k <= Len(u)
        /\ p <= Len(u)
    BY <1>1, <2>2, <2>3
  <2>5. IsBuffer(w, Cell) /\ w.buffer_ = u /\ w.readerIndex_ = p /\ w.writerIndex_ = p + k
    BY <2>1, <2>4, Updated
  <2>6. CanWrite(w, len)
    BY <1>1, <2>2, <2>3, <2>5 DEF CanWrite, writableBytes
  <2>7. ASSUME NEW i \in 1 .. k
        PROVE  w.buffer_[w.readerIndex_ + i] = c[i]
    <3>1. p + i \in 1 .. Len(v) /\ p < p + i /\ p + i <= p + k /\ (p + i) - p = i
      BY <1>1, <2>2
    <3> QED
      BY <3>1, <2>3, <2>5
  <2>8. Len(c) = readableBytes(w)
    BY <1>1, <2>2, <2>5 DEF readableBytes
  <2>9. Content(w) = c
    BY <1>2, <2>5, <2>7, <2>8, ContentIs
  <2> QED
    BY <1>3, <2>5, <2>6, <2>9 DEF w, c
<1> QED
  BY <1>4, <1>5
-----------------------------------------------------------------------------
(* A new buffer is a buffer without content.                               *)
LEMMA NewBufferIsEmpty ==
  ASSUME NEW Cell, Blank \in Cell
  PROVE  IsBuffer(NewBuffer, Cell) /\ Content(NewBuffer) = <<>>
<1>1. kCheapPrepend \in Nat /\ kInitialSize \in Nat /\ kCheapPrepend + kInitialSize \in Nat
  BY BufferAssumption
<1>2. /\ Fresh(kCheapPrepend + kInitialSize) \in Seq(Cell)
      /\ Len(Fresh(kCheapPrepend + kInitialSize)) = kCheapPrepend + kInitialSize
  BY <1>1 DEF Fresh
<1>3. IsBuffer(NewBuffer, Cell)
  BY <1>1, <1>2 DEF IsBuffer, NewBuffer
<1>4. readableBytes(NewBuffer) = 0
  BY <1>1 DEF readableBytes, NewBuffer
<1>5. Content(NewBuffer) \in Seq(Cell) /\ Len(Content(NewBuffer)) = 0
  BY <1>3, <1>4, ContentCells
<1> QED
  BY <1>3, <1>5, EmptySeq

(* ensureWritableBytes makes the room and leaves the content alone.        *)
LEMMA EnsureKeepsContent ==
  ASSUME NEW Cell, Blank \in Cell, NEW b, IsBuffer(b, Cell), NEW len \in Nat
  PROVE  /\ IsBuffer(ensureWritableBytes(b, len), Cell)
         /\ CanWrite(ensureWritableBytes(b, len), len)
         /\ Content(ensureWritableBytes(b, len)) = Content(b)
<1>1. CASE writableBytes(b) < len
  BY <1>1, MakeSpaceKeepsContent DEF ensureWritableBytes
<1>2. CASE ~(writableBytes(b) < len)
  <2>1. CanWrite(b, len)
    BY <1>2, LenProperties DEF CanWrite, writableBytes, IsBuffer
  <2> QED
    BY <1>2, <2>1 DEF ensureWritableBytes
<1> QED
  BY <1>1, <1>2

(* append() adds its data behind the content, whatever space has to be     *)
(* made: no byte is lost, moved or repeated.                               *)
THEOREM AppendAddsBehind ==
  ASSUME NEW Cell, Blank \in Cell, NEW b, IsBuffer(b, Cell), NEW d \in Seq(Cell)
  PROVE  /\ IsBuffer(append(b, d), Cell)
         /\ Content(append(b, d)) = Content(b) \o d
<1> DEFINE w == ensureWritableBytes(b, Len(d))
<1>1. Len(d) \in Nat
  BY LenProperties
<1>2. IsBuffer(w, Cell) /\ CanWrite(w, Len(d)) /\ Content(w) = Content(b)
  BY <1>1, EnsureKeepsContent
<1> HIDE DEF w
<1>3. IsBuffer(Written(w, d), Cell) /\ Content(Written(w, d)) = Content(w) \o d
  BY <1>2, WrittenAppends
<1>4. append(b, d) = Written(w, d)
  BY DEF append, w
<1> QED
  BY <1>2, <1>3, <1>4

(* retrieve() of no more than there is takes it off the front, and starts  *)
(* over at kCheapPrepend when it takes everything.                         *)
THEOREM RetrieveTakesFront ==
  ASSUME NEW Cell, NEW b, IsBuffer(b, Cell), NEW len \in Nat, CanRetrieve(b, len)
  PROVE  /\ IsBuffer(retrieve(b, len), Cell)
         /\ Content(b) = SubSeq(Content(b), 1, len) \o Content(retrieve(b, len))
<1> DEFINE w == retrieve(b, len)
           v == b.buffer_
           r == b.readerIndex_
           e == b.writerIndex_
           p == kCheapPrepend
           c == Content(b)
           c1 == SubSeq(c, 1, len)
           c2 == Content(w)
<1>1. /\ v \in Seq(Cell) /\ r \in Nat /\ e \in Nat /\ r <= e /\ e <= Len(v)
      /\ Len(v) \in Nat /\ p \in Nat /\ p <= Len(v) /\ len <= e - r
  BY LenProperties, BufferAssumption DEF IsBuffer, CanRetrieve, readableBytes
<1>2. /\ c \in Seq(Cell) /\ Len(c) = e - r
      /\ \A i \in 1 .. e - r : c[i] = v[r + i]
  BY ContentCells DEF readableBytes
<1>3. /\ c1 \in Seq(Cell) /\ Len(c1) = len
      /\ \A i \in 1 .. len : c1[i] = c[i]
  <2> HIDE DEF c, r, e, v
  <2> QED
    BY <1>1, <1>2, Part, 0 + 1 = 1, len - 0 = len, \A i \in 1 .. len : 0 + i = i
<1>4. CASE len < e - r
  <2>1. w = With(b, v, r + len, e)
    BY <1>1, <1>4 DEF retrieve, readableBytes, With, IsBuffer
  <2> HIDE DEF w, v, r, e, c, c1, c2
  <2>2. /\ v \in Seq(Cell) /\ r + len \in Nat /\ e \in Nat /\ r + len <= e /\ e <= Len(v)
        /\ p <= Len(v)
    BY <1>1
  <2>3. IsBuffer(w, Cell) /\ w.buffer_ = v /\ w.readerIndex_ = r + len /\ w.writerIndex_ = e
    BY <2>1, <2>2, Updated
  <2>4. readableBytes(w) = e - (r + len)
    BY <2>3 DEF readableBytes
  <2>5. /\ c2 \in Seq(Cell) /\ Len(c2) = e - (r + len)
        /\ \A i \in 1 .. e - (r + len) : c2[i] = v[r + len + i]
    BY <2>3, <2>4, ContentCells DEF c2
  <2> DEFINE cc == c1 \o c2
  <2>6. /\ cc \in Seq(Cell) /\ Len(cc) = Len(c1) + Len(c2)
        /\ \A i \in 1 .. Len(c1) + Len(c2) :
             cc[i] = IF i <= Len(c1) THEN c1[i] ELSE c2[i - Len(c1)]
    <3>1. c1 \in Seq(Cell) /\ c2 \in Seq(Cell)
      BY <1>3, <2>5
    <3> QED
      BY <3>1, ConcatProperties
  <2> HIDE DEF cc
  <2>7. Len(c1) + Len(c2) = e - r /\ Len(c1) = len
    BY <1>1, <1>3, <2>5
  <2>8. \A i \in 1 .. e - r : cc[i] = IF i <= len THEN c1[i] ELSE c2[i - len]
    BY <2>6, <2>7, Zenon
  <2>9. ASSUME NEW i \in 1 .. e - r
        PROVE  c[i] = cc[i]
    <3>1. CASE i <= len
      BY <3>1, <1>1, <1>3, <2>8
    <3>2. CASE ~(i <= len)
      <4> DEFINE j == i - len
      <4>1. j \in 1 .. e - (r + len) /\ r + len + j = r + i
        BY <3>2, <1>1
      <4> HIDE DEF j
      <4>2. c2[j] = v[r + len + j]
        BY <4>1, <2>5, Zenon
      <4>3. cc[i] = c2[j]
        BY <3>2, <2>8 DEF j
      <4>4. c[i] = v[r + i]
        BY <1>2
      <4> QED
        BY <4>1, <4>2, <4>3, <4>4, Zenon
    <3> QED
      BY <3>1, <3>2
  <2>10. c = cc
    BY <1>2, <2>6, <2>7, <2>9, SeqEqual
  <2> QED
    BY <2>3, <2>10 DEF w, c, c1, c2, cc
<1>5. CASE len = e - r
  <2>1. w = With(b, v, p, p)
    <3>1. ~(len < readableBytes(b))
      BY <1>1, <1>5 DEF readableBytes
    <3>2. w = retrieveAll(b)
      BY <3>1 DEF retrieve
    <3> QED
      BY <3>2 DEF retrieveAll, With, IsBuffer
  <2> HIDE DEF w, v, r, e, c, c1, c2
  <2>2. v \in Seq(Cell) /\ p \in Nat /\ p <= p /\ p <= Len(v)
    BY <1>1
  <2>3. IsBuffer(w, Cell) /\ w.readerIndex_ = p /\ w.writerIndex_ = p
    BY <2>1, <2>2, Updated
  <2>4. readableBytes(w) = 0
    BY <1>1, <2>3 DEF readableBytes
  <2>5. c2 \in Seq(Cell) /\ Len(c2) = 0
    BY <2>3, <2>4, ContentCells DEF c2
  <2>6. c2 = <<>>
    BY <2>5, EmptySeq
  <2>7. c1 = c
    BY <1>2, <1>3, <1>5, SeqEqual
  <2>8. c1 \o c2 = c
    BY <1>2, <2>6, <2>7, ConcatEmptySeq
  <2> QED
    BY <2>3, <2>8 DEF w, c, c1, c2
<1> QED
  BY <1>1, <1>4, <1>5
(* readFd() adds what it has read behind the content, when part of it went *)
(* through the stack buffer too.                                           *)
THEOREM ReadFdAddsBehind ==
  ASSUME NEW Cell, Blank \in Cell, NEW b, IsBuffer(b, Cell), NEW d \in Seq(Cell)
  PROVE  /\ IsBuffer(readFd(b, d), Cell)
         /\ Content(readFd(b, d)) = Content(b) \o d
<1> DEFINE w == writableBytes(b)
           d1 == SubSeq(d, 1, w)
           d2 == SubSeq(d, w + 1, Len(d))
           b1 == Written(b, d1)
<1>1. w \in Nat /\ Len(d) \in Nat
  BY LenProperties DEF IsBuffer, writableBytes
<1>2. CASE Len(d) <= w
  <2>1. CanWrite(b, Len(d))
    BY <1>2 DEF CanWrite
  <2> QED
    BY <1>2, <2>1, WrittenAppends DEF readFd
<1>3. CASE ~(Len(d) <= w)
  <2> HIDE DEF w
  <2>1. /\ d1 \in Seq(Cell) /\ Len(d1) = w
        /\ \A i \in 1 .. w : d1[i] = d[i]
    BY <1>1, <1>3, Part, 0 + 1 = 1, w - 0 = w, \A i \in 1 .. w : 0 + i = i
  <2>2. /\ d2 \in Seq(Cell) /\ Len(d2) = Len(d) - w
        /\ \A i \in 1 .. Len(d) - w : d2[i] = d[w + i]
    BY <1>1, <1>3, Part
  <2> HIDE DEF d1, d2
  <2>3. d1 \o d2 = d
    <3> DEFINE dd == d1 \o d2
    <3>1. d1 \in Seq(Cell) /\ d2 \in Seq(Cell)
      BY <2>1, <2>2
    <3>2. /\ dd \in Seq(Cell) /\ Len(dd) = Len(d1) + Len(d2)
          /\ \A i \in 1 .. Len(d1) + Len(d2) :
               dd[i] = IF i <= Len(d1) THEN d1[i] ELSE d2[i - Len(d1)]
      BY <3>1, ConcatProperties
    <3> HIDE DEF dd
    <3>3. Len(d1) = w /\ Len(d1) + Len(d2) = Len(d)
      BY <1>1, <1>3, <2>1, <2>2
    <3>4. \A i \in 1 .. Len(d) : dd[i] = IF i <= w THEN d1[i] ELSE d2[i - w]
      BY <3>2, <3>3, Zenon
    <3>5. ASSUME NEW i \in 1 .. Len(d)
          PROVE  dd[i] = d[i]
      <4>1. CASE i <= w
        BY <4>1, <1>1, <2>1, <3>4
      <4>2. CASE ~(i <= w)
        <5> DEFINE j == i - w
        <5>1. j \in 1 .. Len(d) - w /\ w + j = i
          BY <4>2, <1>1
        <5>2. dd[i] = d2[j]
          BY <4>2, <3>4
        <5> HIDE DEF j
        <5>3. d2[j] = d[w + j]
          BY <5>1, <2>2, Zenon
        <5> QED
          BY <5>1, <5>2, <5>3, Zenon
      <4> QED
        BY <4>1, <4>2
    <3>6. dd = d
      BY <3>2, <3>3, <3>5, SeqEqual
    <3> QED
      BY <3>6 DEF dd
  <2>4. CanWrite(b, Len(d1))
    BY <1>1, <2>1 DEF CanWrite, w
  <2>5. IsBuffer(b1, Cell) /\ Content(b1) = Content(b) \o d1
    BY <2>1, <2>4, WrittenAppends
  <2>6. readFd(b, d) = append(b1, d2)
    BY <1>3 DEF readFd, w, d1, d2
  <2> HIDE DEF b1
  <2>7. IsBuffer(append(b1, d2), Cell) /\ Content(append(b1, d2)) = Content(b1) \o d2
    BY <2>2, <2>5, AppendAddsBehind
  <2>8. (Content(b) \o d1) \o d2 = Content(b) \o (d1 \o d2)
    <3>1. Content(b) \in Seq(Cell) /\ d1 \in Seq(Cell) /\ d2 \in Seq(Cell)
      BY <2>1, <2>2, ContentCells
    <3> QED
      BY <3>1, ConcatAssociative, SMTT(60)
  <2> QED
    BY <2>3, <2>5, <2>6, <2>7, <2>8
<1> QED
  BY <1>2, <1>3

(* shrink() builds a new vector with the same content.                     *)
THEOREM ShrinkKeepsContent ==
  ASSUME NEW Cell, Blank \in Cell, NEW b, IsBuffer(b, Cell), NEW reserve \in Nat
  PROVE  /\ IsBuffer(shrink(b, reserve), Cell)
         /\ Content(shrink(b, reserve)) = Content(b)
<1> DEFINE n == readableBytes(b) + reserve
           w == ensureWritableBytes(NewBuffer, n)
           c == Content(b)
<1>1. c \in Seq(Cell) /\ n \in Nat
  BY ContentCells
<1>2. IsBuffer(NewBuffer, Cell) /\ Content(NewBuffer) = <<>>
  BY NewBufferIsEmpty
<1> HIDE DEF n
<1>3. IsBuffer(w, Cell) /\ Content(w) = <<>>
  BY <1>1, <1>2, EnsureKeepsContent
<1>4. shrink(b, reserve) = append(w, c)
  BY DEF shrink, n
<1> HIDE DEF w, c
<1>5. IsBuffer(append(w, c), Cell) /\ Content(append(w, c)) = <<>> \o c
  BY <1>1, <1>3, AppendAddsBehind
<1>6. <<>> \o c = c
  BY <1>1, ConcatEmptySeq
<1> QED
  BY <1>4, <1>5, <1>6 DEF c

(* prepend() of what fits adds it in front of the content, which stays.    *)
THEOREM PrependAddsFront ==
  ASSUME NEW Cell, NEW b, IsBuffer(b, Cell), NEW d \in Seq(Cell), CanPrepend(b, d)
  PROVE  /\ IsBuffer(prepend(b, d), Cell)
         /\ Content(prepend(b, d)) = d \o Content(b)
<1> DEFINE w == prepend(b, d)
           v == b.buffer_
           r == b.readerIndex_
           e == b.writerIndex_
           k == Len(d)
           u == Overwritten(v, r - k, d)
           c == Content(b)
           dc == d \o c
<1>1. /\ v \in Seq(Cell) /\ r \in Nat /\ e \in Nat /\ r <= e /\ e <= Len(v)
      /\ Len(v) \in Nat /\ k \in Nat /\ k <= r /\ kCheapPrepend <= Len(v)
  BY LenProperties DEF IsBuffer, CanPrepend, prependableBytes
<1>2. /\ c \in Seq(Cell) /\ Len(c) = e - r
      /\ \A i \in 1 .. e - r : c[i] = v[r + i]
  BY ContentCells DEF readableBytes
<1>3. w = With(b, u, r - k, e)
  BY DEF prepend, IsBuffer, With
<1> HIDE DEF w, v, r, e, c
<1>4. /\ u \in Seq(Cell) /\ Len(u) = Len(v)
      /\ \A i \in 1 .. Len(v) :
           u[i] = IF r - k < i /\ i <= r - k + k THEN d[i - (r - k)] ELSE v[i]
  <2>1. r - k \in Nat /\ r - k + k <= Len(v)
    BY <1>1
  <2> QED
    BY <1>1, <2>1, OverwrittenCells
<1> HIDE DEF u
<1>5. /\ u \in Seq(Cell) /\ r - k \in Nat /\ e \in Nat /\ r - k <= e /\ e <= Len(u)
      /\ kCheapPrepend <= Len(u)
  BY <1>1, <1>4
<1>6. IsBuffer(w, Cell) /\ w.buffer_ = u /\ w.readerIndex_ = r - k /\ w.writerIndex_ = e
  BY <1>3, <1>5, Updated
<1>7. /\ dc \in Seq(Cell) /\ Len(dc) = k + Len(c)
      /\ \A i \in 1 .. k + Len(c) : dc[i] = IF i <= k THEN d[i] ELSE c[i - k]
  BY <1>2, ConcatProperties
<1> HIDE DEF k, dc
<1>8. Len(dc) = readableBytes(w) /\ Len(dc) = k + (e - r)
  BY <1>1, <1>2, <1>6, <1>7 DEF readableBytes
<1>9. ASSUME NEW i \in 1 .. Len(dc)
      PROVE  w.buffer_[w.readerIndex_ + i] = dc[i]
  <2> DEFINE j == (r - k) + i
  <2>1. j \in 1 .. Len(v) /\ r - k < j /\ r - k + k = r /\ j - (r - k) = i
    BY <1>1, <1>8
  <2>2. i \in 1 .. k + Len(c)
    BY <1>2, <1>8
  <2>3. dc[i] = IF i <= k THEN d[i] ELSE c[i - k]
    BY <2>2, <1>7, Zenon
  <2>4. i <= k <=> j <= r
    BY <1>1, <1>8
  <2>5. ~(i <= k) => i - k \in 1 .. e - r /\ r + (i - k) = j
    BY <1>1, <1>8
  <2> HIDE DEF j
  <2>6. u[j] = IF r - k < j /\ j <= r - k + k THEN d[j - (r - k)] ELSE v[j]
    BY <2>1, <1>4, Zenon
  <2>7. ~(i <= k) => c[i - k] = v[j]
    BY <2>5, <1>2, Zenon
  <2>8. u[j] = dc[i]
    BY <2>1, <2>3, <2>4, <2>6, <2>7, Zenon
  <2> QED
    BY <2>8, <1>6 DEF j
<1>10. Content(w) = dc
  <2>1. dc \in Seq(Cell)
    BY <1>7
  <2> QED
    BY <2>1, <1>6, <1>8, <1>9, ContentIs
<1> QED
  BY <1>6, <1>10 DEF w, dc, c

(* unwrite() of no more than there is takes it off the end.                *)
THEOREM UnwriteTakesEnd ==
  ASSUME NEW Cell, NEW b, IsBuffer(b, Cell), NEW len \in Nat, CanUnwrite(b, len)
  PROVE  /\ IsBuffer(unwrite(b, len), Cell)
         /\ Content(unwrite(b, len)) = SubSeq(Content(b), 1, readableBytes(b) - len)
<1> DEFINE w == unwrite(b, len)
           v == b.buffer_
           r == b.readerIndex_
           e == b.writerIndex_
           c == Content(b)
           n == e - r - len
           c1 == SubSeq(c, 1, n)
<1>1. /\ v \in Seq(Cell) /\ r \in Nat /\ e \in Nat /\ r <= e /\ e <= Len(v)
      /\ Len(v) \in Nat /\ len <= e - r /\ kCheapPrepend <= Len(v)
      /\ readableBytes(b) - len = n
  BY LenProperties DEF IsBuffer, CanUnwrite, readableBytes
<1>2. /\ c \in Seq(Cell) /\ Len(c) = e - r
      /\ \A i \in 1 .. e - r : c[i] = v[r + i]
  BY ContentCells DEF readableBytes
<1>3. w = With(b, v, r, e - len)
  BY DEF unwrite, IsBuffer, With
<1> HIDE DEF w, v, r, e, c
<1>4. n \in Nat /\ n <= Len(c)
  BY <1>1, <1>2
<1> HIDE DEF n
<1>5. /\ c1 \in Seq(Cell) /\ Len(c1) = n
      /\ \A i \in 1 .. n : c1[i] = c[i]
  BY <1>2, <1>4, Part, 0 + 1 = 1, n - 0 = n, \A i \in 1 .. n : 0 + i = i
<1> HIDE DEF c1
<1>6. /\ v \in Seq(Cell) /\ r \in Nat /\ e - len \in Nat /\ r <= e - len /\ e - len <= Len(v)
      /\ kCheapPrepend <= Len(v)
  BY <1>1
<1>7. IsBuffer(w, Cell) /\ w.buffer_ = v /\ w.readerIndex_ = r /\ w.writerIndex_ = e - len
  BY <1>3, <1>6, Updated
<1>8. Len(c1) = readableBytes(w)
  BY <1>1, <1>5, <1>7 DEF readableBytes, n
<1>9. ASSUME NEW i \in 1 .. Len(c1)
      PROVE  w.buffer_[w.readerIndex_ + i] = c1[i]
  <2>1. i \in 1 .. n /\ i \in 1 .. e - r
    BY <1>1, <1>5 DEF n
  <2> QED
    BY <2>1, <1>2, <1>5, <1>7
<1>10. Content(w) = c1
  BY <1>5, <1>7, <1>8, <1>9, ContentIs
<1> QED
  BY <1>1, <1>7, <1>10 DEF w, c1, c, n

-----------------------------------------------------------------------------
(* Sequences that are put together and taken apart.                        *)

LEMMA Join ==
  ASSUME NEW T, NEW s \in Seq(T), NEW t \in Seq(T), NEW m, NEW n, m = Len(s), n = Len(t)
  PROVE  /\ s \o t \in Seq(T) /\ Len(s \o t) = m + n
         /\ \A i \in 1 .. m : (s \o t)[i] = s[i]
         /\ \A i \in 1 .. n : (s \o t)[m + i] = t[i]
<1> DEFINE u == s \o t
<1>1. m \in Nat /\ n \in Nat
  BY LenProperties
<1>2. /\ u \in Seq(T) /\ Len(u) = Len(s) + Len(t)
      /\ \A i \in 1 .. Len(s) + Len(t) : u[i] = IF i <= Len(s) THEN s[i] ELSE t[i - Len(s)]
  BY ConcatProperties
<1> HIDE DEF u
<1>3. \A i \in 1 .. n : m + i \in 1 .. m + n /\ ~(m + i <= m) /\ (m + i) - m = i
  BY <1>1
<1>4. \A i \in 1 .. m : i \in 1 .. m + n /\ i <= m
  BY <1>1
<1>5. u \in Seq(T) /\ Len(u) = m + n
  BY <1>1, <1>2
<1>6. \A i \in 1 .. m + n : u[i] = IF i <= m THEN s[i] ELSE t[i - m]
  BY <1>1, <1>2
<1>7. \A i \in 1 .. m : u[i] = s[i]
  BY <1>4, <1>6
<1>8. \A i \in 1 .. n : u[m + i] = t[i]
  BY <1>3, <1>6
<1> QED BY <1>5, <1>7, <1>8 DEF u

LEMMA FirstOf ==
  ASSUME NEW T, NEW c \in Seq(T), NEW n \in Nat, n <= Len(c)
  PROVE  /\ SubSeq(c, 1, n) \in Seq(T) /\ Len(SubSeq(c, 1, n)) = n
         /\ \A i \in 1 .. n : SubSeq(c, 1, n)[i] = c[i]
<1> DEFINE p == 0
<1>1. p \in Nat /\ p <= n /\ p + 1 = 1 /\ n - p = n /\ \A i \in 1 .. n : p + i = i
  OBVIOUS
<1> HIDE DEF p
<1>2. /\ SubSeq(c, p + 1, n) \in Seq(T) /\ Len(SubSeq(c, p + 1, n)) = n - p
      /\ \A i \in 1 .. n - p : SubSeq(c, p + 1, n)[i] = c[p + i]
  BY <1>1, Part
<1> QED BY <1>1, <1>2

LEMMA SameCells ==
  ASSUME NEW S, NEW T, NEW s \in Seq(S), NEW t \in Seq(T), Len(s) = Len(t),
         \A i \in 1 .. Len(s) : s[i] = t[i]
  PROVE  s = t
<1>1. /\ s = [i \in 1 .. Len(s) |-> s[i]] /\ t = [i \in 1 .. Len(t) |-> t[i]]
  BY LenProperties
<1> QED BY <1>1, Zenon

LEMMA FrontAndRest ==
  ASSUME NEW T, NEW w \in Seq(T), NEW n \in Nat, n <= Len(w)
  PROVE  w = SubSeq(w, 1, n) \o SubSeq(w, n + 1, Len(w))
<1> DEFINE u == SubSeq(w, 1, n)
           v == SubSeq(w, n + 1, Len(w))
           N == Len(w)
           k == Len(u)
           l == Len(v)
<1>1. N \in Nat
  BY LenProperties
<1>2. u \in Seq(T) /\ k = n /\ \A i \in 1 .. n : u[i] = w[i]
  BY FirstOf
<1>3. v \in Seq(T) /\ l = N - n /\ \A i \in 1 .. N - n : v[i] = w[n + i]
  BY <1>1, Part
<1> HIDE DEF u, v, k, l
<1> DEFINE z == u \o v
<1>4. z \in Seq(T) /\ Len(z) = k + l
  <2>1. u \in Seq(T) /\ v \in Seq(T) /\ k = Len(u) /\ l = Len(v)
    BY <1>2, <1>3 DEF k, l
  <2> QED BY <2>1, Join
<1>5. \A i \in 1 .. k : z[i] = u[i]
  <2>1. u \in Seq(T) /\ v \in Seq(T) /\ k = Len(u) /\ l = Len(v)
    BY <1>2, <1>3 DEF k, l
  <2> QED BY <2>1, Join
<1>6. \A j \in 1 .. l : z[k + j] = v[j]
  <2>1. u \in Seq(T) /\ v \in Seq(T) /\ k = Len(u) /\ l = Len(v)
    BY <1>2, <1>3 DEF k, l
  <2> QED BY <2>1, Join
<1> HIDE DEF z, N
<1>7. Len(z) = N
  BY <1>1, <1>2, <1>3, <1>4
<1>8. ASSUME NEW i \in 1 .. N
      PROVE  z[i] = w[i]
  <2>1. CASE i <= n
    <3>1. i \in 1 .. k /\ i \in 1 .. n
      BY <1>1, <1>2, <2>1
    <3> QED BY <1>2, <1>5, <3>1
  <2>2. CASE ~(i <= n)
    <3>1. i - n \in 1 .. l /\ i - n \in 1 .. N - n /\ k + (i - n) = i /\ n + (i - n) = i
      BY <1>1, <1>2, <1>3, <2>2
    <3>2. z[k + (i - n)] = v[i - n] /\ v[i - n] = w[n + (i - n)]
      BY <1>3, <1>6, <3>1
    <3> QED BY <3>1, <3>2
  <2> QED BY <2>1, <2>2
<1>9. z = w
  BY <1>4, <1>7, <1>8, SameCells DEF N
<1> QED BY <1>9 DEF z, u, v

-----------------------------------------------------------------------------
(* Streams of frames, by whatever codec.                                   *)

(* A stream S consists of frames for the entries of q after the first k:   *)
(* entry j ends at off[j].  F has the frames that there are for an entry.  *)
Cuts(F, off, S, q, k) ==
  /\ off \in [k .. Len(q) -> Nat] /\ off[k] = 0 /\ off[Len(q)] = Len(S)
  /\ \A i, j \in k .. Len(q) : i <= j => off[i] <= off[j]
  /\ \A j \in k + 1 .. Len(q) : \E f \in F[q[j]] :
       /\ off[j] = off[j - 1] + Len(f)
       /\ \A i \in 1 .. Len(f) : S[off[j - 1] + i] = f[i]
Framed(F, S, q, k) == \E off : Cuts(F, off, S, q, k)
IsFraming(F, E, C) == \A x \in E : \A f \in F[x] : f \in Seq(C)

LEMMA FrameLen ==
  ASSUME NEW C, NEW E, NEW F, IsFraming(F, E, C), NEW x \in E, NEW f \in F[x]
  PROVE  f \in Seq(C) /\ Len(f) \in Nat
BY LenProperties DEF IsFraming

(* A frame is sent. *)
LEMMA FramedSend ==
  ASSUME NEW C, NEW E, NEW F, IsFraming(F, E, C),
         NEW S \in Seq(C), NEW q \in Seq(E), NEW k \in Nat, k <= Len(q),
         Framed(F, S, q, k), NEW x \in E, NEW f \in F[x]
  PROVE  Framed(F, S \o f, Append(q, x), k)
<1> DEFINE n == Len(q)
           N == Len(S)
           L == Len(f)
           T == S \o f
           r == Append(q, x)
<1>1. PICK off : Cuts(F, off, S, q, k)
  BY DEF Framed
<1> DEFINE p == [j \in k .. n + 1 |-> IF j = n + 1 THEN N + L ELSE off[j]]
<1>2. n \in Nat /\ N \in Nat /\ f \in Seq(C) /\ L \in Nat
  BY LenProperties, FrameLen
<1>3. Len(T) = N + L /\ (\A i \in 1 .. N : T[i] = S[i]) /\ (\A i \in 1 .. L : T[N + i] = f[i])
  <2>1. S \in Seq(C) /\ f \in Seq(C) /\ N = Len(S) /\ L = Len(f)
    BY <1>2
  <2> HIDE DEF N, L
  <2> QED BY <2>1, Join
<1>4. Len(r) = n + 1 /\ r[n + 1] = x /\ \A i \in 1 .. n : r[i] = q[i]
  BY <1>2, AppendProperties
<1>5. /\ off \in [k .. n -> Nat] /\ off[k] = 0 /\ off[n] = N
      /\ \A i, j \in k .. n : i <= j => off[i] <= off[j]
      /\ \A j \in k + 1 .. n : \E g \in F[q[j]] :
           /\ off[j] = off[j - 1] + Len(g)
           /\ \A i \in 1 .. Len(g) : S[off[j - 1] + i] = g[i]
  BY <1>1 DEF Cuts
<1> HIDE DEF n, N, L, T, r
<1>6. /\ p \in [k .. n + 1 -> Nat] /\ p[n + 1] = N + L
      /\ \A j \in k .. n : p[j] = off[j] /\ j # n + 1 /\ p[j] <= N
  <2>1. \A j \in k .. n : j \in k .. n + 1 /\ j # n + 1 /\ n \in k .. n /\ j <= n
    BY <1>2
  <2>2. n + 1 \in k .. n + 1
    BY <1>2 DEF n
  <2>3. \A j \in k .. n + 1 : j # n + 1 => j \in k .. n
    BY <1>2
  <2> QED BY <1>2, <1>5, <2>1, <2>2, <2>3
<1> HIDE DEF p
<1>7. p[k] = 0
  BY <1>2, <1>5, <1>6 DEF n
<1>8. ASSUME NEW i \in k .. n + 1, NEW j \in k .. n + 1, i <= j
      PROVE  p[i] <= p[j]
  <2>1. CASE j = n + 1
    <3>1. i = n + 1 \/ i \in k .. n
      BY <1>2
    <3> QED BY <1>2, <1>5, <1>6, <2>1, <3>1
  <2>2. CASE j # n + 1
    <3>1. i \in k .. n /\ j \in k .. n
      BY <1>2, <1>8, <2>2
    <3> QED BY <1>5, <1>6, <1>8, <3>1
  <2> QED BY <2>1, <2>2
<1>9. ASSUME NEW j \in k + 1 .. n + 1
      PROVE  \E g \in F[r[j]] :
               /\ p[j] = p[j - 1] + Len(g)
               /\ \A i \in 1 .. Len(g) : T[p[j - 1] + i] = g[i]
  <2>1. CASE j = n + 1
    <3>1. n \in k .. n /\ j - 1 = n /\ p[n] = N
      BY <1>2, <1>5, <1>6, <2>1 DEF n
    <3>2. f \in F[r[j]] /\ p[j] = p[j - 1] + Len(f)
      BY <1>4, <1>6, <2>1, <3>1 DEF L
    <3>3. \A i \in 1 .. Len(f) : T[p[j - 1] + i] = f[i]
      BY <1>3, <3>1 DEF L
    <3> QED BY <3>2, <3>3
  <2>2. CASE j # n + 1
    <3>1. j \in k + 1 .. n /\ j - 1 \in k .. n /\ j \in k .. n /\ j \in 1 .. n
      BY <1>2, <2>2
    <3>2. PICK g \in F[q[j]] :
            /\ off[j] = off[j - 1] + Len(g)
            /\ \A i \in 1 .. Len(g) : S[off[j - 1] + i] = g[i]
      BY <1>5, <3>1
    <3>3. r[j] = q[j] /\ p[j] = off[j] /\ p[j - 1] = off[j - 1] /\ off[j] <= N
          /\ off[j - 1] \in Nat /\ off[j] \in Nat
      BY <1>4, <1>5, <1>6, <3>1
    <3>4. g \in Seq(C) /\ Len(g) \in Nat
      <4>1. q[j] \in E
        BY <3>1, ElementOfSeq DEF n
      <4> QED BY <3>2, <4>1, FrameLen
    <3>5. \A i \in 1 .. Len(g) : off[j - 1] + i \in 1 .. N
      BY <1>2, <3>2, <3>3, <3>4
    <3>6. \A i \in 1 .. Len(g) : T[off[j - 1] + i] = g[i]
      BY <1>3, <3>2, <3>5
    <3> QED BY <3>2, <3>3, <3>6
  <2> QED BY <2>1, <2>2
<1>10. Cuts(F, p, T, r, k)
  <2>1. Len(r) = n + 1 /\ Len(T) = N + L
    BY <1>3, <1>4
  <2>2. p \in [k .. Len(r) -> Nat] /\ p[k] = 0 /\ p[Len(r)] = Len(T)
    BY <1>6, <1>7, <2>1
  <2>3. \A i, j \in k .. Len(r) : i <= j => p[i] <= p[j]
    BY <1>8, <2>1, Zenon
  <2>4. \A j \in k + 1 .. Len(r) : \E g \in F[r[j]] :
          /\ p[j] = p[j - 1] + Len(g)
          /\ \A i \in 1 .. Len(g) : T[p[j - 1] + i] = g[i]
    BY <1>9, <2>1, Zenon
  <2> QED BY <2>2, <2>3, <2>4, Zenon DEF Cuts
<1> QED BY <1>10 DEF Framed, T, r

(* What is at the front of the stream. *)
LEMMA FramedFirst ==
  ASSUME NEW C, NEW E, NEW F, IsFraming(F, E, C),
         NEW S \in Seq(C), NEW q \in Seq(E), NEW k \in Nat, k <= Len(q),
         Framed(F, S, q, k)
  PROVE  /\ k = Len(q) => Len(S) = 0
         /\ k < Len(q) => /\ k + 1 \in 1 .. Len(q)
                          /\ \E f \in F[q[k + 1]] :
                               /\ Len(f) <= Len(S)
                               /\ \A i \in 1 .. Len(f) : S[i] = f[i]
<1>1. PICK off : Cuts(F, off, S, q, k)
  BY DEF Framed
<1>2. Len(q) \in Nat
  BY LenProperties
<1>3. k = Len(q) => Len(S) = 0
  BY <1>1 DEF Cuts
<1>4. ASSUME k < Len(q)
      PROVE  /\ k + 1 \in 1 .. Len(q)
             /\ \E f \in F[q[k + 1]] :
                  /\ Len(f) <= Len(S)
                  /\ \A i \in 1 .. Len(f) : S[i] = f[i]
  <2>1. /\ k + 1 \in k + 1 .. Len(q) /\ (k + 1) - 1 = k /\ k + 1 \in 1 .. Len(q)
        /\ k + 1 \in k .. Len(q) /\ Len(q) \in k .. Len(q) /\ k + 1 <= Len(q)
    BY <1>2, <1>4
  <2>2. PICK f \in F[q[k + 1]] :
          /\ off[k + 1] = off[k] + Len(f)
          /\ \A i \in 1 .. Len(f) : S[off[k] + i] = f[i]
    <3>1. \E f \in F[q[k + 1]] :
            /\ off[k + 1] = off[(k + 1) - 1] + Len(f)
            /\ \A i \in 1 .. Len(f) : S[off[(k + 1) - 1] + i] = f[i]
      BY <1>1, <2>1, Zenon DEF Cuts
    <3> QED BY <2>1, <3>1
  <2>3. off[k] = 0 /\ off[k + 1] <= Len(S)
    BY <1>1, <2>1 DEF Cuts
  <2>4. Len(f) \in Nat
    <3>1. q[k + 1] \in E
      BY <2>1, ElementOfSeq
    <3> QED BY <3>1, FrameLen
  <2>5. off[k + 1] = Len(f) /\ \A i \in 1 .. Len(f) : off[k] + i = i
    BY <2>2, <2>3, <2>4
  <2>6. Len(f) <= Len(S)
    BY <2>3, <2>5
  <2>7. \A i \in 1 .. Len(f) : S[i] = f[i]
    BY <2>2, <2>5
  <2> QED BY <2>1, <2>6, <2>7
<1> QED BY <1>3, <1>4

(* The first message is taken. *)
LEMMA FramedTake ==
  ASSUME NEW C, NEW E, NEW F, IsFraming(F, E, C),
         NEW S \in Seq(C), NEW q \in Seq(E), NEW k \in Nat, k < Len(q),
         Framed(F, S, q, k),
         NEW h \in Seq(C), NEW T \in Seq(C), S = h \o T,
         \A f \in F[q[k + 1]] : Len(f) = Len(h)
  PROVE  Framed(F, T, q, k + 1)
<1> DEFINE n == Len(q)
           H == Len(h)
           N == Len(T)
<1>1. PICK off : Cuts(F, off, S, q, k)
  BY DEF Framed
<1>2. n \in Nat /\ H \in Nat /\ N \in Nat
  BY LenProperties
<1>3. Len(S) = H + N /\ \A i \in 1 .. N : S[H + i] = T[i]
  <2>1. h \in Seq(C) /\ T \in Seq(C) /\ H = Len(h) /\ N = Len(T)
    OBVIOUS
  <2> HIDE DEF H, N
  <2>2. Len(h \o T) = H + N /\ \A i \in 1 .. N : (h \o T)[H + i] = T[i]
    BY <2>1, Join
  <2> QED BY <2>2
<1>4. /\ off \in [k .. n -> Nat] /\ off[k] = 0 /\ off[n] = H + N
      /\ \A i, j \in k .. n : i <= j => off[i] <= off[j]
      /\ \A j \in k + 1 .. n : \E g \in F[q[j]] :
           /\ off[j] = off[j - 1] + Len(g)
           /\ \A i \in 1 .. Len(g) : S[off[j - 1] + i] = g[i]
  BY <1>1, <1>3 DEF Cuts
<1>5. /\ k + 1 \in k + 1 .. n /\ (k + 1) - 1 = k /\ k + 1 \in k .. n
      /\ \A j \in k + 1 .. n : j \in k .. n /\ k + 1 <= j
  BY <1>2
<1>6. off[k + 1] = H
  <2>1. PICK g \in F[q[k + 1]] : off[k + 1] = off[k] + Len(g)
    <3>1. \E g \in F[q[k + 1]] : off[k + 1] = off[(k + 1) - 1] + Len(g)
      BY <1>4, <1>5, Zenon
    <3> QED BY <1>5, <3>1, Zenon
  <2>3. off[k] = 0 /\ H = Len(g) /\ off[k + 1] = off[k] + Len(g)
    BY <1>4, <2>1
  <2> HIDE DEF H
  <2> QED BY <1>2, <2>3
<1> DEFINE p == [j \in k + 1 .. n |-> off[j] - H]
<1> HIDE DEF n, H, N
<1>7. ASSUME NEW j \in k + 1 .. n
      PROVE  p[j] = off[j] - H /\ off[j] >= H /\ off[j] \in Nat /\ p[j] \in Nat
  <2>1. off[j] \in Nat /\ off[k + 1] <= off[j]
    BY <1>4, <1>5
  <2>2. p[j] = off[j] - H
    OBVIOUS
  <2> HIDE DEF p
  <2> QED BY <1>2, <1>6, <2>1, <2>2
<1>8. p \in [k + 1 .. n -> Nat]
  BY <1>7
<1> HIDE DEF p
<1>9. p[k + 1] = 0 /\ p[n] = N
  <2>1. n \in k + 1 .. n
    BY <1>2 DEF n
  <2>2. p[k + 1] = off[k + 1] - H /\ p[n] = off[n] - H
    BY <1>5, <1>7, <2>1
  <2> QED BY <1>2, <1>4, <1>6, <2>2
<1>10. \A i, j \in k + 1 .. n : i <= j => p[i] <= p[j]
  <2> SUFFICES ASSUME NEW i \in k + 1 .. n, NEW j \in k + 1 .. n, i <= j
               PROVE  p[i] <= p[j]
    OBVIOUS
  <2>1. off[i] <= off[j]
    BY <1>4, <1>5
  <2>2. /\ p[i] = off[i] - H /\ off[i] \in Nat
        /\ p[j] = off[j] - H /\ off[j] \in Nat
    BY <1>7
  <2> QED BY <1>2, <2>1, <2>2
<1>11. ASSUME NEW j \in (k + 1) + 1 .. n
       PROVE  \E g \in F[q[j]] :
                /\ p[j] = p[j - 1] + Len(g)
                /\ \A i \in 1 .. Len(g) : T[p[j - 1] + i] = g[i]
  <2>1. j \in k + 1 .. n /\ j - 1 \in k + 1 .. n /\ j \in 1 .. n
    BY <1>2
  <2>2. PICK g \in F[q[j]] :
          /\ off[j] = off[j - 1] + Len(g)
          /\ \A i \in 1 .. Len(g) : S[off[j - 1] + i] = g[i]
    BY <1>4, <2>1
  <2>3. Len(g) \in Nat
    <3>1. q[j] \in E
      BY <2>1, ElementOfSeq DEF n
    <3> QED BY <3>1, FrameLen
  <2>4. /\ p[j] = off[j] - H /\ p[j - 1] = off[j - 1] - H /\ p[j - 1] \in Nat
        /\ off[j - 1] \in Nat /\ off[j] \in Nat /\ off[j] <= H + N
    <3>1. n \in k .. n /\ j <= n /\ j \in k .. n
      BY <1>2, <2>1
    <3>2. off[j] <= off[n]
      BY <1>4, <3>1
    <3> QED BY <1>4, <1>7, <2>1, <3>2
  <2>5. p[j] = p[j - 1] + Len(g)
    BY <1>2, <2>2, <2>3, <2>4
  <2>6. ASSUME NEW i \in 1 .. Len(g)
        PROVE  T[p[j - 1] + i] = g[i]
    <3>1. p[j - 1] + i \in 1 .. N /\ H + (p[j - 1] + i) = off[j - 1] + i
      <4> DEFINE a == off[j - 1]
                 d == p[j - 1]
                 L == Len(g)
      <4>1. /\ i \in Nat /\ 1 <= i /\ i <= L /\ L \in Nat /\ a \in Nat /\ d \in Nat
            /\ a + L <= H + N /\ d = a - H
        BY <2>2, <2>3, <2>4
      <4> HIDE DEF a, d, L
      <4>2. d + i \in 1 .. N /\ H + (d + i) = a + i
        BY <1>2, <4>1
      <4> QED BY <4>2 DEF a, d
    <3>2. S[H + (p[j - 1] + i)] = T[p[j - 1] + i]
      BY <1>3, <3>1
    <3> QED BY <2>2, <3>1, <3>2
  <2> QED BY <2>5, <2>6
<1>12. Cuts(F, p, T, q, k + 1)
  BY <1>8, <1>9, <1>10, <1>11 DEF Cuts, n, N
<1> QED BY <1>12 DEF Framed

(* Cells come from the wire w into the buffer b. *)
LEMMA StreamArrives ==
  ASSUME NEW C, Blank \in C, NEW b, IsBuffer(b, C), NEW w \in Seq(C), NEW n \in Nat, n <= Len(w)
  PROVE  LET a == readFd(b, SubSeq(w, 1, n))
             v == SubSeq(w, n + 1, Len(w))
         IN  IsBuffer(a, C) /\ v \in Seq(C) /\ Content(a) \o v = Content(b) \o w
<1> DEFINE u == SubSeq(w, 1, n)
           v == SubSeq(w, n + 1, Len(w))
           a == readFd(b, u)
           c == Content(b)
<1>1. u \in Seq(C)
  BY FirstOf
<1>2. v \in Seq(C)
  BY Part, LenProperties
<1>3. w = u \o v
  BY FrontAndRest
<1>4. c \in Seq(C)
  BY ContentCells
<1> HIDE DEF u, v, c
<1>5. IsBuffer(a, C) /\ Content(a) = c \o u
  BY <1>1, ReadFdAddsBehind DEF c
<1> HIDE DEF a
<1>6. (c \o u) \o v = c \o (u \o v)
  BY <1>1, <1>2, <1>4, ConcatAssociative, SMTT(60)
<1>7. Content(a) \o v = Content(b) \o w
  BY <1>3, <1>5, <1>6 DEF c
<1> QED BY <1>2, <1>5, <1>7 DEF a, u, v

(* The first frame of the stream is retrieved from the buffer. *)
LEMMA StreamTaken ==
  ASSUME NEW C, NEW E, NEW F, IsFraming(F, E, C), NEW b, IsBuffer(b, C), NEW w \in Seq(C),
         NEW q \in Seq(E), NEW k \in Nat, k < Len(q), Framed(F, Content(b) \o w, q, k),
         NEW len \in Nat, CanRetrieve(b, len), \A f \in F[q[k + 1]] : Len(f) = len
  PROVE  /\ IsBuffer(retrieve(b, len), C)
         /\ Framed(F, Content(retrieve(b, len)) \o w, q, k + 1)
<1> DEFINE c == Content(b)
           e == retrieve(b, len)
           h == SubSeq(c, 1, len)
           t == Content(e)
           T == t \o w
           S == c \o w
<1>1. IsBuffer(e, C) /\ c = h \o t
  BY RetrieveTakesFront
<1>2. c \in Seq(C) /\ t \in Seq(C) /\ len <= Len(c)
  BY <1>1, ContentCells DEF CanRetrieve
<1> HIDE DEF c, e
<1>3. h \in Seq(C) /\ Len(h) = len
  BY <1>2, FirstOf
<1> HIDE DEF h, t
<1>4. (h \o t) \o w = h \o (t \o w)
  <2>1. h \in Seq(C) /\ t \in Seq(C) /\ w \in Seq(C)
    BY <1>2, <1>3
  <2> QED BY <2>1, ConcatAssociative
<1>5. S \in Seq(C) /\ T \in Seq(C) /\ S = h \o T
  BY <1>1, <1>2, <1>4, ConcatProperties
<1>6. Framed(F, S, q, k)
  BY DEF c
<1> HIDE DEF S, T
<1>7. \A f \in F[q[k + 1]] : Len(f) = Len(h)
  BY <1>3
<1>8. Framed(F, T, q, k + 1)
  BY <1>3, <1>5, <1>6, <1>7, FramedTake
<1> QED BY <1>1, <1>8 DEF T, t, e

-----------------------------------------------------------------------------
(* The frame of a message.                                                 *)

LEMMA AppendKeepsReader ==
  ASSUME NEW Cell, Blank \in Cell, NEW b, IsBuffer(b, Cell), NEW d \in Seq(Cell),
         b.readerIndex_ = kCheapPrepend
  PROVE  append(b, d).readerIndex_ = kCheapPrepend
<1> DEFINE e == ensureWritableBytes(b, Len(d))
<1>1. Len(d) \in Nat
  BY LenProperties
<1>2. IsBuffer(e, Cell)
  BY <1>1, EnsureKeepsContent
<1>3. e.readerIndex_ = kCheapPrepend
  BY DEF IsBuffer, ensureWritableBytes, makeSpace
<1> HIDE DEF e
<1>4. Written(e, d).readerIndex_ = kCheapPrepend
  BY <1>2, <1>3 DEF IsBuffer, Written
<1> QED BY <1>4 DEF append, e

Body(m) == <<tag_>> \o Serialized(m)
CellsOf(m) ==
  {Blank, tag_, <<"msg", m>>, <<"arg">>, <<"sum", Body(m)>>}
    \cup {<<"len", m.size + 3, i>> : i \in 1 .. kHeaderLen}

LEMMA BodyIs ==
  ASSUME NEW m, m.size \in Nat
  PROVE  /\ <<tag_>> \in Seq(CellsOf(m)) /\ Serialized(m) \in Seq(CellsOf(m))
         /\ Body(m) \in Seq(CellsOf(m)) /\ Len(Body(m)) = m.size + 2
         /\ Body(m)[1] = tag_ /\ Body(m)[2] = <<"msg", m>>
<1> DEFINE C == CellsOf(m)
           a == [i \in 1 .. m.size |-> <<"arg">>]
           f == <<<<"msg", m>>>>
           t == <<tag_>>
<1>1. tag_ \in C /\ <<"msg", m>> \in C /\ <<"arg">> \in C
  BY DEF CellsOf
<1>2. a \in Seq(C) /\ Len(a) = m.size
  <2>1. \A i \in 1 .. m.size : a[i] \in C
    BY <1>1
  <2> HIDE DEF C
  <2> QED BY <2>1, IsASeq, LenProperties
<1>3. f \in Seq(C) /\ Len(f) = 1 /\ f[1] = <<"msg", m>>
  <2> HIDE DEF C
  <2> QED BY <1>1
<1>4. t \in Seq(C) /\ Len(t) = 1 /\ t[1] = tag_
  <2> HIDE DEF C
  <2> QED BY <1>1
<1> HIDE DEF C, a, f, t
<1>5. f \o a \in Seq(C) /\ Len(f \o a) = m.size + 1 /\ (f \o a)[1] = <<"msg", m>>
  BY <1>2, <1>3, ConcatProperties
<1>6. /\ t \o (f \o a) \in Seq(C) /\ Len(t \o (f \o a)) = m.size + 2
      /\ (t \o (f \o a))[1] = tag_ /\ (t \o (f \o a))[2] = <<"msg", m>>
  <2> DEFINE g == f \o a
             u == t \o g
             k == Len(t)
             n == Len(g)
  <2> HIDE DEF g, k, n
  <2>1. k = 1 /\ g \in Seq(C) /\ n = m.size + 1 /\ g[1] = <<"msg", m>>
    BY <1>4, <1>5 DEF g, k, n
  <2>2. /\ u \in Seq(C) /\ Len(u) = k + n
        /\ \A i \in 1 .. k : u[i] = t[i]
        /\ \A i \in 1 .. n : u[k + i] = g[i]
    <3>1. t \in Seq(C) /\ g \in Seq(C) /\ k = Len(t) /\ n = Len(g)
      BY <1>4, <2>1 DEF k, n
    <3> QED BY <3>1, Join
  <2> HIDE DEF u
  <2>3. u[1] = t[1] /\ u[2] = g[1] /\ Len(u) = m.size + 2
    <3>1. 1 \in 1 .. k /\ 1 \in 1 .. n /\ k + 1 = 2 /\ k + n = m.size + 2
      BY <2>1
    <3>2. u[1] = t[1] /\ u[k + 1] = g[1]
      BY <2>2, <3>1
    <3> QED BY <2>2, <3>1, <3>2
  <2> QED BY <1>4, <2>1, <2>2, <2>3 DEF g, u
<1>7. Serialized(m) = f \o a /\ Body(m) = t \o (f \o a) /\ <<tag_>> = t /\ CellsOf(m) = C
  BY DEF Serialized, Body, f, a, t, C
<1> QED BY <1>4, <1>5, <1>6, <1>7

LEMMA FrameIs ==
  ASSUME NEW m, m.size \in Nat
  PROVE  /\ Frame(m) \in Seq(CellsOf(m)) /\ Len(Frame(m)) = m.size + 5
         /\ Frame(m)[1] = <<"len", m.size + 3, 1>>
         /\ Frame(m)[2] = <<"len", m.size + 3, 2>>
         /\ \A i \in 1 .. m.size + 2 : Frame(m)[2 + i] = Body(m)[i]
         /\ Frame(m)[m.size + 5] = <<"sum", Body(m)>>
<1> DEFINE C == CellsOf(m)
           t == <<tag_>>
           b0 == append(NewBuffer, t)
           b1 == append(b0, Serialized(m))
           u == <<<<"sum", Content(b1)>>>>
           b2 == append(b1, u)
           h == LengthCells(readableBytes(b2))
           b3 == prepend(b2, h)
<1>1. /\ Blank \in C /\ t \in Seq(C) /\ Serialized(m) \in Seq(C)
      /\ Body(m) \in Seq(C) /\ Len(Body(m)) = m.size + 2
      /\ <<"sum", Body(m)>> \in C /\ <<"len", m.size + 3, 1>> \in C
      /\ <<"len", m.size + 3, 2>> \in C
  BY BodyIs DEF CellsOf, kHeaderLen
<1>2. Frame(m) = Content(b3)
  BY DEF Frame
<1> HIDE DEF C
<1>3. IsBuffer(NewBuffer, C) /\ Content(NewBuffer) = <<>> /\ NewBuffer.readerIndex_ = kCheapPrepend
  BY <1>1, NewBufferIsEmpty DEF NewBuffer
<1>4. IsBuffer(b0, C) /\ Content(b0) = t /\ b0.readerIndex_ = kCheapPrepend
  <2>1. <<>> \o t = t
    BY <1>1, ConcatEmptySeq
  <2> HIDE DEF t
  <2> QED BY <1>1, <1>3, <2>1, AppendAddsBehind, AppendKeepsReader
<1> HIDE DEF b0
<1>5. IsBuffer(b1, C) /\ Content(b1) = Body(m) /\ b1.readerIndex_ = kCheapPrepend
  BY <1>1, <1>4, AppendAddsBehind, AppendKeepsReader DEF Body, t
<1> HIDE DEF b1
<1>6. u \in Seq(C) /\ Len(u) = 1 /\ u[1] = <<"sum", Body(m)>>
  BY <1>1, <1>5
<1> HIDE DEF u, t
<1>7. IsBuffer(b2, C) /\ Content(b2) = Body(m) \o u /\ b2.readerIndex_ = kCheapPrepend
  BY <1>1, <1>5, <1>6, AppendAddsBehind, AppendKeepsReader
<1> HIDE DEF b2
<1>8. /\ Body(m) \o u \in Seq(C) /\ Len(Body(m) \o u) = m.size + 3
      /\ \A i \in 1 .. m.size + 2 : (Body(m) \o u)[i] = Body(m)[i]
      /\ (Body(m) \o u)[m.size + 3] = <<"sum", Body(m)>>
  <2> DEFINE y == Body(m)
             v == y \o u
             k == Len(y)
             n == Len(u)
  <2> HIDE DEF y, k, n
  <2>1. k = m.size + 2 /\ n = 1 /\ y \in Seq(C) /\ u \in Seq(C)
    BY <1>1, <1>6 DEF y, k, n
  <2>2. /\ v \in Seq(C) /\ Len(v) = k + n
        /\ \A i \in 1 .. k : v[i] = y[i]
        /\ \A i \in 1 .. n : v[k + i] = u[i]
    <3>1. y \in Seq(C) /\ u \in Seq(C) /\ k = Len(y) /\ n = Len(u)
      BY <2>1 DEF k, n
    <3> QED BY <3>1, Join
  <2> HIDE DEF v
  <2>3. /\ v[m.size + 3] = u[1] /\ Len(v) = m.size + 3
        /\ \A i \in 1 .. m.size + 2 : v[i] = y[i]
    BY <2>1, <2>2
  <2> QED BY <1>6, <2>2, <2>3 DEF v, y
<1>9. readableBytes(b2) = m.size + 3
  BY <1>7, <1>8, ContentCells
<1>10. /\ h \in Seq(C) /\ Len(h) = 2
       /\ h[1] = <<"len", m.size + 3, 1>> /\ h[2] = <<"len", m.size + 3, 2>>
  <2>1. h = [i \in 1 .. 2 |-> <<"len", m.size + 3, i>>]
    BY <1>9 DEF LengthCells, kHeaderLen
  <2>5. h[1] = <<"len", m.size + 3, 1>> /\ h[2] = <<"len", m.size + 3, 2>>
    BY <2>1
  <2>6. \A i \in 1 .. 2 : i = 1 \/ i = 2
    OBVIOUS
  <2>2. \A i \in 1 .. 2 : h[i] \in C
    BY <1>1, <2>5, <2>6
  <2>3. h \in Seq(C)
    BY <2>1, <2>2, IsASeq
  <2>4. Len(h) = 2
    BY <2>1, <2>3, LenProperties
  <2> QED BY <2>1, <2>3, <2>4
<1> HIDE DEF h
<1>11. CanPrepend(b2, h)
  BY <1>7, <1>10, CodecAssumption DEF CanPrepend, prependableBytes, kHeaderLen
<1>12. Content(b3) = h \o (Body(m) \o u)
  BY <1>7, <1>10, <1>11, PrependAddsFront
<1> HIDE DEF b3
<1> DEFINE w == Body(m) \o u
<1> HIDE DEF w
<1>13. /\ h \o w \in Seq(C) /\ Len(h \o w) = m.size + 5
       /\ (h \o w)[1] = h[1] /\ (h \o w)[2] = h[2]
       /\ \A i \in 1 .. m.size + 3 : (h \o w)[2 + i] = w[i]
  <2> DEFINE v == h \o w
             k == Len(h)
             n == Len(w)
  <2> HIDE DEF k, n
  <2>1. k = 2 /\ n = m.size + 3 /\ w \in Seq(C) /\ h \in Seq(C)
    BY <1>8, <1>10 DEF w, k, n
  <2>2. /\ v \in Seq(C) /\ Len(v) = k + n
        /\ \A i \in 1 .. k : v[i] = h[i]
        /\ \A i \in 1 .. n : v[k + i] = w[i]
    <3>1. h \in Seq(C) /\ w \in Seq(C) /\ k = Len(h) /\ n = Len(w)
      BY <2>1 DEF k, n
    <3> QED BY <3>1, Join
  <2> HIDE DEF v
  <2>3. /\ Len(v) = m.size + 5 /\ v[1] = h[1] /\ v[2] = h[2]
        /\ \A i \in 1 .. m.size + 3 : v[2 + i] = w[i]
    BY <2>1, <2>2
  <2> QED BY <2>2, <2>3 DEF v
<1>14. Frame(m) = h \o w
  BY <1>2, <1>12 DEF w
<1>15. 2 + (m.size + 3) = m.size + 5 /\ m.size + 3 \in 1 .. m.size + 3
       /\ \A i \in 1 .. m.size + 2 : i \in 1 .. m.size + 3
  OBVIOUS
<1>16. Frame(m)[m.size + 5] = <<"sum", Body(m)>>
  BY <1>8, <1>13, <1>14, <1>15 DEF w
<1>17. \A i \in 1 .. m.size + 2 : Frame(m)[2 + i] = Body(m)[i]
  BY <1>8, <1>13, <1>14, <1>15 DEF w
<1> QED BY <1>10, <1>13, <1>14, <1>16, <1>17 DEF C

(* The frames that the codec did not make. *)
BadCells(e) ==
  {<<"len", IF e = "kInvalidLength" THEN kMaxMessageLen + 1 ELSE 3, i>> : i \in 1 .. kHeaderLen}
    \cup {<<"XXXX">>, tag_, <<"bad">>, <<"sum", <<>>>>, <<"sum", <<tag_, <<"bad">>>>>>,
          <<"sum", <<<<"XXXX">>, <<"bad">>>>>>}

LEMMA BadFrameIs ==
  ASSUME NEW e
  PROVE  /\ BadFrame(e) \in Seq(BadCells(e)) /\ Len(BadFrame(e)) = 5
         /\ BadFrame(e)[4] = <<"bad">>
<1> DEFINE C == BadCells(e)
           x == IF e = "kUnknownMessageType" THEN <<"XXXX">> ELSE tag_
           t == <<x, <<"bad">>>>
           z == IF e = "kCheckSumError" THEN <<"sum", <<>>>> ELSE <<"sum", t>>
           u == <<z>>
           len == IF e = "kInvalidLength" THEN kMaxMessageLen + 1 ELSE 3
           h == LengthCells(len)
<1>1. x \in C /\ <<"bad">> \in C /\ z \in C
  BY DEF BadCells
<1>2. \A i \in 1 .. kHeaderLen : <<"len", len, i>> \in C
  BY DEF BadCells
<1>3. BadFrame(e) = (h \o t) \o u
  BY DEF BadFrame
<1> HIDE DEF C, x, z, len
<1>4. t \in Seq(C) /\ Len(t) = 2 /\ t[2] = <<"bad">>
  BY <1>1
<1>5. u \in Seq(C) /\ Len(u) = 1
  BY <1>1
<1>6. h \in Seq(C) /\ Len(h) = 2
  <2>1. h = [i \in 1 .. 2 |-> <<"len", len, i>>]
    BY DEF LengthCells, kHeaderLen
  <2>2. \A i \in 1 .. 2 : h[i] \in C
    BY <1>2, <2>1 DEF kHeaderLen
  <2>3. h \in Seq(C)
    BY <2>1, <2>2, IsASeq
  <2> QED BY <2>1, <2>3, LenProperties
<1> HIDE DEF t, u, h
<1> DEFINE g == h \o t
           f == g \o u
<1>7. g \in Seq(C) /\ Len(g) = 4 /\ g[4] = <<"bad">>
  <2> DEFINE k == Len(h)
             n == Len(t)
  <2> HIDE DEF k, n
  <2>1. h \in Seq(C) /\ t \in Seq(C) /\ k = Len(h) /\ n = Len(t)
    BY <1>4, <1>6 DEF k, n
  <2>2. g \in Seq(C) /\ Len(g) = k + n /\ \A i \in 1 .. n : g[k + i] = t[i]
    BY <2>1, Join
  <2> HIDE DEF g
  <2>3. k = 2 /\ n = 2
    BY <1>4, <1>6 DEF k, n
  <2> QED BY <1>4, <2>2, <2>3
<1> HIDE DEF g
<1>8. f \in Seq(C) /\ Len(f) = 5 /\ f[4] = <<"bad">>
  <2> DEFINE k == Len(g)
             n == Len(u)
  <2> HIDE DEF k, n
  <2>1. g \in Seq(C) /\ u \in Seq(C) /\ k = Len(g) /\ n = Len(u)
    BY <1>5, <1>7 DEF k, n
  <2>2. f \in Seq(C) /\ Len(f) = k + n /\ \A i \in 1 .. k : f[i] = g[i]
    BY <2>1, Join
  <2> HIDE DEF f
  <2>3. k = 4 /\ n = 1
    BY <1>5, <1>7 DEF k, n
  <2> QED BY <1>7, <2>2, <2>3
<1> QED BY <1>3, <1>8 DEF f, g, C

-----------------------------------------------------------------------------
(* What onMessage makes of the content of the input buffer.                *)

LEMMA Decoded ==
  ASSUME NEW Cell, NEW b, IsBuffer(b, Cell), Decode(b) = "kNoError"
  PROVE  /\ peekInt32(b) \in Nat /\ peekInt32(b) >= 2
         /\ 2 + peekInt32(b) <= readableBytes(b) /\ 4 <= readableBytes(b)
         /\ Content(b)[1] = <<"len", peekInt32(b), 1>>
         /\ Content(b)[4][1] = "msg"
<1> DEFINE c == Content(b)
           n == peekInt32(b)
           r == readableBytes(b)
<1>1. /\ c \in Seq(Cell) /\ Len(c) = r /\ r \in Nat
  BY ContentCells
<1> DEFINE packed == SubSeq(c, 2 + 1, 2 + n)
<1>2. r >= 4 /\ n \in 2 .. kMaxMessageLen /\ r >= 2 + n /\ parse(packed) = "kNoError"
  <2> DEFINE some == r >= 2 + 2
             valid == n \in 2 .. kMaxMessageLen
             whole == r >= 2 + n
  <2>1. Decode(b) = CASE ~some \/ (valid /\ ~whole) -> "wait"
                      [] some /\ ~valid -> "kInvalidLength"
                      [] some /\ valid /\ whole -> parse(packed)
    BY DEF Decode, kHeaderLen, kMinMessageLen, kChecksumLen
  <2> HIDE DEF some, valid, whole, packed
  <2>2. some /\ valid /\ whole /\ parse(packed) = "kNoError"
    BY <2>1
  <2> QED BY <1>1, <2>2 DEF some, valid, whole
<1>3. n \in Nat /\ 2 <= n /\ 2 + n \in Nat /\ 2 <= 2 + n /\ 2 + n <= Len(c) /\ (2 + n) - 2 = n
  BY <1>1, <1>2, CodecAssumption
<1>4. c[1] = <<"len", n, 1>>
  <2> DEFINE L == SubSeq(c, 1, 2)
  <2>1. n # 0
    BY <1>3
  <2>2. PICK k \in 0 .. kMaxMessageLen + 1 : L = LengthCells(k) /\ n = c[1][2]
    BY <2>1 DEF peekInt32, kHeaderLen
  <2>3. L[1] = c[1]
    <3> DEFINE q == 2
    <3>1. q \in Nat /\ q <= Len(c) /\ 1 \in 1 .. q
      BY <1>1, <1>2
    <3>2. L = SubSeq(c, 1, q)
      OBVIOUS
    <3> HIDE DEF q, L
    <3>3. SubSeq(c, 1, q)[1] = c[1]
      BY <1>1, <3>1, FirstOf
    <3> QED BY <3>2, <3>3
  <2>4. LengthCells(k)[1] = <<"len", k, 1>>
    BY DEF LengthCells, kHeaderLen
  <2>5. c[1] = <<"len", k, 1>>
    BY <2>2, <2>3, <2>4
  <2>6. c[1][2] = k
    BY <2>5
  <2> QED BY <2>2, <2>5, <2>6
<1> HIDE DEF n, c, r
<1>5. packed \in Seq(Cell) /\ Len(packed) = n /\ \A i \in 1 .. n : packed[i] = c[2 + i]
  <2> DEFINE p == 2
             q == 2 + n
  <2>1. p \in Nat /\ q \in Nat /\ p <= q /\ q <= Len(c) /\ q - p = n
    BY <1>3
  <2>2. packed = SubSeq(c, p + 1, q)
    OBVIOUS
  <2> HIDE DEF p, q, packed
  <2>3. /\ SubSeq(c, p + 1, q) \in Seq(Cell) /\ Len(SubSeq(c, p + 1, q)) = q - p
        /\ \A i \in 1 .. q - p : SubSeq(c, p + 1, q)[i] = c[p + i]
    <3>1. c \in Seq(Cell) /\ p \in Nat /\ q \in Nat /\ p <= q /\ q <= Len(c)
      BY <1>1, <2>1
    <3> QED BY <3>1, Part
  <2> QED BY <2>1, <2>2, <2>3 DEF p
<1> HIDE DEF packed
<1>6. c[4][1] = "msg"
  <2> DEFINE covered == SubSeq(packed, 1, n - 1)
             intact == packed[Len(packed)] = <<"sum", covered>>
             known == covered[1] = tag_
             message == Len(covered) > 1 /\ covered[2][1] = "msg"
  <2>1. parse(packed) = CASE ~intact -> "kCheckSumError"
                         [] intact /\ ~known -> "kUnknownMessageType"
                         [] intact /\ known /\ ~message -> "kParseError"
                         [] intact /\ known /\ message -> "kNoError"
    BY <1>5 DEF parse, kChecksumLen
  <2>2. message
    <3> HIDE DEF intact, known, message
    <3> QED BY <1>2, <2>1
  <2>3. Len(covered) = n - 1 /\ \A i \in 1 .. n - 1 : covered[i] = packed[i]
    <3> DEFINE q == n - 1
    <3>1. q \in Nat /\ q <= Len(packed)
      BY <1>3, <1>5
    <3>2. packed \in Seq(Cell)
      BY <1>5
    <3> HIDE DEF q
    <3>3. /\ Len(SubSeq(packed, 1, q)) = q
          /\ \A i \in 1 .. q : SubSeq(packed, 1, q)[i] = packed[i]
      BY <3>1, <3>2, FirstOf
    <3> QED BY <3>3 DEF q
  <2> HIDE DEF covered
  <2>4. 2 \in 1 .. n - 1 /\ 2 \in 1 .. n
    BY <1>3, <2>2, <2>3
  <2> QED BY <1>5, <2>2, <2>3, <2>4
<1> QED BY <1>1, <1>2, <1>3, <1>4, <1>6 DEF c, n, r

LEMMA TooFewWait ==
  ASSUME NEW Cell, NEW b, IsBuffer(b, Cell), readableBytes(b) < 4
  PROVE  Decode(b) = "wait"
<1> DEFINE n == peekInt32(b)
           some == readableBytes(b) >= 2 + 2
           valid == n \in 2 .. kMaxMessageLen
           whole == readableBytes(b) >= 2 + n
           p == parse(SubSeq(Content(b), 2 + 1, 2 + n))
<1>1. Decode(b) = CASE ~some \/ (valid /\ ~whole) -> "wait"
                    [] some /\ ~valid -> "kInvalidLength"
                    [] some /\ valid /\ whole -> p
  BY DEF Decode, kHeaderLen, kMinMessageLen, kChecksumLen
<1>2. ~some
  BY ContentCells
<1> HIDE DEF some, valid, whole, p
<1> QED BY <1>1, <1>2

(* A frame of the codec: the message is what was framed. *)
LEMMA GoodFrame ==
  ASSUME NEW Cell, NEW b, IsBuffer(b, Cell), NEW m, m.size \in Nat,
         m.size + 3 <= kMaxMessageLen,
         \A i \in 1 .. readableBytes(b) : i <= m.size + 5 => Content(b)[i] = Frame(m)[i]
  PROVE  /\ Decode(b) \in {"wait", "kNoError"}
         /\ Decode(b) = "kNoError" =>
              /\ m.size + 5 <= readableBytes(b) /\ Message(b) = m
              /\ peekInt32(b) = m.size + 3
<1> DEFINE c == Content(b)
           f == Frame(m)
           y == Body(m)
           r == readableBytes(b)
           N == m.size + 3
           n == peekInt32(b)
<1>1. /\ c \in Seq(Cell) /\ Len(c) = r /\ r \in Nat
  BY ContentCells
<1>2. CASE r < 4
  BY <1>2, TooFewWait
<1>3. CASE r >= 4
  <2>1. /\ f[1] = <<"len", N, 1>> /\ f[2] = <<"len", N, 2>>
        /\ \A i \in 1 .. m.size + 2 : f[2 + i] = y[i]
        /\ f[m.size + 5] = <<"sum", y>>
        /\ y \in Seq(CellsOf(m)) /\ Len(y) = m.size + 2
        /\ y[1] = tag_ /\ y[2] = <<"msg", m>>
    BY FrameIs, BodyIs
  <2>2. \A i \in 1 .. r : i <= m.size + 5 => c[i] = f[i]
    OBVIOUS
  <2>3. N \in Nat /\ 3 <= N /\ N <= kMaxMessageLen /\ m.size + 5 = 2 + N /\ m.size + 2 = N - 1
    OBVIOUS
  <2> HIDE DEF f, y, c, r, N
  <2>4. c[1] = <<"len", N, 1>> /\ c[2] = <<"len", N, 2>> /\ c[4] = <<"msg", m>>
    <3>1. /\ 1 \in 1 .. r /\ 2 \in 1 .. r /\ 4 \in 1 .. r
          /\ 1 <= m.size + 5 /\ 2 <= m.size + 5 /\ 4 <= m.size + 5
          /\ 2 \in 1 .. m.size + 2 /\ 2 + 2 = 4
      BY <1>1, <1>3
    <3>2. f[2 + 2] = y[2]
      BY <2>1, <3>1
    <3> QED BY <2>1, <2>2, <3>1, <3>2
  <2>5. SubSeq(c, 1, 2) = LengthCells(N)
    <3> DEFINE q == 2
               L == LengthCells(N)
    <3>1. q \in Nat /\ q <= Len(c) /\ \A i \in 1 .. q : i = 1 \/ i = 2
      BY <1>1, <1>3
    <3>2. L = [i \in 1 .. q |-> <<"len", N, i>>] /\ L[1] = c[1] /\ L[2] = c[2]
      BY <2>4 DEF LengthCells, kHeaderLen
    <3>3. c[1] \in Cell /\ c[2] \in Cell
      BY <1>1, <1>3, ElementOfSeq
    <3>4. \A i \in 1 .. q : L[i] \in Cell
      BY <3>1, <3>2, <3>3
    <3>5. L \in Seq(Cell) /\ Len(L) = q
      BY <3>1, <3>2, <3>4, IsASeq, LenProperties
    <3> HIDE DEF q, L
    <3>6. /\ SubSeq(c, 1, q) \in Seq(Cell) /\ Len(SubSeq(c, 1, q)) = q
          /\ \A i \in 1 .. q : SubSeq(c, 1, q)[i] = c[i]
      BY <1>1, <3>1, FirstOf
    <3>7. \A i \in 1 .. q : SubSeq(c, 1, q)[i] = L[i]
      BY <3>1, <3>2, <3>6
    <3>8. SubSeq(c, 1, q) = L
      BY <3>5, <3>6, <3>7, SameCells
    <3> QED BY <3>8 DEF q, L
  <2>6. n = N
    <3>1. N \in 0 .. kMaxMessageLen + 1
      BY <2>3, CodecAssumption
    <3>2. n = c[1][2]
      BY <2>5, <3>1 DEF peekInt32, kHeaderLen, c
    <3> QED BY <2>4, <3>2
  <2> DEFINE packed == SubSeq(c, 2 + 1, 2 + n)
             some == r >= 2 + 2
             valid == n \in 2 .. kMaxMessageLen
             whole == r >= 2 + n
  <2>7. Decode(b) = CASE ~some \/ (valid /\ ~whole) -> "wait"
                      [] some /\ ~valid -> "kInvalidLength"
                      [] some /\ valid /\ whole -> parse(packed)
    BY DEF Decode, kHeaderLen, kMinMessageLen, kChecksumLen, r, c
  <2>8. some /\ valid
    BY <1>1, <1>3, <2>3, <2>6, CodecAssumption
  <2>9. ~whole => Decode(b) = "wait"
    <3> HIDE DEF some, valid, whole, packed
    <3> QED BY <2>7, <2>8
  <2>10. whole => Decode(b) = parse(packed)
    <3> HIDE DEF some, valid, whole, packed
    <3> QED BY <2>7, <2>8
  <2>11. ASSUME whole
         PROVE  parse(packed) = "kNoError"
    <3>1. packed \in Seq(Cell) /\ Len(packed) = N /\ \A i \in 1 .. N : packed[i] = c[2 + i]
      <4> DEFINE p == 2
                 q == 2 + N
      <4>1. p \in Nat /\ q \in Nat /\ p <= q /\ q <= Len(c) /\ q - p = N
        BY <1>1, <2>3, <2>6, <2>11
      <4>2. packed = SubSeq(c, p + 1, q)
        BY <2>6
      <4> HIDE DEF p, q, packed
      <4>3. /\ SubSeq(c, p + 1, q) \in Seq(Cell) /\ Len(SubSeq(c, p + 1, q)) = q - p
            /\ \A i \in 1 .. q - p : SubSeq(c, p + 1, q)[i] = c[p + i]
        <5>1. c \in Seq(Cell) /\ p \in Nat /\ q \in Nat /\ p <= q /\ q <= Len(c)
          BY <1>1, <4>1
        <5> QED BY <5>1, Part
      <4> QED BY <4>1, <4>2, <4>3 DEF p
    <3> HIDE DEF packed
    <3>2. ASSUME NEW i \in 1 .. N
          PROVE  packed[i] = f[2 + i]
      <4>1. 2 + i \in 1 .. r /\ 2 + i <= m.size + 5
        BY <1>1, <2>3, <2>6, <2>11
      <4> QED BY <2>2, <3>1, <4>1
    <3> DEFINE q == N - 1
               covered == SubSeq(packed, 1, q)
    <3>3. q \in Nat /\ q <= Len(packed)
      BY <2>3, <3>1
    <3>4. packed \in Seq(Cell)
      BY <3>1
    <3> HIDE DEF q
    <3>5. /\ covered \in Seq(Cell) /\ Len(covered) = q
          /\ \A i \in 1 .. q : covered[i] = packed[i]
      BY <3>3, <3>4, FirstOf
    <3> HIDE DEF covered
    <3>6. \A i \in 1 .. Len(covered) : covered[i] = y[i]
      <4>1. \A i \in 1 .. q : i \in 1 .. N /\ i \in 1 .. m.size + 2
        BY <2>3 DEF q
      <4> QED BY <2>1, <3>2, <3>5, <4>1
    <3>7. Len(covered) = Len(y)
      BY <2>1, <2>3, <3>5 DEF q
    <3>8. covered = y
      BY <2>1, <3>5, <3>6, <3>7, SameCells
    <3>9. packed[N] = <<"sum", y>>
      <4>1. N \in 1 .. N
        BY <2>3
      <4> QED BY <2>1, <2>3, <3>2, <4>1
    <3>10. y[2][1] = "msg" /\ Len(y) > 1
      BY <2>1
    <3> DEFINE intact == packed[Len(packed)] = <<"sum", covered>>
               known == covered[1] = tag_
               message == Len(covered) > 1 /\ covered[2][1] = "msg"
    <3>11. parse(packed) = CASE ~intact -> "kCheckSumError"
                            [] intact /\ ~known -> "kUnknownMessageType"
                            [] intact /\ known /\ ~message -> "kParseError"
                            [] intact /\ known /\ message -> "kNoError"
      BY <3>1 DEF parse, kChecksumLen, covered, q
    <3>12. intact /\ known /\ message
      BY <2>1, <3>1, <3>8, <3>9, <3>10
    <3> HIDE DEF intact, known, message
    <3> QED BY <3>11, <3>12
  <2>12. Message(b) = m
    BY <2>4 DEF Message, kHeaderLen, c
  <2>13. whole => m.size + 5 <= r
    BY <1>1, <2>3, <2>6
  <2> HIDE DEF whole
  <2> QED BY <2>6, <2>9, <2>10, <2>11, <2>12, <2>13 DEF N, r
<1> QED BY <1>1, <1>2, <1>3

(* A frame that the codec did not make is not dispatched. *)
LEMMA BadFrameRejected ==
  ASSUME NEW Cell, NEW b, IsBuffer(b, Cell), NEW e,
         \A i \in 1 .. readableBytes(b) : i <= 5 => Content(b)[i] = BadFrame(e)[i]
  PROVE  Decode(b) # "kNoError"
<1> SUFFICES ASSUME Decode(b) = "kNoError" PROVE FALSE
  OBVIOUS
<1>1. 4 <= readableBytes(b) /\ Content(b)[4][1] = "msg" /\ readableBytes(b) \in Nat
  BY Decoded, ContentCells
<1>2. Content(b)[4] = <<"bad">>
  BY <1>1, BadFrameIs
<1> QED BY <1>1, <1>2

-----------------------------------------------------------------------------
(* The stream from one side to the other.                                  *)

Bad == [type |-> "bad"]
Entries == Messages \cup {Bad}
AllCells ==
  {Blank} \cup (UNION {CellsOf(m) : m \in Messages}) \cup (UNION {BadCells(e) : e \in Errors})

(* What may have been sent for an entry of sent. *)
Frames(x) == IF x.type = "bad" THEN {BadFrame(e) : e \in Errors} ELSE {Frame(x)}

LEMMA MessageIs ==
  ASSUME NEW m \in Messages
  PROVE  /\ m.size \in {0, 1} /\ m.type \in {"REQUEST", "RESPONSE"}
         /\ m.size \in Nat /\ m.size + 3 <= kMaxMessageLen
         /\ Frame(m) \in Seq(AllCells) /\ Len(Frame(m)) = m.size + 5
         /\ FrameOf[m] = Frame(m) /\ Frames(m) = {Frame(m)}
<1>1. m.size \in {0, 1} /\ m.type \in {"REQUEST", "RESPONSE"}
  BY DEF Messages, Request, Response, Refusal
<1>2. m.size \in Nat /\ m.size + 3 <= kMaxMessageLen
  BY <1>1, CodecAssumption DEF kMinMessageLen, kChecksumLen
<1>3. Frame(m) \in Seq(CellsOf(m)) /\ Len(Frame(m)) = m.size + 5
  BY <1>2, FrameIs
<1>4. CellsOf(m) \subseteq AllCells
  BY DEF AllCells
<1>5. Frame(m) \in Seq(AllCells)
  BY <1>3, <1>4, SeqMonotonic
<1>6. FrameOf[m] = Frame(m)
  BY DEF FrameOf
<1>7. Frames(m) = {Frame(m)}
  BY <1>1 DEF Frames
<1> QED BY <1>1, <1>2, <1>3, <1>5, <1>6, <1>7

LEMMA BadIs ==
  ASSUME NEW e \in Errors
  PROVE  /\ BadFrame(e) \in Seq(AllCells) /\ Len(BadFrame(e)) = 5
         /\ BadFrame(e) \in Frames(Bad) /\ Bad.type = "bad"
<1>1. BadFrame(e) \in Seq(BadCells(e)) /\ Len(BadFrame(e)) = 5
  BY BadFrameIs
<1>2. BadCells(e) \subseteq AllCells
  <2> DEFINE Of == {BadCells(d) : d \in Errors}
  <2>1. BadCells(e) \in Of
    OBVIOUS
  <2> HIDE DEF Of
  <2>2. BadCells(e) \subseteq UNION Of
    BY <2>1
  <2> QED BY <2>2 DEF AllCells, Of
<1>3. BadFrame(e) \in Seq(AllCells)
  BY <1>1, <1>2, SeqMonotonic
<1> QED BY <1>1, <1>3 DEF Frames, Bad

LEMMA FramesAre ==
  ASSUME NEW x \in Entries, NEW f \in Frames(x)
  PROVE  f \in Seq(AllCells) /\ Len(f) \in Nat /\ Len(f) >= 5
<1>1. CASE x \in Messages
  <2>1. f = Frame(x) /\ x.size \in Nat /\ Len(Frame(x)) = x.size + 5 /\ Frame(x) \in Seq(AllCells)
    BY <1>1, MessageIs
  <2> QED BY <2>1
<1>2. CASE x = Bad
  <2>1. PICK e \in Errors : f = BadFrame(e)
    BY <1>2 DEF Frames, Bad
  <2>2. f \in Seq(AllCells) /\ Len(f) = 5
    BY <2>1, BadIs
  <2> QED BY <2>2
<1> QED BY <1>1, <1>2 DEF Entries

FrameSets == [x \in Entries |-> Frames(x)]

LEMMA FramingIs ==
  /\ IsFraming(FrameSets, Entries, AllCells)
  /\ \A x \in Entries : FrameSets[x] = Frames(x)
BY FramesAre DEF IsFraming, FrameSets

-----------------------------------------------------------------------------
(* The receiver of a stream: b is its input buffer, w what is still on the *)
(* wire, q what was sent and d what it has dispatched.                     *)

Receives(b, w, q, d) ==
  /\ Len(d) <= Len(q) /\ \A i \in 1 .. Len(d) : d[i] = q[i]
  /\ Framed(FrameSets, Content(b) \o w, q, Len(d))

LEMMA ReceivesSend ==
  ASSUME NEW b, IsBuffer(b, AllCells), NEW w \in Seq(AllCells), NEW q \in Seq(Entries),
         NEW d \in Seq(Messages), Receives(b, w, q, d), NEW x \in Entries, NEW f \in Frames(x)
  PROVE  /\ w \o f \in Seq(AllCells) /\ Append(q, x) \in Seq(Entries)
         /\ Receives(b, w \o f, Append(q, x), d)
<1> DEFINE c == Content(b)
           k == Len(d)
           n == Len(q)
           r == Append(q, x)
<1>1. /\ c \in Seq(AllCells) /\ f \in Seq(AllCells) /\ k \in Nat /\ n \in Nat
  BY ContentCells, FramesAre, LenProperties
<1>2. k <= n /\ (\A i \in 1 .. k : d[i] = q[i]) /\ Framed(FrameSets, c \o w, q, k)
  BY DEF Receives
<1>3. r \in Seq(Entries) /\ Len(r) = n + 1 /\ \A i \in 1 .. n : r[i] = q[i]
  BY AppendProperties
<1> HIDE DEF c
<1>4. w \o f \in Seq(AllCells) /\ c \o w \in Seq(AllCells) /\ (c \o w) \o f = c \o (w \o f)
  BY <1>1, ConcatProperties, ConcatAssociative, SMTT(60)
<1>5. Framed(FrameSets, (c \o w) \o f, r, k)
  BY <1>1, <1>2, <1>4, FramedSend, FramingIs
<1> HIDE DEF r, n, k
<1>6. Len(r) >= k /\ \A i \in 1 .. k : d[i] = r[i]
  BY <1>1, <1>2, <1>3
<1>7. Framed(FrameSets, c \o (w \o f), r, k)
  BY <1>4, <1>5
<1> QED BY <1>1, <1>3, <1>4, <1>6, <1>7 DEF Receives, c, r, k

LEMMA ReceivesArrive ==
  ASSUME NEW b, IsBuffer(b, AllCells), NEW w \in Seq(AllCells), NEW q, NEW d,
         Receives(b, w, q, d), NEW n \in Nat, n <= Len(w)
  PROVE  LET a == readFd(b, SubSeq(w, 1, n))
             v == SubSeq(w, n + 1, Len(w))
         IN  IsBuffer(a, AllCells) /\ v \in Seq(AllCells) /\ Receives(a, v, q, d)
<1> DEFINE v == SubSeq(w, n + 1, Len(w))
           a == readFd(b, SubSeq(w, 1, n))
<1>1. Blank \in AllCells
  BY DEF AllCells
<1>2. IsBuffer(a, AllCells) /\ v \in Seq(AllCells) /\ Content(a) \o v = Content(b) \o w
  BY <1>1, StreamArrives, ZenonT(60)
<1> HIDE DEF a, v
<1>3. Receives(a, v, q, d)
  BY <1>2 DEF Receives
<1> QED BY <1>2, <1>3 DEF a, v

(* What stands at the front of the buffer. *)
LEMMA ReceivesFront ==
  ASSUME NEW b, IsBuffer(b, AllCells), NEW w \in Seq(AllCells), NEW q \in Seq(Entries),
         NEW d \in Seq(Messages), Receives(b, w, q, d)
  PROVE  \/ Len(d) = Len(q) /\ Decode(b) = "wait"
         \/ /\ Len(d) < Len(q) /\ Len(d) + 1 \in 1 .. Len(q)
            /\ \E f \in Frames(q[Len(d) + 1]) :
                 \A i \in 1 .. readableBytes(b) : i <= Len(f) => Content(b)[i] = f[i]
<1> DEFINE c == Content(b)
           k == Len(d)
           S == c \o w
           r == Len(c)
           z == Len(w)
<1>1. c \in Seq(AllCells) /\ r = readableBytes(b) /\ r \in Nat /\ z \in Nat
  BY ContentCells, LenProperties
<1>2. k \in Nat /\ Len(q) \in Nat /\ k <= Len(q) /\ Framed(FrameSets, S, q, k)
  BY LenProperties DEF Receives
<1> HIDE DEF c, k
<1>3. S \in Seq(AllCells) /\ Len(S) = r + z /\ \A i \in 1 .. r : S[i] = c[i]
  <2>1. c \in Seq(AllCells) /\ w \in Seq(AllCells) /\ r = Len(c) /\ z = Len(w)
    BY <1>1
  <2> HIDE DEF r, z
  <2> QED BY <2>1, Join
<1> HIDE DEF S, r, z
<1>4. CASE k = Len(q)
  <2>1. Len(S) = 0
    BY <1>2, <1>3, <1>4, FramedFirst, FramingIs
  <2>2. readableBytes(b) < 4
    BY <1>1, <1>3, <2>1
  <2> QED BY <1>4, <2>2, TooFewWait DEF k
<1>5. CASE k < Len(q)
  <2>1. PICK f \in Frames(q[k + 1]) : /\ Len(f) <= Len(S)
                                      /\ \A i \in 1 .. Len(f) : S[i] = f[i]
    BY <1>2, <1>3, <1>5, FramedFirst, FramingIs
  <2>2. k + 1 \in 1 .. Len(q)
    BY <1>2, <1>5
  <2>3. Len(f) \in Nat
    <3>1. q[k + 1] \in Entries
      BY <2>2, ElementOfSeq
    <3> QED BY <3>1, FramesAre
  <2>4. ASSUME NEW i \in 1 .. r, i <= Len(f)
        PROVE  c[i] = f[i]
    <3>1. i \in 1 .. Len(f)
      BY <1>1, <2>3, <2>4
    <3> QED BY <1>3, <2>1, <3>1
  <2> QED BY <1>1, <1>5, <2>1, <2>2, <2>4 DEF k, c
<1> QED BY <1>2, <1>4, <1>5

LEMMA ReceivesDispatch ==
  ASSUME NEW b, IsBuffer(b, AllCells), NEW w \in Seq(AllCells), NEW q \in Seq(Entries),
         NEW d \in Seq(Messages), Receives(b, w, q, d), Decode(b) = "kNoError"
  PROVE  /\ Len(d) + 1 \in 1 .. Len(q) /\ q[Len(d) + 1] = Message(b) /\ Message(b) \in Messages
         /\ IsBuffer(Retrieved(b), AllCells)
         /\ Append(d, Message(b)) \in Seq(Messages)
         /\ Receives(Retrieved(b), w, q, Append(d, Message(b)))
<1> DEFINE k == Len(d)
           c == Content(b)
           m == q[k + 1]
<1>1. /\ k < Len(q) /\ k + 1 \in 1 .. Len(q)
      /\ \E f \in Frames(m) :
           \A i \in 1 .. readableBytes(b) : i <= Len(f) => c[i] = f[i]
  BY ReceivesFront
<1>2. PICK f \in Frames(m) : \A i \in 1 .. readableBytes(b) : i <= Len(f) => c[i] = f[i]
  BY <1>1
<1>3. m \in Entries
  BY <1>1, ElementOfSeq
<1> HIDE DEF c, k, m
<1>4. m \in Messages
  <2> SUFFICES ASSUME m = Bad PROVE FALSE
    BY <1>3 DEF Entries
  <2>1. PICK e \in Errors : f = BadFrame(e)
    BY <1>2 DEF Frames, Bad
  <2>2. Len(f) = 5
    BY <2>1, BadIs
  <2> QED BY <1>2, <2>1, <2>2, BadFrameRejected DEF c
<1>5. f = Frame(m) /\ m.size \in Nat /\ m.size + 3 <= kMaxMessageLen /\ Len(f) = m.size + 5
  BY <1>2, <1>4, MessageIs
<1>6. m.size + 5 <= readableBytes(b) /\ Message(b) = m /\ peekInt32(b) = m.size + 3
  BY <1>2, <1>5, GoodFrame DEF c
<1> DEFINE len == 2 + peekInt32(b)
           e == Retrieved(b)
<1>7. len \in Nat /\ len = Len(f) /\ CanRetrieve(b, len) /\ e = retrieve(b, len)
  BY <1>5, <1>6 DEF CanRetrieve, Retrieved, kHeaderLen
<1> HIDE DEF len, e
<1>12. k \in Nat /\ Len(q) \in Nat /\ k <= Len(q) /\ Framed(FrameSets, c \o w, q, k)
       /\ \A i \in 1 .. k : d[i] = q[i]
  BY LenProperties DEF Receives, k, c
<1>13. IsBuffer(e, AllCells) /\ Framed(FrameSets, Content(e) \o w, q, k + 1)
  <2>1. FrameSets[q[k + 1]] = {f}
    BY <1>3, <1>4, <1>5, FramingIs, MessageIs DEF m
  <2>2. k < Len(q) /\ \A g \in FrameSets[q[k + 1]] : Len(g) = len
    BY <1>1, <1>7, <2>1 DEF k
  <2>3. Framed(FrameSets, Content(b) \o w, q, k)
    BY <1>12 DEF c
  <2> QED BY <1>7, <1>12, <2>2, <2>3, StreamTaken, FramingIs
<1> DEFINE y == Append(d, Message(b))
<1>14. y \in Seq(Messages) /\ Len(y) = k + 1 /\ y[k + 1] = m /\ \A i \in 1 .. k : y[i] = d[i]
  BY <1>4, <1>6, AppendProperties DEF k
<1> HIDE DEF y
<1>15. \A i \in 1 .. k + 1 : y[i] = q[i]
  <2>1. \A i \in 1 .. k + 1 : i = k + 1 \/ i \in 1 .. k
    BY <1>12
  <2> QED BY <1>12, <1>14, <2>1 DEF m
<1>16. Receives(e, w, q, y)
  BY <1>1, <1>12, <1>13, <1>14, <1>15 DEF Receives
<1> QED BY <1>1, <1>4, <1>6, <1>13, <1>14, <1>16 DEF e, y, m, k

LEMMA ReceivesNoError ==
  ASSUME NEW b, IsBuffer(b, AllCells), NEW w \in Seq(AllCells), NEW q \in Seq(Entries),
         NEW d \in Seq(Messages), Receives(b, w, q, d), \A i \in 1 .. Len(q) : q[i] # Bad
  PROVE  Decode(b) \notin Errors
<1> DEFINE k == Len(d)
           m == q[k + 1]
<1>1. CASE Decode(b) = "wait"
  BY <1>1 DEF Errors
<1>2. CASE Decode(b) # "wait"
  <2>1. /\ k + 1 \in 1 .. Len(q)
        /\ \E f \in Frames(m) :
             \A i \in 1 .. readableBytes(b) : i <= Len(f) => Content(b)[i] = f[i]
    BY <1>2, ReceivesFront
  <2>2. m \in Messages
    <3>1. m \in Entries
      BY <2>1, ElementOfSeq
    <3> QED BY <2>1, <3>1 DEF Entries
  <2> HIDE DEF m
  <2>3. /\ m.size \in Nat /\ m.size + 3 <= kMaxMessageLen /\ Len(Frame(m)) = m.size + 5
        /\ Frames(m) = {Frame(m)}
    BY <2>2, MessageIs
  <2>4. \A i \in 1 .. readableBytes(b) : i <= m.size + 5 => Content(b)[i] = Frame(m)[i]
    BY <2>1, <2>3
  <2>5. Decode(b) \in {"wait", "kNoError"}
    BY <2>3, <2>4, GoodFrame
  <2> QED BY <2>5 DEF Errors
<1> QED BY <1>1, <1>2

-----------------------------------------------------------------------------
(* The invariant.                                                          *)

Typed ==
  /\ use \in Services /\ id_ \in Nat
  /\ pc \in [Calls -> {"call", "insert", "send", "sent"}] /\ id \in [Calls -> Nat]
  /\ answers \in [Calls -> Seq(Methods \X (Calls \cup {"none"}))]
  /\ channel \in [Sides -> BOOLEAN]
  /\ conn \in [Sides -> {"connected", "disconnecting", "disconnected"}]
  /\ decoding \in [Sides -> BOOLEAN]

(* Each side receives what its peer sends: w is on the wires, b are the     *)
(* input buffers, q is what was sent and d what was dispatched.            *)
Net(w, b, q, d) ==
  /\ w \in [Sides -> Seq(AllCells)]
  /\ b \in [Sides -> [buffer_ : Seq(AllCells), readerIndex_ : Nat, writerIndex_ : Nat]]
  /\ q \in [Sides -> Seq(Entries)] /\ d \in [Sides -> Seq(Messages)]
  /\ \A s \in Sides : /\ IsBuffer(b[s], AllCells)
                      /\ Receives(b[s], w[Peer(s)], q[Peer(s)], d[s])
NetInv == Net(wire, inputBuffer_, sent, dispatched)

(* A call that has its id. *)
Begun == {c \in Calls : pc[c] # "call"}

(* Ids are given out once, and the client's channel is there as long as a  *)
(* thread is in CallMethod.                                                *)
CallInv ==
  /\ \A c \in Begun : id[c] \in 1 .. id_
  /\ \A c, d \in Begun : id[c] = id[d] => c = d
  /\ id_ = Cardinality(Begun)
  /\ \A c \in Calls : pc[c] \in {"insert", "send"} => channel["client"]
  /\ \A c \in Calls : answers[c] # <<>> => pc[c] \in {"send", "sent"}

(* outstandings_ has the calls that wait for an answer. *)
Waiting(c) == pc[c] \in {"send", "sent"} /\ answers[c] = <<>> /\ channel["client"]
MapInv ==
  /\ \A c \in Calls : Waiting(c) => id[c] \in DOMAIN outstandings_ /\ outstandings_[id[c]] = c
  /\ \A i \in DOMAIN outstandings_ :
       outstandings_[i] \in Calls /\ Waiting(outstandings_[i]) /\ id[outstandings_[i]] = i

(* Done ran with the answer to its own call. *)
AnswerInv ==
  \A c \in Calls :
    /\ Len(answers[c]) <= 1
    /\ \A i \in DOMAIN answers[c] :
         answers[c][i] = <<Method[c], IF Method[c] = "ok" THEN c ELSE "none">>

(* The client sends requests, and the server answers to them. *)
Reply(c) == IF Method[c] = "ok" THEN Response(id[c], c) ELSE Refusal(id[c], Method[c])
IsRequest(x) == x = Bad \/ \E c \in Calls : pc[c] = "sent" /\ x = Request(id[c], c)
IsReply(x) == x = Bad \/ \E c \in Calls : pc[c] = "sent" /\ x = Reply(c)
MessageInv ==
  /\ \A i \in 1 .. Len(sent["client"]) : IsRequest(sent["client"][i])
  /\ \A i \in 1 .. Len(sent["server"]) : IsReply(sent["server"][i])
  /\ \A x \in closures : \E c \in Calls :
       pc[c] = "sent" /\ Method[c] = "ok" /\ x = [id |-> id[c], arg |-> c]

(* The connection lasts unless its use says that it may not, and a closure *)
(* misses its channel only when a service answers late on one that does    *)
(* not.                                                                    *)
UseInv ==
  /\ ~use.async => closures = {}
  /\ ~use.drops => \A s \in Sides : /\ conn[s] = "connected" /\ channel[s]
                                    /\ \A i \in 1 .. Len(sent[s]) : sent[s][i] # Bad
  /\ dangling => use.async /\ use.drops

ClientInv == CallInv /\ MapInv /\ AnswerInv
IInv == Typed /\ NetInv /\ ClientInv /\ MessageInv /\ UseInv

LEMMA PeerIs == Peer("client") = "server" /\ Peer("server") = "client"
<1>1. \A t \in Sides : (t # "client" <=> t = "server") /\ (t # "server" <=> t = "client")
  BY DEF Sides
<1>2. (CHOOSE t \in Sides : t # "client") = "server"
  BY <1>1 DEF Sides
<1>3. (CHOOSE t \in Sides : t # "server") = "client"
  BY <1>1 DEF Sides
<1> QED BY <1>2, <1>3 DEF Peer

LEMMA PeerInSides ==
  ASSUME NEW s \in Sides
  PROVE  Peer(s) \in Sides /\ Peer(Peer(s)) = s /\ \A t \in Sides : Peer(t) = Peer(s) => t = s
BY PeerIs DEF Sides

LEMMA IdsInRange ==
  ASSUME Typed, CallInv, NEW c \in Begun
  PROVE  /\ id[c] \in Ids
         /\ Request(id[c], c) \in Messages /\ Reply(c) \in Messages
<1>1. Begun \subseteq Calls /\ IsFiniteSet(Calls)
  BY RpcAssumption DEF Begun
<1>2. Cardinality(Begun) <= Cardinality(Calls) /\ Cardinality(Calls) \in Nat
  BY <1>1, FS_Subset, FS_CardinalityType
<1>3. id[c] \in Ids
  BY <1>2 DEF CallInv, Typed, Ids
<1>4. c \in Calls /\ Method[c] \in Methods
  BY <1>1, RpcAssumption
<1>5. Request(id[c], c) \in Messages
  BY <1>3, <1>4 DEF Messages
<1>6. Response(id[c], c) \in Messages /\ Refusal(id[c], Method[c]) \in Messages
  BY <1>3, <1>4 DEF Messages
<1> QED BY <1>3, <1>5, <1>6 DEF Reply

LEMMA InitOk == Init => IInv
<1> SUFFICES ASSUME Init PROVE IInv
  OBVIOUS
<1>1. Blank \in AllCells
  BY DEF AllCells
<1>2. IsBuffer(NewBuffer, AllCells) /\ Content(NewBuffer) = <<>>
  BY <1>1, NewBufferIsEmpty
<1>3. Typed
  BY DEF Init, Typed
<1>4. NewBuffer \in [buffer_ : Seq(AllCells), readerIndex_ : Nat, writerIndex_ : Nat]
  BY <1>2 DEF IsBuffer
<1>5. Receives(NewBuffer, <<>>, <<>>, <<>>)
  <2> DEFINE off == [j \in 0 .. 0 |-> 0]
  <2>1. <<>> \o <<>> = <<>> /\ Len(<<>>) = 0
    OBVIOUS
  <2>2. Cuts(FrameSets, off, <<>>, <<>>, 0)
    BY <2>1 DEF Cuts
  <2> QED BY <1>2, <2>1, <2>2 DEF Receives, Framed
<1>6. NetInv
  BY <1>2, <1>4, <1>5, PeerInSides DEF Init, NetInv, Net
<1>7. Begun = {}
  BY DEF Begun, Init
<1>8. CallInv
  BY <1>7, FS_EmptySet DEF Init, CallInv
<1>9. MapInv /\ AnswerInv
  BY DEF Init, MapInv, AnswerInv, Waiting
<1>10. MessageInv
  BY DEF Init, MessageInv, Sides
<1>11. UseInv
  BY DEF Init, UseInv, Sides
<1> QED BY <1>3, <1>6, <1>8, <1>9, <1>10, <1>11 DEF IInv, ClientInv

(* What was sent stays what it is while the sent calls keep their ids. *)
LEMMA MessagesKept ==
  ASSUME NEW x,
         \A c \in Calls : pc[c] = "sent" => (pc'[c] = "sent" /\ id'[c] = id[c])
  PROVE  (IsRequest(x) => IsRequest(x)') /\ (IsReply(x) => IsReply(x)')
BY DEF IsRequest, IsReply, Reply

LEMMA GetIdStep ==
  ASSUME IInv, NEW c \in Calls, GetId(c), UNCHANGED use
  PROVE  IInv'
<1> USE DEF IInv, GetId
<1>1. UNCHANGED <<outstandings_, answers, serverVars, channel, netVars, use>> /\ pc[c] = "call"
  OBVIOUS
<1>2. Typed'
  BY DEF Typed, serverVars, netVars
<1>3. NetInv'
  BY <1>1 DEF NetInv, netVars
<1>4. Begun' = Begun \cup {c} /\ c \notin Begun
  BY DEF Begun, Typed
<1>5. /\ pc'[c] = "insert" /\ id'[c] = id_ + 1 /\ id_' = id_ + 1
      /\ \A d \in Calls : d # c => pc'[d] = pc[d] /\ id'[d] = id[d]
  BY DEF Typed
<1>6. CallInv'
  <2>1. IsFiniteSet(Begun)
    BY RpcAssumption, FS_Subset DEF Begun
  <2>2. Cardinality(Begun') = Cardinality(Begun) + 1
    BY <1>4, <2>1, FS_AddElement
  <2>3. \A d \in Begun : d \in Calls /\ d # c /\ id[d] \in 1 .. id_ /\ id[d] # id_ + 1
    BY <1>4 DEF ClientInv, CallInv, Typed, Begun
  <2>4. \A d \in Begun' : id'[d] \in 1 .. id_'
    BY <1>4, <1>5, <2>3 DEF Typed
  <2>5. \A d, e \in Begun' : id'[d] = id'[e] => d = e
    BY <1>4, <1>5, <2>3 DEF ClientInv, CallInv
  <2>6. id_' = Cardinality(Begun')
    BY <1>5, <2>2 DEF ClientInv, CallInv
  <2>7. \A d \in Calls : pc'[d] \in {"insert", "send"} => channel'["client"]
    BY <1>1, <1>5 DEF ClientInv, CallInv
  <2>8. \A d \in Calls : answers'[d] # <<>> => pc'[d] \in {"send", "sent"}
    BY <1>1, <1>5 DEF ClientInv, CallInv
  <2> QED BY <2>4, <2>5, <2>6, <2>7, <2>8 DEF CallInv
<1>7. MapInv'
  BY <1>1, <1>5 DEF ClientInv, MapInv, Waiting
<1>8. AnswerInv'
  BY <1>1 DEF ClientInv, AnswerInv
<1>9. MessageInv'
  <2>1. \A d \in Calls : pc[d] = "sent" => (pc'[d] = "sent" /\ id'[d] = id[d])
    BY <1>1, <1>5
  <2>2. sent' = sent /\ closures' = closures
    BY <1>1 DEF netVars, serverVars
  <2> QED BY <2>1, <2>2, MessagesKept DEF MessageInv
<1>10. UseInv'
  BY <1>1 DEF UseInv, netVars, serverVars
<1> QED BY <1>2, <1>3, <1>6, <1>7, <1>8, <1>9, <1>10 DEF ClientInv

LEMMA MapNext ==
  ASSUME \A c \in Calls : Waiting(c)' => id'[c] \in DOMAIN outstandings_' /\ outstandings_'[id'[c]] = c,
         \A i \in DOMAIN outstandings_' :
           \E d \in Calls : outstandings_'[i] = d /\ Waiting(d)' /\ id'[d] = i
  PROVE  MapInv'
BY DEF MapInv, Waiting

LEMMA InsertStep ==
  ASSUME IInv, NEW c \in Calls, Insert(c), UNCHANGED use
  PROVE  IInv'
<1> USE DEF IInv, Insert
<1>1. UNCHANGED <<id_, id, answers, serverVars, channel, netVars, use>> /\ pc[c] = "insert"
  OBVIOUS
<1>2. Typed'
  BY DEF Typed, serverVars, netVars
<1>3. NetInv'
  BY <1>1 DEF NetInv, netVars
<1>5. /\ pc'[c] = "send"
      /\ \A d \in Calls : d # c => pc'[d] = pc[d]
  BY DEF Typed
<1>4. Begun' = Begun
  BY <1>1, <1>5 DEF Begun
<1>6. CallInv'
  BY <1>1, <1>4, <1>5 DEF ClientInv, CallInv
<1>7. MapInv'
  <2>1. Waiting(c)' /\ ~Waiting(c)
    BY <1>1, <1>5 DEF Waiting, ClientInv, CallInv
  <2>2. \A d \in Calls : d # c => (Waiting(d)' <=> Waiting(d))
    BY <1>1, <1>5 DEF Waiting
  <2>3. \A d \in Calls : d # c /\ Waiting(d) => id[d] # id[c]
    BY <1>1 DEF Waiting, ClientInv, CallInv, Begun
  <2>4. /\ DOMAIN outstandings_' = DOMAIN outstandings_ \cup {id[c]}
        /\ outstandings_'[id[c]] = c
        /\ \A i \in DOMAIN outstandings_ : i # id[c] => outstandings_'[i] = outstandings_[i]
    OBVIOUS
  <2>5. \A d \in Calls : Waiting(d)' => id'[d] \in DOMAIN outstandings_' /\ outstandings_'[id'[d]] = d
    BY <1>1, <2>2, <2>3, <2>4 DEF ClientInv, MapInv
  <2>6. ASSUME NEW i \in DOMAIN outstandings_'
        PROVE  \E d \in Calls : outstandings_'[i] = d /\ Waiting(d)' /\ id'[d] = i
    <3>1. CASE i = id[c]
      BY <1>1, <2>1, <2>4, <3>1
    <3>2. CASE i # id[c]
      <4> DEFINE d == outstandings_[i]
      <4>1. i \in DOMAIN outstandings_ /\ outstandings_'[i] = d
        BY <2>4, <3>2
      <4>2. d \in Calls /\ Waiting(d) /\ id[d] = i
        BY <4>1 DEF ClientInv, MapInv
      <4>3. d # c
        BY <2>1, <4>2
      <4> HIDE DEF d
      <4> QED BY <1>1, <2>2, <4>1, <4>2, <4>3
    <3> QED BY <3>1, <3>2
  <2> QED BY <2>5, <2>6, MapNext
<1>8. AnswerInv'
  BY <1>1 DEF ClientInv, AnswerInv
<1>9. MessageInv'
  <2>1. \A d \in Calls : pc[d] = "sent" => (pc'[d] = "sent" /\ id'[d] = id[d])
    BY <1>1, <1>5
  <2>2. sent' = sent /\ closures' = closures
    BY <1>1 DEF netVars, serverVars
  <2> QED BY <2>1, <2>2, MessagesKept DEF MessageInv
<1>10. UseInv'
  BY <1>1 DEF UseInv, netVars, serverVars
<1> QED BY <1>2, <1>3, <1>6, <1>7, <1>8, <1>9, <1>10 DEF ClientInv

-----------------------------------------------------------------------------
(* What the steps do to the streams.                                       *)

(* ... a side sends a frame, *)
LEMMA NetSend ==
  ASSUME NEW w, NEW b, NEW q, NEW d, Net(w, b, q, d), NEW s \in Sides,
         NEW x \in Entries, NEW f \in Frames(x)
  PROVE  Net([w EXCEPT ![s] = @ \o f], b, [q EXCEPT ![s] = Append(@, x)], d)
<1> DEFINE t == Peer(s)
           v == w[s] \o f
           r == Append(q[s], x)
           W == [w EXCEPT ![s] = @ \o f]
           Q == [q EXCEPT ![s] = Append(@, x)]
<1>1. t \in Sides /\ Peer(t) = s /\ \A u \in Sides : Peer(u) \in Sides /\ (u # t => Peer(u) # s)
  BY PeerInSides
<1>2. /\ IsBuffer(b[t], AllCells) /\ Receives(b[t], w[s], q[s], d[t])
      /\ w[s] \in Seq(AllCells) /\ q[s] \in Seq(Entries) /\ d[t] \in Seq(Messages)
  BY <1>1 DEF Net
<1>3. v \in Seq(AllCells) /\ r \in Seq(Entries) /\ Receives(b[t], v, r, d[t])
  BY <1>2, ReceivesSend
<1>4. W = [w EXCEPT ![s] = v] /\ Q = [q EXCEPT ![s] = r]
  OBVIOUS
<1> HIDE DEF v, r, W, Q, t
<1>5. /\ W \in [Sides -> Seq(AllCells)] /\ Q \in [Sides -> Seq(Entries)]
      /\ W[s] = v /\ Q[s] = r
      /\ \A u \in Sides : u # s => W[u] = w[u] /\ Q[u] = q[u]
  BY <1>3, <1>4 DEF Net
<1>6. ASSUME NEW u \in Sides
      PROVE  IsBuffer(b[u], AllCells) /\ Receives(b[u], W[Peer(u)], Q[Peer(u)], d[u])
  <2>1. CASE u = t
    BY <1>1, <1>2, <1>3, <1>5, <2>1
  <2>2. CASE u # t
    <3>1. Peer(u) \in Sides /\ Peer(u) # s
      BY <1>1, <2>2
    <3>2. W[Peer(u)] = w[Peer(u)] /\ Q[Peer(u)] = q[Peer(u)]
      BY <1>5, <3>1
    <3> QED BY <3>2 DEF Net
  <2> QED BY <2>1, <2>2
<1>7. Net(W, b, Q, d)
  BY <1>5, <1>6 DEF Net
<1> QED BY <1>7 DEF W, Q

(* ... bytes arrive, *)
LEMMA NetArrive ==
  ASSUME NEW w, NEW b, NEW q, NEW d, Net(w, b, q, d), NEW s \in Sides,
         NEW n \in Nat, n <= Len(w[Peer(s)])
  PROVE  Net([w EXCEPT ![Peer(s)] = SubSeq(@, n + 1, Len(@))],
             [b EXCEPT ![s] = readFd(@, SubSeq(w[Peer(s)], 1, n))], q, d)
<1> DEFINE t == Peer(s)
           v == SubSeq(w[t], n + 1, Len(w[t]))
           a == readFd(b[s], SubSeq(w[t], 1, n))
           W == [w EXCEPT ![t] = SubSeq(@, n + 1, Len(@))]
           B == [b EXCEPT ![s] = readFd(@, SubSeq(w[t], 1, n))]
<1>1. t \in Sides /\ \A u \in Sides : Peer(u) \in Sides /\ (u # s => Peer(u) # t)
  BY PeerInSides
<1>2. /\ IsBuffer(b[s], AllCells) /\ Receives(b[s], w[t], q[t], d[s]) /\ w[t] \in Seq(AllCells)
  BY <1>1 DEF Net
<1>3. IsBuffer(a, AllCells) /\ v \in Seq(AllCells) /\ Receives(a, v, q[t], d[s])
  BY <1>2, ReceivesArrive
<1>4. W = [w EXCEPT ![t] = v] /\ B = [b EXCEPT ![s] = a]
  OBVIOUS
<1> HIDE DEF v, a, W, B, t
<1>5. a \in [buffer_ : Seq(AllCells), readerIndex_ : Nat, writerIndex_ : Nat]
  BY <1>3 DEF IsBuffer
<1>6. /\ W \in [Sides -> Seq(AllCells)]
      /\ B \in [Sides -> [buffer_ : Seq(AllCells), readerIndex_ : Nat, writerIndex_ : Nat]]
      /\ W[t] = v /\ B[s] = a
      /\ \A u \in Sides : (u # t => W[u] = w[u]) /\ (u # s => B[u] = b[u])
  BY <1>1, <1>3, <1>4, <1>5 DEF Net
<1>7. ASSUME NEW u \in Sides
      PROVE  IsBuffer(B[u], AllCells) /\ Receives(B[u], W[Peer(u)], q[Peer(u)], d[u])
  <2>1. CASE u = s
    BY <1>3, <1>6, <2>1 DEF t
  <2>2. CASE u # s
    <3>1. W[Peer(u)] = w[Peer(u)] /\ B[u] = b[u]
      BY <1>1, <1>6, <2>2
    <3> QED BY <3>1 DEF Net
  <2> QED BY <2>1, <2>2
<1>8. Net(W, B, q, d)
  BY <1>6, <1>7 DEF Net
<1> QED BY <1>8 DEF W, B, t

(* ... a message is dispatched. *)
LEMMA NetDispatch ==
  ASSUME NEW w, NEW b, NEW q, NEW d, Net(w, b, q, d), NEW s \in Sides, Decode(b[s]) = "kNoError"
  PROVE  /\ \E i \in 1 .. Len(q[Peer(s)]) : q[Peer(s)][i] = Message(b[s])
         /\ Message(b[s]) \in Messages
         /\ Net(w, [b EXCEPT ![s] = Retrieved(@)], q, [d EXCEPT ![s] = Append(@, Message(b[s]))])
<1> DEFINE t == Peer(s)
           m == Message(b[s])
           y == Append(d[s], m)
           a == Retrieved(b[s])
           D == [d EXCEPT ![s] = Append(@, m)]
           B == [b EXCEPT ![s] = Retrieved(@)]
<1>1. t \in Sides
  BY PeerInSides
<1>2. /\ IsBuffer(b[s], AllCells) /\ Receives(b[s], w[t], q[t], d[s])
      /\ w[t] \in Seq(AllCells) /\ q[t] \in Seq(Entries) /\ d[s] \in Seq(Messages)
  BY <1>1 DEF Net
<1>3. /\ Len(d[s]) + 1 \in 1 .. Len(q[t]) /\ q[t][Len(d[s]) + 1] = m /\ m \in Messages
      /\ IsBuffer(a, AllCells) /\ y \in Seq(Messages) /\ Receives(a, w[t], q[t], y)
  BY <1>2, ReceivesDispatch
<1>4. B = [b EXCEPT ![s] = a] /\ D = [d EXCEPT ![s] = y]
  OBVIOUS
<1>5. \E i \in 1 .. Len(q[t]) : q[t][i] = m
  BY <1>3
<1> HIDE DEF m, y, a, D, B, t
<1>6. a \in [buffer_ : Seq(AllCells), readerIndex_ : Nat, writerIndex_ : Nat]
  BY <1>3 DEF IsBuffer
<1>7. /\ D \in [Sides -> Seq(Messages)]
      /\ B \in [Sides -> [buffer_ : Seq(AllCells), readerIndex_ : Nat, writerIndex_ : Nat]]
      /\ D[s] = y /\ B[s] = a
      /\ \A u \in Sides : u # s => D[u] = d[u] /\ B[u] = b[u]
  BY <1>3, <1>4, <1>6 DEF Net
<1>8. ASSUME NEW u \in Sides
      PROVE  IsBuffer(B[u], AllCells) /\ Receives(B[u], w[Peer(u)], q[Peer(u)], D[u])
  <2>1. CASE u = s
    BY <1>3, <1>7, <2>1 DEF t
  <2>2. CASE u # s
    BY <1>7, <2>2 DEF Net
  <2> QED BY <2>1, <2>2
<1>9. Net(w, B, q, D)
  BY <1>7, <1>8 DEF Net
<1> QED BY <1>3, <1>5, <1>9 DEF B, D, m, t

(* What Send adds to sent. *)
LEMMA SendAdds ==
  ASSUME NetInv, NEW s \in Sides, NEW m \in Messages, Send(s, m)
  PROVE  /\ \/ wire' = wire /\ sent' = sent
            \/ /\ conn[s] = "connected"
               /\ wire' = [wire EXCEPT ![s] = @ \o Frame(m)]
               /\ sent' = [sent EXCEPT ![s] = Append(@, m)]
         /\ \A t \in Sides : \A i \in 1 .. Len(sent'[t]) :
              \/ i \in 1 .. Len(sent[t]) /\ sent'[t][i] = sent[t][i]
              \/ t = s /\ sent'[t][i] = m
<1>1. FrameOf[m] = Frame(m)
  BY MessageIs
<1>2. \A t \in Sides : sent[t] \in Seq(Entries) /\ DOMAIN sent = Sides
  BY DEF NetInv, Net
<1>3. CASE wire' = wire /\ sent' = sent
  BY <1>3
<1>4. CASE conn[s] = "connected" /\ wire' = [wire EXCEPT ![s] = @ \o Frame(m)]
           /\ sent' = [sent EXCEPT ![s] = Append(@, m)]
  <2> DEFINE r == Append(sent[s], m)
             n == Len(sent[s])
  <2>1. m \in Entries
    BY DEF Entries
  <2>2. n \in Nat /\ Len(r) = n + 1 /\ r[n + 1] = m /\ \A i \in 1 .. n : r[i] = sent[s][i]
    BY <1>2, <2>1, AppendProperties, LenProperties
  <2>3. sent'[s] = r /\ \A t \in Sides : t # s => sent'[t] = sent[t]
    BY <1>2, <1>4
  <2> HIDE DEF r, n
  <2>4. \A i \in 1 .. Len(r) : i \in 1 .. n \/ i = n + 1
    BY <2>2
  <2>5. \A i \in 1 .. Len(r) : (i \in 1 .. n /\ r[i] = sent[s][i]) \/ r[i] = m
    BY <2>2, <2>4
  <2> QED BY <1>4, <2>3, <2>5 DEF n
<1> QED BY <1>1, <1>3, <1>4 DEF Send

-----------------------------------------------------------------------------
(* The remaining steps.                                                    *)

LEMMA MessagesNext ==
  ASSUME MessageInv,
         \A c \in Calls : pc[c] = "sent" => (pc'[c] = "sent" /\ id'[c] = id[c]),
         \A i \in 1 .. Len(sent'["client"]) :
           \/ i \in 1 .. Len(sent["client"]) /\ sent'["client"][i] = sent["client"][i]
           \/ \E x : sent'["client"][i] = x /\ IsRequest(x)',
         \A i \in 1 .. Len(sent'["server"]) :
           \/ i \in 1 .. Len(sent["server"]) /\ sent'["server"][i] = sent["server"][i]
           \/ \E x : sent'["server"][i] = x /\ IsReply(x)',
         \A x \in closures' :
           \/ x \in closures
           \/ \E c \in Calls : pc'[c] = "sent" /\ Method[c] = "ok" /\ x = [id |-> id'[c], arg |-> c]
  PROVE  MessageInv'
<1>1. ASSUME NEW i \in 1 .. Len(sent'["client"])
      PROVE  \E x : sent'["client"][i] = x /\ IsRequest(x)'
  <2>1. CASE i \in 1 .. Len(sent["client"]) /\ sent'["client"][i] = sent["client"][i]
    BY <2>1, MessagesKept DEF MessageInv
  <2> QED BY <2>1
<1>2. ASSUME NEW i \in 1 .. Len(sent'["server"])
      PROVE  \E x : sent'["server"][i] = x /\ IsReply(x)'
  <2>1. CASE i \in 1 .. Len(sent["server"]) /\ sent'["server"][i] = sent["server"][i]
    BY <2>1, MessagesKept DEF MessageInv
  <2> QED BY <2>1
<1>3. \A x \in closures' : \E c \in Calls :
        pc'[c] = "sent" /\ Method[c] = "ok" /\ x = [id |-> id'[c], arg |-> c]
  <2> TAKE x \in closures'
  <2>1. CASE x \in closures
    <3>1. PICK c \in Calls : pc[c] = "sent" /\ Method[c] = "ok" /\ x = [id |-> id[c], arg |-> c]
      BY <2>1 DEF MessageInv
    <3>2. pc'[c] = "sent" /\ x = [id |-> id'[c], arg |-> c]
      BY <3>1
    <3> QED BY <3>1, <3>2
  <2> QED BY <2>1
<1>4. \A i \in 1 .. Len(sent'["client"]) : IsRequest(sent["client"][i])'
  BY <1>1 DEF IsRequest
<1>5. \A i \in 1 .. Len(sent'["server"]) : IsReply(sent["server"][i])'
  BY <1>2 DEF IsReply, Reply
<1> QED BY <1>3, <1>4, <1>5 DEF MessageInv

LEMMA UseNext ==
  ASSUME UseInv, UNCHANGED <<use, conn, channel>>,
         dangling' => use.async /\ use.drops,
         ~use.async => closures' = {},
         \A t \in Sides : \A i \in 1 .. Len(sent'[t]) :
           \/ i \in 1 .. Len(sent[t]) /\ sent'[t][i] = sent[t][i]
           \/ sent'[t][i] \in Messages
  PROVE  UseInv'
<1>1. \A m \in Messages : m # Bad
  BY MessageIs, BadIs DEF Bad
<1> QED BY <1>1 DEF UseInv

LEMMA SendRequestStep ==
  ASSUME IInv, NEW c \in Calls, SendRequest(c), UNCHANGED use
  PROVE  IInv'
<1> DEFINE m == Request(id[c], c)
<1> USE DEF IInv
<1>1. /\ UNCHANGED <<id_, id, outstandings_, answers, closures, dangling, channel, conn,
                     inputBuffer_, decoding, dispatched, use>>
      /\ pc[c] = "send" /\ Send("client", m) /\ pc' = [pc EXCEPT ![c] = "sent"]
  BY DEF SendRequest, serverVars
<1>2. /\ pc'[c] = "sent" /\ \A d \in Calls : d # c => pc'[d] = pc[d]
  BY <1>1 DEF Typed
<1>3. Typed'
  BY <1>1 DEF Typed
<1>4. m \in Messages /\ m \in Entries /\ "client" \in Sides /\ "server" # "client" /\ "server" \in Sides
  BY <1>1, IdsInRange DEF ClientInv, Begun, Entries, Sides
<1> HIDE DEF m
<1>5. /\ \/ wire' = wire /\ sent' = sent
         \/ /\ conn["client"] = "connected"
            /\ wire' = [wire EXCEPT !["client"] = @ \o Frame(m)]
            /\ sent' = [sent EXCEPT !["client"] = Append(@, m)]
      /\ \A t \in Sides : \A i \in 1 .. Len(sent'[t]) :
           \/ i \in 1 .. Len(sent[t]) /\ sent'[t][i] = sent[t][i]
           \/ t = "client" /\ sent'[t][i] = m
  BY <1>1, <1>4, SendAdds
<1>6. NetInv'
  <2>1. CASE wire' = wire /\ sent' = sent
    BY <1>1, <2>1 DEF NetInv
  <2>2. CASE /\ wire' = [wire EXCEPT !["client"] = @ \o Frame(m)]
             /\ sent' = [sent EXCEPT !["client"] = Append(@, m)]
    <3>1. Frame(m) \in Frames(m)
      BY <1>4, MessageIs
    <3> QED BY <1>1, <1>4, <2>2, <3>1, NetSend DEF NetInv
  <2> QED BY <1>5, <2>1, <2>2
<1>7. CallInv'
  <2>1. Begun' = Begun
    BY <1>1, <1>2 DEF Begun
  <2> QED BY <1>1, <1>2, <2>1 DEF ClientInv, CallInv
<1>8. MapInv'
  <2>1. \A d \in Calls : Waiting(d)' <=> Waiting(d)
    BY <1>1, <1>2 DEF Waiting
  <2> QED BY <1>1, <2>1, MapNext DEF ClientInv, MapInv
<1>9. AnswerInv'
  BY <1>1 DEF ClientInv, AnswerInv
<1>10. MessageInv'
  <2>1. \E x : m = x /\ IsRequest(x)'
    BY <1>1, <1>2 DEF IsRequest, m
  <2>2. \A d \in Calls : pc[d] = "sent" => (pc'[d] = "sent" /\ id'[d] = id[d])
    BY <1>1, <1>2
  <2>3. /\ \A i \in 1 .. Len(sent'["client"]) :
             \/ i \in 1 .. Len(sent["client"]) /\ sent'["client"][i] = sent["client"][i]
             \/ \E x : sent'["client"][i] = x /\ IsRequest(x)'
        /\ \A i \in 1 .. Len(sent'["server"]) :
             i \in 1 .. Len(sent["server"]) /\ sent'["server"][i] = sent["server"][i]
    BY <1>4, <1>5, <2>1
  <2> QED BY <1>1, <2>2, <2>3, MessagesNext
<1>11. UseInv'
  BY <1>1, <1>4, <1>5, UseNext DEF UseInv
<1> QED BY <1>3, <1>6, <1>7, <1>8, <1>9, <1>10, <1>11 DEF ClientInv

(* The server sends the answer to a call, from whatever step. *)
LEMMA ReplySent ==
  ASSUME IInv, NEW c \in Calls, pc[c] = "sent", Send("server", Reply(c)),
         UNCHANGED <<pc, id, use, conn, channel>>, closures' \subseteq closures,
         dangling' => use.async /\ use.drops
  PROVE  MessageInv' /\ UseInv'
<1> DEFINE m == Reply(c)
<1> USE DEF IInv
<1>1. m \in Messages /\ "client" \in Sides /\ "server" # "client" /\ "server" \in Sides
  BY IdsInRange DEF ClientInv, Begun, Sides
<1>2. \E x : m = x /\ IsReply(x)'
  BY DEF IsReply, Reply
<1> HIDE DEF m
<1>3. \A t \in Sides : \A i \in 1 .. Len(sent'[t]) :
           \/ i \in 1 .. Len(sent[t]) /\ sent'[t][i] = sent[t][i]
           \/ t = "server" /\ sent'[t][i] = m
  BY <1>1, SendAdds DEF m
<1>4. MessageInv'
  <2>1. /\ \A i \in 1 .. Len(sent'["client"]) :
             i \in 1 .. Len(sent["client"]) /\ sent'["client"][i] = sent["client"][i]
        /\ \A i \in 1 .. Len(sent'["server"]) :
             \/ i \in 1 .. Len(sent["server"]) /\ sent'["server"][i] = sent["server"][i]
             \/ \E x : sent'["server"][i] = x /\ IsReply(x)'
    BY <1>1, <1>2, <1>3
  <2> QED BY <2>1, MessagesNext
<1>5. ~use.async => closures' = {}
  BY DEF UseInv
<1>6. UseInv'
  BY <1>1, <1>3, <1>5, UseNext
<1> QED BY <1>4, <1>6

(* Steps that leave the client alone. *)
LEMMA ClientKept ==
  ASSUME ClientInv, UNCHANGED <<clientVars, channel["client"]>>
  PROVE  ClientInv'
<1> USE DEF clientVars, ClientInv
<1>1. Begun' = Begun
  BY DEF Begun
<1>2. CallInv'
  BY <1>1 DEF CallInv
<1>3. MapInv'
  BY DEF MapInv, Waiting
<1>4. AnswerInv'
  BY DEF AnswerInv
<1> QED BY <1>2, <1>3, <1>4

LEMMA MessagesSame ==
  ASSUME MessageInv, UNCHANGED <<pc, id, sent, closures>>
  PROVE  MessageInv'
BY DEF MessageInv, IsRequest, IsReply, Reply

LEMMA LateDoneStep ==
  ASSUME IInv, NEW x, LateDone(x), UNCHANGED use
  PROVE  IInv'
<1> USE DEF IInv
<1>1. /\ x \in closures /\ closures' = closures \ {x} /\ dangling' = (dangling \/ ~channel["server"])
      /\ Send("server", Response(x.id, x.arg))
      /\ UNCHANGED <<clientVars, channel, conn, inputBuffer_, decoding, dispatched, use>>
  BY DEF LateDone
<1>2. PICK c \in Calls : pc[c] = "sent" /\ Method[c] = "ok" /\ x = [id |-> id[c], arg |-> c]
  BY <1>1 DEF MessageInv
<1>3. Response(x.id, x.arg) = Reply(c)
  BY <1>2 DEF Reply
<1>4. dangling' => use.async /\ use.drops
  <2>1. use.async
    BY <1>1 DEF UseInv
  <2> QED BY <1>1, <2>1 DEF UseInv, Sides
<1>5. MessageInv' /\ UseInv'
  BY <1>1, <1>2, <1>3, <1>4, ReplySent DEF clientVars
<1>6. ClientInv'
  BY <1>1, ClientKept
<1>7. Typed'
  BY <1>1 DEF Typed, clientVars
<1>8. NetInv'
  <2> DEFINE m == Reply(c)
  <2>1. m \in Messages /\ m \in Entries /\ "server" \in Sides
    BY <1>2, IdsInRange DEF ClientInv, Begun, Entries, Sides
  <2> HIDE DEF m
  <2>2. \/ wire' = wire /\ sent' = sent
        \/ /\ wire' = [wire EXCEPT !["server"] = @ \o Frame(m)]
           /\ sent' = [sent EXCEPT !["server"] = Append(@, m)]
    BY <1>1, <1>3, <2>1, SendAdds DEF m
  <2>3. CASE wire' = wire /\ sent' = sent
    BY <1>1, <2>3 DEF NetInv
  <2>4. CASE /\ wire' = [wire EXCEPT !["server"] = @ \o Frame(m)]
             /\ sent' = [sent EXCEPT !["server"] = Append(@, m)]
    <3>1. Frame(m) \in Frames(m)
      BY <2>1, MessageIs
    <3> QED BY <1>1, <2>1, <2>4, <3>1, NetSend DEF NetInv
  <2> QED BY <2>2, <2>3, <2>4
<1> QED BY <1>5, <1>6, <1>7, <1>8

LEMMA DestroyClientStep ==
  ASSUME IInv, DestroyClient, UNCHANGED use
  PROVE  IInv'
<1> USE DEF IInv
<1>1. /\ channel["client"] /\ conn["client"] = "disconnected"
      /\ \A c \in Calls : pc[c] \in {"call", "sent"}
      /\ channel' = [channel EXCEPT !["client"] = FALSE] /\ outstandings_' = <<>>
      /\ UNCHANGED <<id_, pc, id, answers, closures, dangling, netVars, use>>
  BY DEF DestroyClient, serverVars
<1>2. use.drops
  BY <1>1 DEF UseInv, Sides
<1>3. channel'["client"] = FALSE /\ Typed'
  BY <1>1 DEF Typed, netVars, Sides
<1>4. NetInv'
  BY <1>1 DEF NetInv, netVars
<1>5. CallInv'
  <2>1. Begun' = Begun
    BY <1>1 DEF Begun
  <2> QED BY <1>1, <2>1 DEF ClientInv, CallInv
<1>6. MapInv'
  BY <1>1, <1>3 DEF MapInv, Waiting
<1>7. AnswerInv'
  BY <1>1 DEF ClientInv, AnswerInv
<1>8. MessageInv'
  BY <1>1, MessagesSame DEF netVars
<1>9. UseInv'
  BY <1>1, <1>2 DEF UseInv
<1> QED BY <1>3, <1>4, <1>5, <1>6, <1>7, <1>8, <1>9 DEF ClientInv

LEMMA ArrivalStep ==
  ASSUME IInv, NEW s \in Sides, Arrival(s), UNCHANGED use
  PROVE  IInv'
<1> USE DEF IInv
<1> DEFINE a == Len(wire[Peer(s)])
           r == Readable(inputBuffer_[s])
<1>1. PICK n \in Chunks \cup {Min({a, r})} : Arrive(s, n)
  BY DEF Arrival
<1>2. Peer(s) \in Sides
  BY PeerInSides
<1>3. a \in Nat
  BY <1>2, LenProperties DEF NetInv, Net
<1>4. r \in Nat
  <2>1. IsBuffer(inputBuffer_[s], AllCells)
    BY DEF NetInv, Net
  <2>2. writableBytes(inputBuffer_[s]) \in Nat
    BY <2>1 DEF IsBuffer, writableBytes
  <2> QED BY <2>2, BufferAssumption DEF Readable
<1>5. n \in Nat
  <2> HIDE DEF a, r
  <2>1. Min({a, r}) \in {a, r}
    <3>1. \E x \in {a, r} : \A y \in {a, r} : x <= y
      BY <1>3, <1>4
    <3> QED BY <3>1 DEF Min
  <2> QED BY <1>1, <1>3, <1>4, <2>1, RpcAssumption
<1>6. /\ n <= a
      /\ wire' = [wire EXCEPT ![Peer(s)] = SubSeq(@, n + 1, Len(@))]
      /\ inputBuffer_' = [inputBuffer_ EXCEPT ![s] = readFd(@, SubSeq(wire[Peer(s)], 1, n))]
      /\ decoding' = [decoding EXCEPT ![s] = TRUE]
      /\ UNCHANGED <<clientVars, closures, dangling, channel, conn, sent, dispatched, use>>
  BY <1>1 DEF Arrive, serverVars
<1>7. NetInv'
  BY <1>5, <1>6, NetArrive DEF NetInv
<1>8. Typed' /\ ClientInv' /\ MessageInv'
  BY <1>6, ClientKept, MessagesSame DEF Typed, clientVars
<1>9. UseInv'
  BY <1>6 DEF UseInv
<1> QED BY <1>7, <1>8, <1>9

LEMMA AwaitMoreStep ==
  ASSUME IInv, NEW s \in Sides, AwaitMore(s), UNCHANGED use
  PROVE  IInv'
<1> USE DEF IInv
<1>1. /\ decoding' = [decoding EXCEPT ![s] = FALSE]
      /\ UNCHANGED <<clientVars, closures, dangling, channel, conn, wire, inputBuffer_, sent,
                     dispatched, use>>
  BY DEF AwaitMore, serverVars
<1>2. NetInv' /\ UseInv'
  BY <1>1 DEF NetInv, UseInv
<1>3. Typed' /\ ClientInv' /\ MessageInv'
  BY <1>1, ClientKept, MessagesSame DEF Typed, clientVars
<1> QED BY <1>2, <1>3

LEMMA OnErrorStep ==
  ASSUME IInv, NEW s \in Sides, OnError(s), UNCHANGED use
  PROVE  IInv'
<1> USE DEF IInv
<1>1. /\ Decode(inputBuffer_[s]) \in Errors
      /\ decoding' = [decoding EXCEPT ![s] = FALSE]
      /\ conn' = [conn EXCEPT ![s] = IF @ = "connected" THEN "disconnecting" ELSE @]
      /\ UNCHANGED <<clientVars, closures, dangling, channel, wire, inputBuffer_, sent,
                     dispatched, use>>
  BY DEF OnError, serverVars
<1>2. use.drops
  <2> SUFFICES ASSUME ~use.drops PROVE FALSE
    OBVIOUS
  <2> DEFINE t == Peer(s)
  <2>1. t \in Sides
    BY PeerInSides
  <2>2. \A i \in 1 .. Len(sent[t]) : sent[t][i] # Bad
    BY <2>1 DEF UseInv
  <2>3. /\ IsBuffer(inputBuffer_[s], AllCells) /\ wire[t] \in Seq(AllCells)
        /\ sent[t] \in Seq(Entries) /\ dispatched[s] \in Seq(Messages)
        /\ Receives(inputBuffer_[s], wire[t], sent[t], dispatched[s])
    BY <2>1 DEF NetInv, Net
  <2> HIDE DEF t
  <2> QED BY <1>1, <2>2, <2>3, ReceivesNoError
<1>3. NetInv' /\ UseInv'
  BY <1>1, <1>2 DEF NetInv, UseInv
<1>4. Typed' /\ ClientInv' /\ MessageInv'
  BY <1>1, ClientKept, MessagesSame DEF Typed, clientVars
<1> QED BY <1>3, <1>4

LEMMA CloseStep ==
  ASSUME IInv, NEW s \in Sides, Close(s), UNCHANGED use
  PROVE  IInv'
<1> USE DEF IInv
<1>1. /\ use.drops \/ conn[Peer(s)] # "connected"
      /\ conn' = [conn EXCEPT ![s] = "disconnected"]
      /\ channel' = [channel EXCEPT !["server"] = @ /\ s # "server"]
      /\ UNCHANGED <<clientVars, closures, dangling, wire, inputBuffer_, decoding, sent,
                     dispatched, use>>
  BY DEF Close, serverVars
<1>2. use.drops
  BY <1>1, PeerInSides DEF UseInv
<1>3. NetInv' /\ UseInv'
  BY <1>1, <1>2 DEF NetInv, UseInv
<1>4. channel'["client"] = channel["client"]
  BY <1>1 DEF Typed, Sides
<1>5. Typed'
  BY <1>1 DEF Typed, clientVars, Sides
<1>6. ClientInv' /\ MessageInv'
  BY <1>1, <1>4, ClientKept, MessagesSame DEF clientVars
<1> QED BY <1>3, <1>5, <1>6

LEMMA ForeignFrameStep ==
  ASSUME IInv, NEW s \in Sides, NEW e \in Errors, ForeignFrame(s, e), UNCHANGED use
  PROVE  IInv'
<1> USE DEF IInv
<1>1. /\ use.drops
      /\ wire' = [wire EXCEPT ![s] = @ \o BadFrame(e)]
      /\ sent' = [sent EXCEPT ![s] = Append(@, Bad)]
      /\ UNCHANGED <<clientVars, closures, dangling, channel, conn, inputBuffer_, decoding,
                     dispatched, use>>
  BY DEF ForeignFrame, serverVars, Bad
<1>2. Bad \in Entries /\ BadFrame(e) \in Frames(Bad)
  BY BadIs DEF Entries
<1>3. NetInv'
  BY <1>1, <1>2, NetSend DEF NetInv
<1>4. Typed' /\ ClientInv' /\ UseInv'
  BY <1>1, ClientKept DEF Typed, clientVars, UseInv
<1>5. MessageInv'
  <2> DEFINE r == Append(sent[s], Bad)
             n == Len(sent[s])
  <2>1. sent[s] \in Seq(Entries) /\ DOMAIN sent = Sides
    BY DEF NetInv, Net
  <2>2. n \in Nat /\ Len(r) = n + 1 /\ r[n + 1] = Bad /\ \A i \in 1 .. n : r[i] = sent[s][i]
    BY <1>2, <2>1, AppendProperties, LenProperties
  <2>3. sent'[s] = r /\ \A t \in Sides : t # s => sent'[t] = sent[t]
    BY <1>1, <2>1
  <2> HIDE DEF r, n
  <2>4. \A i \in 1 .. Len(r) : i \in 1 .. n \/ i = n + 1
    BY <2>2
  <2>5. \A i \in 1 .. Len(r) : (i \in 1 .. n /\ r[i] = sent[s][i]) \/ r[i] = Bad
    BY <2>2, <2>4
  <2>6. \A t \in Sides : \A i \in 1 .. Len(sent'[t]) :
          (i \in 1 .. Len(sent[t]) /\ sent'[t][i] = sent[t][i]) \/ sent'[t][i] = Bad
    BY <2>3, <2>5 DEF n
  <2>7. IsRequest(Bad)' /\ IsReply(Bad)' /\ \E x : x = Bad /\ IsRequest(x)' /\ IsReply(x)'
    BY DEF IsRequest, IsReply
  <2>8. "client" \in Sides /\ "server" \in Sides
    BY DEF Sides
  <2> QED BY <1>1, <2>6, <2>7, <2>8, MessagesNext DEF clientVars
<1> QED BY <1>3, <1>4, <1>5

(* The server dispatches a request: it is one that the client has sent. *)
LEMMA ServerDispatchStep ==
  ASSUME IInv, Dispatch("server"), UNCHANGED use
  PROVE  IInv'
<1> USE DEF IInv
<1> DEFINE B == [inputBuffer_ EXCEPT !["server"] = Retrieved(@)]
           m == Message(inputBuffer_["server"])
           D == [dispatched EXCEPT !["server"] = Append(@, m)]
<1>1. /\ Decode(inputBuffer_["server"]) = "kNoError"
      /\ dispatched' = D /\ inputBuffer_' = B
      /\ IF m.type = "RESPONSE" THEN OnResponse(m) ELSE OnRequest(m)
      /\ UNCHANGED <<id_, pc, id, channel, conn, decoding, use>>
  BY DEF Dispatch
<1>2. "server" \in Sides /\ "client" \in Sides /\ Peer("server") = "client"
  BY PeerIs DEF Sides
<1>3. /\ \E i \in 1 .. Len(sent["client"]) : sent["client"][i] = m
      /\ m \in Messages /\ Net(wire, B, sent, D)
  <2>1. Net(wire, inputBuffer_, sent, dispatched)
    BY DEF NetInv
  <2>2. /\ \E i \in 1 .. Len(sent[Peer("server")]) : sent[Peer("server")][i] = m
        /\ m \in Messages /\ Net(wire, B, sent, D)
    BY <1>1, <1>2, <2>1, NetDispatch
  <2> QED BY <1>2, <2>2
<1> HIDE DEF m, B, D
<1>4. m # Bad
  BY <1>3, MessageIs, BadIs DEF Bad
<1>5. PICK c \in Calls : pc[c] = "sent" /\ m = Request(id[c], c)
  BY <1>3, <1>4 DEF MessageInv, IsRequest
<1>6. /\ m.type = "REQUEST" /\ m.id = id[c] /\ m.what = Method[c] /\ m.arg = c
      /\ Method[c] \in Methods
  BY <1>5, RpcAssumption DEF Request
<1>7. /\ \/ Method[c] # "ok" /\ Send("server", Refusal(id[c], Method[c])) /\ closures' = closures
         \/ /\ Method[c] = "ok" /\ use.async
            /\ closures' = closures \cup {[id |-> id[c], arg |-> c]} /\ wire' = wire /\ sent' = sent
         \/ Method[c] = "ok" /\ Send("server", Response(id[c], c)) /\ closures' = closures
      /\ UNCHANGED <<dangling, outstandings_, answers>>
  <2>1. OnRequest(m)
    BY <1>1, <1>6
  <2>2. CASE Method[c] # "ok"
    BY <1>6, <2>1, <2>2 DEF OnRequest
  <2>3. CASE Method[c] = "ok" /\ use.async
    BY <1>6, <2>1, <2>3 DEF OnRequest
  <2>4. CASE Method[c] = "ok" /\ ~use.async
    BY <1>6, <2>1, <2>4 DEF OnRequest
  <2> QED BY <2>2, <2>3, <2>4
<1>8. Typed' /\ ClientInv'
  <2>1. UNCHANGED clientVars
    BY <1>1, <1>7 DEF clientVars
  <2>2. ClientInv'
    BY <1>1, <2>1, ClientKept
  <2> QED BY <1>1, <2>1, <2>2 DEF Typed, clientVars
<1>9. CASE Send("server", Reply(c)) /\ closures' = closures
  <2>1. MessageInv' /\ UseInv'
    BY <1>1, <1>5, <1>7, <1>9, ReplySent DEF UseInv
  <2> DEFINE x == Reply(c)
  <2>2. x \in Messages /\ x \in Entries
    BY <1>5, IdsInRange DEF ClientInv, Begun, Entries
  <2> HIDE DEF x
  <2>3. \/ wire' = wire /\ sent' = sent
        \/ /\ wire' = [wire EXCEPT !["server"] = @ \o Frame(x)]
           /\ sent' = [sent EXCEPT !["server"] = Append(@, x)]
    BY <1>2, <1>9, <2>2, SendAdds DEF x
  <2>4. Frame(x) \in Frames(x)
    BY <2>2, MessageIs
  <2>5. Net([wire EXCEPT !["server"] = @ \o Frame(x)], B, [sent EXCEPT !["server"] = Append(@, x)], D)
    BY <1>2, <1>3, <2>2, <2>4, NetSend
  <2>6. NetInv'
    BY <1>1, <1>3, <2>3, <2>5 DEF NetInv
  <2> QED BY <1>8, <2>1, <2>6
<1>10. CASE /\ Method[c] = "ok" /\ use.async
            /\ closures' = closures \cup {[id |-> id[c], arg |-> c]} /\ wire' = wire /\ sent' = sent
  <2>1. NetInv'
    BY <1>1, <1>3, <1>10 DEF NetInv
  <2>2. UseInv'
    BY <1>1, <1>7, <1>10 DEF UseInv
  <2>3. MessageInv'
    BY <1>1, <1>5, <1>10, MessagesNext
  <2> QED BY <1>8, <2>1, <2>2, <2>3
<1> QED BY <1>7, <1>9, <1>10 DEF Reply

(* The client dispatches an answer: it is the one to a call of its own. *)
LEMMA ClientDispatchStep ==
  ASSUME IInv, Dispatch("client"), UNCHANGED use
  PROVE  IInv'
<1> USE DEF IInv
<1> DEFINE B == [inputBuffer_ EXCEPT !["client"] = Retrieved(@)]
           m == Message(inputBuffer_["client"])
           D == [dispatched EXCEPT !["client"] = Append(@, m)]
<1>1. /\ Decode(inputBuffer_["client"]) = "kNoError"
      /\ dispatched' = D /\ inputBuffer_' = B
      /\ IF m.type = "RESPONSE" THEN OnResponse(m) ELSE OnRequest(m)
      /\ UNCHANGED <<id_, pc, id, channel, conn, decoding, use>>
  BY DEF Dispatch
<1>2. "server" \in Sides /\ "client" \in Sides /\ Peer("client") = "server"
  BY PeerIs DEF Sides
<1>3. /\ \E i \in 1 .. Len(sent["server"]) : sent["server"][i] = m
      /\ m \in Messages /\ Net(wire, B, sent, D)
  <2>1. Net(wire, inputBuffer_, sent, dispatched)
    BY DEF NetInv
  <2>2. /\ \E i \in 1 .. Len(sent[Peer("client")]) : sent[Peer("client")][i] = m
        /\ m \in Messages /\ Net(wire, B, sent, D)
    BY <1>1, <1>2, <2>1, NetDispatch
  <2> QED BY <1>2, <2>2
<1> HIDE DEF m, B, D
<1>4. m # Bad
  BY <1>3, MessageIs, BadIs DEF Bad
<1>5. PICK c \in Calls : pc[c] = "sent" /\ m = Reply(c)
  BY <1>3, <1>4 DEF MessageInv, IsReply
<1> DEFINE arg == IF Method[c] = "ok" THEN c ELSE "none"
<1>6. m.type = "RESPONSE" /\ m.id = id[c] /\ m.what = Method[c] /\ m.arg = arg
  BY <1>5 DEF Reply, Response, Refusal
<1>7. Method[c] \in Methods /\ arg \in Calls \cup {"none"}
  BY RpcAssumption
<1> HIDE DEF arg
<1>8. OnResponse(m)
  BY <1>1, <1>6
<1>9. UNCHANGED <<closures, dangling, wire, sent>>
  BY <1>8 DEF OnResponse, serverVars
<1>10. NetInv' /\ MessageInv' /\ UseInv'
  BY <1>1, <1>3, <1>9, MessagesSame DEF NetInv, UseInv
<1>11. CASE id[c] \notin DOMAIN outstandings_
  <2>1. UNCHANGED <<outstandings_, answers>>
    BY <1>6, <1>8, <1>11 DEF OnResponse
  <2>2. UNCHANGED clientVars
    BY <1>1, <2>1 DEF clientVars
  <2>3. Typed' /\ ClientInv'
    BY <1>1, <2>2, ClientKept DEF Typed, clientVars
  <2> QED BY <1>10, <2>3
<1>12. CASE id[c] \in DOMAIN outstandings_
  <2>1. outstandings_[id[c]] = c /\ Waiting(c)
    <3> DEFINE d == outstandings_[id[c]]
    <3>1. d \in Calls /\ Waiting(d) /\ id[d] = id[c]
      BY <1>12 DEF ClientInv, MapInv
    <3> HIDE DEF d
    <3>2. d \in Begun /\ c \in Begun
      BY <1>5, <3>1 DEF Waiting, Begun
    <3>3. d = c
      BY <3>1, <3>2 DEF ClientInv, CallInv
    <3> QED BY <3>1, <3>3 DEF d
  <2>2. /\ outstandings_' = [i \in DOMAIN outstandings_ \ {id[c]} |-> outstandings_[i]]
        /\ answers' = [answers EXCEPT ![c] = Append(@, <<Method[c], arg>>)]
    BY <1>6, <1>8, <1>12, <2>1 DEF OnResponse
  <2>3. answers[c] = <<>>
    BY <2>1 DEF Waiting
  <2>4. /\ answers'[c] = <<<<Method[c], arg>>>>
        /\ \A d \in Calls : d # c => answers'[d] = answers[d]
    BY <2>2, <2>3 DEF Typed
  <2>5. answers' \in [Calls -> Seq(Methods \X (Calls \cup {"none"}))]
    <3>1. <<Method[c], arg>> \in Methods \X (Calls \cup {"none"})
      BY <1>7
    <3>2. <<<<Method[c], arg>>>> \in Seq(Methods \X (Calls \cup {"none"}))
      BY <3>1
    <3>3. answers' = [answers EXCEPT ![c] = <<<<Method[c], arg>>>>]
      BY <2>2, <2>3 DEF Typed
    <3> QED BY <3>2, <3>3 DEF Typed
  <2>6. Typed'
    BY <1>1, <2>5 DEF Typed
  <2>7. CallInv'
    <3>1. Begun' = Begun
      BY <1>1 DEF Begun
    <3> QED BY <1>1, <1>5, <2>4, <3>1 DEF ClientInv, CallInv
  <2>8. MapInv'
    <3>1. ~(Waiting(c)') /\ \A d \in Calls : d # c => (Waiting(d)' <=> Waiting(d))
      BY <1>1, <2>4 DEF Waiting
    <3>2. /\ DOMAIN outstandings_' = DOMAIN outstandings_ \ {id[c]}
          /\ \A i \in DOMAIN outstandings_' : outstandings_'[i] = outstandings_[i]
      BY <2>2
    <3>3. \A d \in Calls : d # c /\ Waiting(d) => id[d] # id[c]
      BY <1>5 DEF Waiting, ClientInv, CallInv, Begun
    <3>4. \A d \in Calls : Waiting(d)' => id'[d] \in DOMAIN outstandings_' /\ outstandings_'[id'[d]] = d
      BY <1>1, <3>1, <3>2, <3>3 DEF ClientInv, MapInv
    <3>5. ASSUME NEW i \in DOMAIN outstandings_'
          PROVE  \E d \in Calls : outstandings_'[i] = d /\ Waiting(d)' /\ id'[d] = i
      <4> DEFINE d == outstandings_[i]
      <4>1. i \in DOMAIN outstandings_ /\ i # id[c] /\ outstandings_'[i] = d
        BY <3>2
      <4>2. d \in Calls /\ Waiting(d) /\ id[d] = i
        BY <4>1 DEF ClientInv, MapInv
      <4> HIDE DEF d
      <4>3. d # c
        BY <4>1, <4>2
      <4> QED BY <1>1, <3>1, <4>1, <4>2, <4>3
    <3> QED BY <3>4, <3>5, MapNext
  <2>9. AnswerInv'
    <3>1. Len(answers'[c]) = 1 /\ DOMAIN answers'[c] = {1} /\ answers'[c][1] = <<Method[c], arg>>
      BY <2>4
    <3>2. ASSUME NEW d \in Calls
          PROVE  /\ Len(answers'[d]) <= 1
                 /\ \A i \in DOMAIN answers'[d] :
                      answers'[d][i] = <<Method[d], IF Method[d] = "ok" THEN d ELSE "none">>
      <4>1. CASE d = c
        <5>1. <<Method[c], arg>> = <<Method[d], IF Method[d] = "ok" THEN d ELSE "none">>
          BY <4>1 DEF arg
        <5>2. \A i \in DOMAIN answers'[d] : answers'[d][i] = <<Method[c], arg>>
          BY <3>1, <4>1
        <5>3. Len(answers'[d]) <= 1
          <6>1. Len(answers'[d]) = 1
            BY <3>1, <4>1
          <6> QED BY ONLY <6>1
        <5> QED BY <5>1, <5>2, <5>3
      <4>2. CASE d # c
        BY <2>4, <4>2 DEF ClientInv, AnswerInv
      <4> QED BY <4>1, <4>2
    <3> QED BY <3>2 DEF AnswerInv
  <2> QED BY <1>10, <2>6, <2>7, <2>8, <2>9 DEF ClientInv
<1> QED BY <1>11, <1>12

LEMMA StepOk == IInv /\ [Next]_vars => IInv'
<1> SUFFICES ASSUME IInv, [Next]_vars PROVE IInv'
  OBVIOUS
<1>1. ASSUME NEW c \in Calls, CallMethod(c), UNCHANGED use
      PROVE  IInv'
  BY <1>1, GetIdStep, InsertStep, SendRequestStep DEF CallMethod
<1>2. ASSUME NEW s \in Sides, Arrival(s) \/ onMessage(s) \/ Close(s), UNCHANGED use
      PROVE  IInv'
  <2>1. CASE Dispatch(s)
    BY <1>2, <2>1, ServerDispatchStep, ClientDispatchStep DEF Sides
  <2> QED BY <1>2, <2>1, ArrivalStep, AwaitMoreStep, OnErrorStep, CloseStep DEF onMessage
<1>3. ASSUME NEW f \in Foreign, ForeignFrame(f[1], f[2]), UNCHANGED use
      PROVE  IInv'
  <2>1. f[1] \in Sides /\ f[2] \in Errors
    BY RpcAssumption DEF Sides
  <2> QED BY <1>3, <2>1, ForeignFrameStep
<1>4. ASSUME doneCallback, UNCHANGED use
      PROVE  IInv'
  BY <1>4, LateDoneStep DEF doneCallback
<1>5. ASSUME DestroyClient, UNCHANGED use
      PROVE  IInv'
  BY <1>5, DestroyClientStep
<1>6. CASE UNCHANGED vars
  <2>1. UNCHANGED <<use, clientVars, closures, dangling, channel, conn, wire, inputBuffer_,
                    decoding, sent, dispatched>>
    BY <1>6 DEF vars, stateVars, serverVars, netVars
  <2>2. Typed' /\ ClientInv' /\ MessageInv'
    BY <2>1, ClientKept, MessagesSame DEF IInv, Typed, clientVars
  <2>3. NetInv' /\ UseInv'
    BY <2>1 DEF IInv, NetInv, UseInv
  <2> QED BY <2>2, <2>3 DEF IInv
<1> QED BY <1>1, <1>2, <1>3, <1>4, <1>5, <1>6 DEF Next

(* The invariant holds in every state of the two channels: whatever the    *)
(* threads of CallMethod, the two loops, late closures and the loss of the *)
(* connection interleave to, each side's codec is in front of a stream of  *)
(* whole frames of what its peer has sent (ProtobufCodecLite::onMessage),  *)
(* and outstandings_ has exactly the calls without an answer.              *)
THEOREM RpcInvariant == Spec => []IInv
<1>1. Spec => Init /\ [][Next]_vars
  BY DEF Spec
<1> QED BY <1>1, InitOk, StepOk, PTL

(* For any calls, sizes of buffers and chunks: done runs at most once for  *)
(* a call, with the answer to that call's own request, a call is in        *)
(* outstandings_ under its id exactly while it waits for the answer,       *)
(* however late the service answers and whenever the connection is lost    *)
(* (RpcChannel::CallMethod, onRpcMessage, doneCallback).                   *)
THEOREM CallsAnsweredOnce == Spec => []AnsweredOnce
<1>1. IInv => AnsweredOnce
  <2> SUFFICES ASSUME IInv PROVE AnsweredOnce
    OBVIOUS
  <2> USE DEF IInv, ClientInv
  <2>1. ASSUME NEW c \in Calls
        PROVE  {i \in DOMAIN outstandings_ : outstandings_[i] = c} =
                 IF pc[c] \in {"send", "sent"} /\ answers[c] = <<>> /\ channel["client"]
                 THEN {id[c]} ELSE {}
    <3>1. CASE Waiting(c)
      BY <3>1 DEF MapInv, Waiting
    <3>2. CASE ~Waiting(c)
      BY <3>2 DEF MapInv, Waiting
    <3> QED BY <3>1, <3>2
  <2> QED BY <2>1 DEF AnsweredOnce, AnswerInv
<1> QED BY <1>1, RpcInvariant, PTL

(* For any calls, sizes of buffers and ways to cut the stream: each side   *)
(* dispatches a prefix of what its peer has sent, message by message       *)
(* (fillEmptyBuffer and onMessage of ProtobufCodecLite, over Buffer).      *)
THEOREM MessagesAsSent == Spec => []DispatchedAsSent
<1>1. IInv => DispatchedAsSent
  <2> SUFFICES ASSUME IInv, NEW s \in Sides
               PROVE  /\ Len(dispatched[s]) <= Len(sent[Peer(s)])
                      /\ \A i \in DOMAIN dispatched[s] : dispatched[s][i] = sent[Peer(s)][i]
    BY DEF DispatchedAsSent
  <2>1. dispatched[s] \in Seq(Messages)
    BY DEF IInv, NetInv, Net
  <2>2. DOMAIN dispatched[s] = 1 .. Len(dispatched[s])
    BY <2>1, LenProperties
  <2> QED BY <2>2 DEF IInv, NetInv, Net, Receives
<1> QED BY <1>1, RpcInvariant, PTL

-----------------------------------------------------------------------------
(* HttpServer: a connection of the HTTP server.                            *)

(* The least and the greatest of some numbers. *)
LEMMA LeastOf ==
  ASSUME NEW W, W \subseteq Nat, W # {}
  PROVE  \E v \in W : \A x \in W : v <= x
<1> DEFINE R == OpToRel(<, Nat)
<1>1. PICK v \in W : \A x \in W : <<x, v>> \notin R
  <2>1. IsWellFoundedOn(R, Nat)
    BY NatLessThanWellFounded
  <2> HIDE DEF R
  <2> QED BY <2>1, WFMin
<1>2. \A x \in W : ~(x < v)
  BY <1>1 DEF OpToRel
<1> QED BY <1>2

LEMMA GreatestOf ==
  ASSUME NEW W, NEW n \in Nat, W \subseteq 0 .. n, W # {}
  PROVE  \E v \in W : \A x \in W : x <= v
<1> DEFINE U == {n - x : x \in W}
<1>1. U \subseteq Nat /\ U # {}
  OBVIOUS
<1>2. PICK u \in U : \A y \in U : u <= y
  BY <1>1, LeastOf
<1>3. PICK v \in W : u = n - v
  BY <1>2
<1>4. \A x \in W : n - x \in U
  OBVIOUS
<1> HIDE DEF U
<1>5. \A x \in W : n - v <= n - x
  BY <1>2, <1>3, <1>4
<1>6. v \in Int /\ \A x \in W : x \in Int
  OBVIOUS
<1>7. \A x \in W : x <= v
  BY <1>5, <1>6
<1> QED BY <1>7

LEMMA MinOf ==
  ASSUME NEW W, W \subseteq Nat, W # {}
  PROVE  Min(W) \in W /\ \A x \in W : Min(W) <= x
<1>1. \E v \in W : \A x \in W : v <= x
  BY LeastOf
<1> QED BY <1>1 DEF Min

(* What From makes of the lines from line i on, by what f makes of those   *)
(* behind the request.                                                     *)
FromBody(f, ls, i) ==
  IF i > Len(ls) THEN <<>>
  ELSE IF ls[i] \notin Valid THEN <<"400">>
  ELSE IF Ends(ls, i) = {} THEN <<>>
  ELSE IF Closing(ls[i], Connection(ls, i, Min(Ends(ls, i)))) THEN <<"close">>
  ELSE <<"keep">> \o f[Min(Ends(ls, i)) + 1]

LEMMA EndIs ==
  ASSUME NEW ls, Len(ls) \in Nat, NEW i \in 1 .. Len(ls), Ends(ls, i) # {}
  PROVE  /\ Min(Ends(ls, i)) \in Ends(ls, i)
         /\ \A x \in Ends(ls, i) : Min(Ends(ls, i)) <= x
         /\ Min(Ends(ls, i)) \in i + 1 .. Len(ls)
<1> DEFINE W == Ends(ls, i)
<1>1. W \subseteq i + 1 .. Len(ls)
  BY DEF Ends
<1>2. W \subseteq Nat
  BY <1>1
<1> HIDE DEF W
<1>3. W # {}
  BY DEF W
<1>4. Min(W) \in W /\ \A x \in W : Min(W) <= x
  BY <1>2, <1>3, MinOf
<1> QED BY <1>1, <1>4 DEF W

LEMMA FromLocal ==
  ASSUME NEW ls, Len(ls) \in Nat, NEW i \in 1 .. Len(ls) + 1, NEW f, NEW g,
         \A j \in i + 1 .. Len(ls) + 1 : f[j] = g[j]
  PROVE  FromBody(f, ls, i) = FromBody(g, ls, i)
<1> DEFINE e == Min(Ends(ls, i))
<1>1. CASE i > Len(ls)
  BY <1>1 DEF FromBody
<1>2. CASE ~(i > Len(ls)) /\ Ends(ls, i) = {}
  BY <1>2 DEF FromBody
<1>3. CASE ~(i > Len(ls)) /\ Ends(ls, i) # {}
  <2>1. i \in 1 .. Len(ls)
    BY <1>3
  <2>2. e \in i + 1 .. Len(ls)
    BY <1>3, <2>1, EndIs
  <2> HIDE DEF e
  <2>3. e + 1 \in i + 1 .. Len(ls) + 1
    BY <2>2
  <2>4. f[e + 1] = g[e + 1]
    BY <2>3
  <2> QED BY <2>4, Zenon DEF FromBody, e
<1> QED BY <1>1, <1>2, <1>3

LEMMA FromExists ==
  ASSUME NEW ls, Len(ls) \in Nat
  PROVE  \E f : f = [i \in 1 .. Len(ls) + 1 |-> FromBody(f, ls, i)]
<1> DEFINE L == Len(ls) + 1
           Sol(f, k) == /\ f = [i \in 1 .. L |-> f[i]]
                        /\ \A i \in (L + 1) - k .. L : f[i] = FromBody(f, ls, i)
           W == {k \in 0 .. L : ~(\E f : Sol(f, k))}
<1>1. L \in Nat /\ L >= 1
  OBVIOUS
<1>2. W = {}
  <2> SUFFICES ASSUME W # {} PROVE FALSE
    OBVIOUS
  <2>1. W \subseteq Nat
    OBVIOUS
  <2>2. PICK v \in W : \A x \in W : v <= x
    BY <2>1, LeastOf
  <2>3. v # 0
    <3> SUFFICES ASSUME v = 0 PROVE FALSE
      OBVIOUS
    <3> DEFINE f == [i \in 1 .. L |-> <<>>]
    <3>1. f = [i \in 1 .. L |-> f[i]]
      OBVIOUS
    <3>2. (L + 1) - 0 .. L = {}
      BY <1>1
    <3>3. Sol(f, 0)
      BY <3>1, <3>2
    <3> QED BY <3>3
  <2>4. v \in 0 .. L /\ ~(\E f : Sol(f, v))
    OBVIOUS
  <2> HIDE DEF W
  <2>5. v - 1 \in 0 .. L /\ v - 1 \notin W
    BY <1>1, <2>2, <2>3, <2>4
  <2>6. PICK f : Sol(f, v - 1)
    BY <2>5 DEF W
  <2> DEFINE a == (L + 1) - v
             g == [i \in 1 .. L |-> IF i = a THEN FromBody(f, ls, a) ELSE f[i]]
  <2>7. a \in 1 .. L /\ (L + 1) - (v - 1) = a + 1
    BY <1>1, <2>3, <2>4
  <2> HIDE DEF a, L
  <2>8. /\ g = [i \in 1 .. L |-> g[i]] /\ g[a] = FromBody(f, ls, a)
        /\ \A i \in 1 .. L : i # a => g[i] = f[i]
    BY <2>7
  <2> HIDE DEF g
  <2>9. ASSUME NEW i \in a .. L
        PROVE  g[i] = FromBody(g, ls, i)
    <3>1. i \in 1 .. L /\ \A j \in i + 1 .. L : j \in 1 .. L /\ j # a
      BY <1>1, <2>7
    <3>2. \A j \in i + 1 .. L : f[j] = g[j]
      BY <2>8, <3>1
    <3>3. FromBody(f, ls, i) = FromBody(g, ls, i)
      BY <3>1, <3>2, FromLocal DEF L
    <3>4. CASE i = a
      BY <2>8, <3>3, <3>4
    <3>5. CASE i # a
      <4>1. i \in a + 1 .. L
        BY <1>1, <2>7, <3>5
      <4>2. f[i] = FromBody(f, ls, i)
        BY <2>6, <2>7, <4>1
      <4> QED BY <2>8, <3>1, <3>3, <3>5, <4>2
    <3> QED BY <3>4, <3>5
  <2>10. Sol(g, v)
    BY <2>8, <2>9 DEF a
  <2> QED BY <2>4, <2>10
<1>3. PICK f : Sol(f, L)
  <2>1. L \in 0 .. L /\ L \notin W
    BY <1>1, <1>2
  <2> QED BY <2>1
<1>4. (L + 1) - L = 1
  BY <1>1
<1>5. f = [i \in 1 .. L |-> f[i]] /\ \A i \in 1 .. L : f[i] = FromBody(f, ls, i)
  BY <1>3, <1>4
<1> HIDE DEF L
<1>6. f = [i \in 1 .. L |-> FromBody(f, ls, i)]
  BY <1>5
<1> QED BY <1>6 DEF L

LEMMA FromIs ==
  ASSUME NEW ls, Len(ls) \in Nat
  PROVE  \A i \in 1 .. Len(ls) + 1 : From(ls)[i] = FromBody(From(ls), ls, i)
<1> DEFINE D(f) == [i \in 1 .. Len(ls) + 1 |-> FromBody(f, ls, i)]
<1>1. From(ls) = CHOOSE f : f = D(f)
  BY Zenon DEF From, FromBody
<1>2. \E f : f = D(f)
  BY FromExists
<1> HIDE DEF D
<1>3. (CHOOSE f : f = D(f)) = D(CHOOSE f : f = D(f))
  BY <1>2, Zenon
<1>4. From(ls) = D(From(ls))
  BY <1>1, <1>3
<1> QED BY <1>4 DEF D

Answers == {"400", "close", "keep"}

LEMMA FromType ==
  ASSUME NEW ls, Len(ls) \in Nat
  PROVE  \A i \in 1 .. Len(ls) + 1 : From(ls)[i] \in Seq(Answers)
<1> DEFINE L == Len(ls) + 1
           f == From(ls)
           W == {k \in 0 .. L : k < L /\ f[L - k] \notin Seq(Answers)}
<1>1. \A i \in 1 .. L : f[i] = FromBody(f, ls, i)
  BY FromIs
<1>2. L \in Nat /\ L >= 1
  OBVIOUS
<1>3. W = {}
  <2> SUFFICES ASSUME W # {} PROVE FALSE
    OBVIOUS
  <2>1. W \subseteq Nat
    OBVIOUS
  <2>2. PICK v \in W : \A x \in W : v <= x
    BY <2>1, LeastOf
  <2> DEFINE a == L - v
  <2>3. v \in 0 .. L /\ a \in 1 .. L /\ f[a] \notin Seq(Answers)
    BY <1>2
  <2> HIDE DEF f
  <2>4. ASSUME NEW j \in a + 1 .. L
        PROVE  f[j] \in Seq(Answers)
    <3> DEFINE k == L - j
    <3>1. k \in 0 .. L /\ k < L /\ k < v /\ L - k = j
      BY <1>2, <2>3
    <3>2. k \notin W
      BY <2>2, <2>3, <3>1
    <3> HIDE DEF k
    <3> QED BY <3>1, <3>2
  <2> HIDE DEF a, W
  <2>5. f[a] = FromBody(f, ls, a)
    BY <1>1, <2>3
  <2> DEFINE e == Min(Ends(ls, a))
  <2>6. /\ <<>> \in Seq(Answers) /\ <<"400">> \in Seq(Answers)
        /\ <<"close">> \in Seq(Answers) /\ <<"keep">> \in Seq(Answers)
    BY DEF Answers
  <2>7. FromBody(f, ls, a) \notin {<<>>, <<"400">>, <<"close">>}
    BY <2>3, <2>5, <2>6
  <2>8. ~(a > Len(ls)) /\ Ends(ls, a) # {} /\ FromBody(f, ls, a) = <<"keep">> \o f[e + 1]
    BY <2>7, Zenon DEF FromBody
  <2>9. a \in 1 .. Len(ls)
    BY <2>3, <2>8
  <2>10. e \in a + 1 .. Len(ls)
    BY <2>8, <2>9, EndIs
  <2> HIDE DEF e
  <2>11. e + 1 \in a + 1 .. L
    BY <2>3, <2>10
  <2>12. f[e + 1] \in Seq(Answers)
    BY <2>4, <2>11
  <2>13. <<"keep">> \o f[e + 1] \in Seq(Answers)
    BY <2>6, <2>12, ConcatProperties
  <2> QED BY <2>3, <2>5, <2>8, <2>13
<1>4. ASSUME NEW i \in 1 .. L
      PROVE  f[i] \in Seq(Answers)
  <2> DEFINE k == L - i
  <2>1. k \in 0 .. L /\ k < L /\ L - k = i
    BY <1>2
  <2>2. k \notin W
    BY <1>3
  <2> HIDE DEF k
  <2> QED BY <2>1, <2>2
<1> QED BY <1>4

(* The cases of From. *)
LEMMA FromEnd ==
  ASSUME NEW ls, Len(ls) \in Nat
  PROVE  From(ls)[Len(ls) + 1] = <<>>
<1>1. Len(ls) + 1 \in 1 .. Len(ls) + 1 /\ Len(ls) + 1 > Len(ls)
  OBVIOUS
<1> QED BY <1>1, FromIs DEF FromBody

LEMMA FromRefused ==
  ASSUME NEW ls, Len(ls) \in Nat, NEW i \in 1 .. Len(ls), ls[i] \notin Valid
  PROVE  From(ls)[i] = <<"400">>
<1>1. i \in 1 .. Len(ls) + 1 /\ ~(i > Len(ls))
  OBVIOUS
<1> QED BY <1>1, FromIs DEF FromBody

LEMMA FromOpen ==
  ASSUME NEW ls, Len(ls) \in Nat, NEW i \in 1 .. Len(ls), ls[i] \in Valid,
         \A j \in i + 1 .. Len(ls) : ls[j] \in HeaderLines
  PROVE  From(ls)[i] = <<>>
<1>1. i \in 1 .. Len(ls) + 1 /\ ~(i > Len(ls))
  OBVIOUS
<1>2. Ends(ls, i) = {}
  BY DEF Ends
<1> QED BY <1>1, <1>2, FromIs DEF FromBody

LEMMA FromWhole ==
  ASSUME NEW ls, Len(ls) \in Nat, NEW i \in 1 .. Len(ls), ls[i] \in Valid,
         NEW e \in i + 1 .. Len(ls), ls[e] \notin HeaderLines,
         \A j \in i + 1 .. e - 1 : ls[j] \in HeaderLines
  PROVE  From(ls)[i] = IF Closing(ls[i], Connection(ls, i, e)) THEN <<"close">>
                            ELSE <<"keep">> \o From(ls)[e + 1]
<1>1. i \in 1 .. Len(ls) + 1 /\ ~(i > Len(ls))
  OBVIOUS
<1>2. e \in Ends(ls, i)
  BY DEF Ends
<1> DEFINE m == Min(Ends(ls, i))
<1>3. m \in Ends(ls, i) /\ m <= e /\ m \in i + 1 .. Len(ls)
  BY <1>2, EndIs
<1>4. ls[m] \notin HeaderLines
  BY <1>3 DEF Ends
<1> HIDE DEF m
<1>5. m = e
  <2> SUFFICES ASSUME m # e PROVE FALSE
    OBVIOUS
  <2>1. m \in i + 1 .. e - 1
    BY <1>3
  <2> QED BY <1>4, <2>1
<1>6. From(ls)[i] = FromBody(From(ls), ls, i)
  BY <1>1, FromIs
<1>7. Min(Ends(ls, i)) = e /\ Ends(ls, i) # {}
  BY <1>2, <1>5 DEF m
<1> QED BY <1>1, <1>6, <1>7, Zenon DEF FromBody

(* The Connection header of the request that begins at line i. *)
LEMMA ConnectionNone ==
  ASSUME NEW ls, NEW i \in Nat
  PROVE  Connection(ls, i, i + 1) = ""
<1>1. i + 1 .. (i + 1) - 1 = {}
  OBVIOUS
<1> QED BY <1>1 DEF Connection

LEMMA ConnectionNext ==
  ASSUME NEW ls, NEW i \in Nat, NEW e \in Nat, i < e
  PROVE  Connection(ls, i, e + 1) =
           IF ls[e] \in ConnectionLines THEN ls[e] ELSE Connection(ls, i, e)
<1> DEFINE at == {j \in i + 1 .. e - 1 : ls[j] \in ConnectionLines}
           more == {j \in i + 1 .. (e + 1) - 1 : ls[j] \in ConnectionLines}
<1>1. /\ \A j \in i + 1 .. (e + 1) - 1 : j = e \/ j \in i + 1 .. e - 1
      /\ \A j \in i + 1 .. e - 1 : j \in i + 1 .. (e + 1) - 1
      /\ e \in i + 1 .. (e + 1) - 1
  OBVIOUS
<1>2. CASE ls[e] \in ConnectionLines
  <2>1. e \in more /\ \A j \in more : j \in Nat /\ j <= e
    BY <1>1, <1>2
  <2> HIDE DEF more
  <2>2. Max(more) = e
    <3>1. \A x \in more : (\A y \in more : x >= y) <=> x = e
      BY <2>1
    <3>2. Max(more) \in more /\ \A y \in more : Max(more) >= y
      <4>1. \E x \in more : \A y \in more : x >= y
        BY <2>1, <3>1
      <4> QED BY <4>1, Zenon DEF Max
    <3> QED BY <3>1, <3>2
  <2>3. Connection(ls, i, e + 1) = IF more = {} THEN "" ELSE ls[Max(more)]
    BY DEF Connection, more
  <2> QED BY <1>2, <2>1, <2>2, <2>3
<1>3. CASE ls[e] \notin ConnectionLines
  <2>1. more = at
    BY <1>1, <1>3
  <2>2. /\ Connection(ls, i, e + 1) = IF more = {} THEN "" ELSE ls[Max(more)]
        /\ Connection(ls, i, e) = IF at = {} THEN "" ELSE ls[Max(at)]
    BY Zenon DEF Connection
  <2> HIDE DEF at, more
  <2> QED BY <1>3, <2>1, <2>2
<1> QED BY <1>2, <1>3

LEMMA ConnectionSame ==
  ASSUME NEW ls, NEW lt, NEW i \in Nat, NEW e \in Nat, \A j \in i + 1 .. e - 1 : ls[j] = lt[j]
  PROVE  Connection(ls, i, e) = Connection(lt, i, e)
<1> DEFINE at(q) == {j \in i + 1 .. e - 1 : q[j] \in ConnectionLines}
<1>1. at(ls) = at(lt)
  OBVIOUS
<1>2. /\ Connection(ls, i, e) = IF at(ls) = {} THEN "" ELSE ls[Max(at(ls))]
      /\ Connection(lt, i, e) = IF at(lt) = {} THEN "" ELSE lt[Max(at(lt))]
  BY Zenon DEF Connection
<1>3. CASE at(ls) = {}
  BY <1>1, <1>2, <1>3
<1>4. CASE at(ls) # {}
  <2>1. Max(at(ls)) \in at(ls)
    <3>1. at(ls) \subseteq 0 .. e
      OBVIOUS
    <3> DEFINE A == at(ls)
    <3> HIDE DEF A
    <3>2. \E v \in A : \A x \in A : x <= v
      BY <1>4, <3>1, GreatestOf DEF A
    <3>3. A \subseteq Int
      BY <3>1 DEF A
    <3>4. \E v \in A : \A x \in A : v >= x
      BY <3>2, <3>3
    <3>5. Max(A) \in A
      BY <3>4 DEF Max
    <3> QED BY <3>5 DEF A
  <2>2. ls[Max(at(ls))] = lt[Max(at(ls))]
    BY <2>1
  <2> QED BY <1>1, <1>2, <1>4, <2>2, Zenon
<1> QED BY <1>3, <1>4

-----------------------------------------------------------------------------
(* The stream of lines.                                                    *)

LineCells == LineKinds \cup {CR, LF, Blank}
Enc(k) == (IF k = "" THEN <<>> ELSE <<k>>) \o <<CR, LF>>
LineSets == [k \in LineKinds |-> {Enc(k)}]

LEMMA EncIs ==
  ASSUME NEW k \in LineKinds
  PROVE  /\ Enc(k) \in Seq(LineCells) /\ LineSets[k] = {Enc(k)}
         /\ k = "" => Len(Enc(k)) = 2 /\ Enc(k)[1] = CR /\ Enc(k)[2] = LF
         /\ k # "" => Len(Enc(k)) = 3 /\ Enc(k)[1] = k /\ Enc(k)[2] = CR /\ Enc(k)[3] = LF
         /\ k # CR /\ k # LF /\ CR # LF
<1>1. k # CR /\ k # LF /\ CR # LF
  BY DEF LineKinds, RequestLines, Valid, HeaderLines, CR, LF
<1> DEFINE t == <<CR, LF>>
<1>2. CR \in LineCells /\ LF \in LineCells /\ k \in LineCells
  BY DEF LineCells
<1>3. t \in Seq(LineCells) /\ Len(t) = 2 /\ t[1] = CR /\ t[2] = LF
  BY <1>2
<1>4. LineSets[k] = {Enc(k)}
  BY DEF LineSets
<1> HIDE DEF t
<1>5. CASE k = ""
  <2>1. Enc(k) = <<>> \o t
    BY <1>5 DEF Enc, t
  <2>2. <<>> \o t = t
    BY <1>3, ConcatEmptySeq
  <2> QED BY <1>1, <1>3, <1>4, <1>5, <2>1, <2>2
<1>6. CASE k # ""
  <2> DEFINE h == <<k>>
             u == h \o t
             m == Len(h)
             n == Len(t)
  <2>1. h \in Seq(LineCells) /\ m = 1 /\ h[1] = k
    BY <1>2
  <2>2. Enc(k) = u
    BY <1>6 DEF Enc, t
  <2> HIDE DEF h, m, n
  <2>3. h \in Seq(LineCells) /\ t \in Seq(LineCells) /\ m = Len(h) /\ n = Len(t)
    BY <1>3, <2>1 DEF m, n
  <2>4. /\ u \in Seq(LineCells) /\ Len(u) = m + n
        /\ \A i \in 1 .. m : u[i] = h[i]
        /\ \A i \in 1 .. n : u[m + i] = t[i]
    BY <2>3, Join
  <2> HIDE DEF u
  <2>5. m = 1 /\ n = 2
    BY <1>3, <2>1 DEF n
  <2>6. Len(u) = 3 /\ u[1] = h[1] /\ u[2] = t[1] /\ u[3] = t[2]
    BY <2>4, <2>5
  <2> QED BY <1>1, <1>3, <1>4, <1>6, <2>1, <2>2, <2>4, <2>6
<1> QED BY <1>5, <1>6

LEMMA LineFraming == IsFraming(LineSets, LineKinds, LineCells)
<1> SUFFICES ASSUME NEW k \in LineKinds, NEW f \in LineSets[k] PROVE f \in Seq(LineCells)
  BY DEF IsFraming
<1>1. Enc(k) \in Seq(LineCells) /\ LineSets[k] = {Enc(k)}
  BY EncIs
<1> QED BY <1>1

(* What of the first line is in the buffer. *)
LEMMA FrontLine ==
  ASSUME NEW b, IsBuffer(b, LineCells), NEW w \in Seq(LineCells), NEW q \in Seq(LineKinds),
         NEW p \in Nat, p <= Len(q), Framed(LineSets, Content(b) \o w, q, p)
  PROVE  /\ p = Len(q) => readableBytes(b) = 0
         /\ p < Len(q) => /\ p + 1 \in 1 .. Len(q) /\ q[p + 1] \in LineKinds
                          /\ \A i \in 1 .. readableBytes(b) :
                               i <= Len(Enc(q[p + 1])) => Content(b)[i] = Enc(q[p + 1])[i]
<1> DEFINE c == Content(b)
           r == readableBytes(b)
           n == Len(w)
           S == c \o w
<1>1. c \in Seq(LineCells) /\ Len(c) = r /\ r \in Nat /\ n \in Nat
  BY ContentCells, LenProperties
<1> HIDE DEF c, n
<1>2. S \in Seq(LineCells) /\ Len(S) = r + n /\ \A i \in 1 .. r : S[i] = c[i]
  <2>1. r = Len(c) /\ n = Len(w)
    BY <1>1 DEF n
  <2> HIDE DEF r
  <2> QED BY <1>1, <2>1, Join, SMTT(60)
<1>3. Framed(LineSets, S, q, p)
  BY DEF c
<1> HIDE DEF S, r
<1>4. /\ p = Len(q) => Len(S) = 0
      /\ p < Len(q) => /\ p + 1 \in 1 .. Len(q)
                       /\ \E f \in LineSets[q[p + 1]] :
                            Len(f) <= Len(S) /\ \A i \in 1 .. Len(f) : S[i] = f[i]
  BY <1>2, <1>3, LineFraming, FramedFirst
<1>5. p = Len(q) => r = 0
  BY <1>1, <1>2, <1>4
<1>6. ASSUME p < Len(q)
      PROVE  /\ p + 1 \in 1 .. Len(q) /\ q[p + 1] \in LineKinds
             /\ \A i \in 1 .. r : i <= Len(Enc(q[p + 1])) => c[i] = Enc(q[p + 1])[i]
  <2> DEFINE k == q[p + 1]
  <2>1. p + 1 \in 1 .. Len(q) /\ k \in LineKinds
    BY <1>4, <1>6, ElementOfSeq
  <2>2. PICK f \in LineSets[k] : \A i \in 1 .. Len(f) : S[i] = f[i]
    BY <1>4, <1>6
  <2> HIDE DEF k
  <2>3. f = Enc(k) /\ Len(f) \in Nat
    <3>1. LineSets[k] = {Enc(k)} /\ Len(Enc(k)) \in {2, 3}
      BY <2>1, EncIs
    <3> QED BY <2>2, <3>1
  <2>4. \A i \in 1 .. r : i <= Len(f) => i \in 1 .. Len(f)
    BY <1>1, <2>3
  <2>5. \A i \in 1 .. r : i <= Len(f) => c[i] = f[i]
    BY <1>2, <2>2, <2>4
  <2> QED BY <2>1, <2>3, <2>5 DEF k
<1> QED BY <1>5, <1>6 DEF c, r

(* What findCRLF makes of it. *)
LEMMA CrlfIs ==
  ASSUME NEW b, IsBuffer(b, LineCells), NEW k \in LineKinds,
         \A i \in 1 .. readableBytes(b) : i <= Len(Enc(k)) => Content(b)[i] = Enc(k)[i]
  PROVE  /\ Len(Enc(k)) <= readableBytes(b) =>
              /\ findCRLF(b, CR, LF) + 1 = Len(Enc(k))
              /\ findCRLF(b, CR, LF) \in {1, 2}
              /\ k = (IF findCRLF(b, CR, LF) = 1 THEN "" ELSE Content(b)[1])
         /\ ~(Len(Enc(k)) <= readableBytes(b)) => findCRLF(b, CR, LF) = 0
<1> DEFINE c == Content(b)
           r == readableBytes(b)
           x == CR
           y == LF
           at == {i \in 1 .. r - 1 : c[i] = x /\ c[i + 1] = y}
           l == findCRLF(b, x, y)
           n == Len(Enc(k))
<1> SUFFICES (n <= r => l + 1 = n /\ l \in {1, 2} /\ k = (IF l = 1 THEN "" ELSE c[1]))
             /\ (~(n <= r) => l = 0)
  BY Zenon
<1>1. r \in Nat
  BY ContentCells
<1>2. l = IF at = {} THEN 0 ELSE CHOOSE i \in at : \A j \in at : i <= j
  BY Zenon DEF findCRLF
<1>3. \A v \in at : (\A j \in at : v <= j) => l = v
  <2> SUFFICES ASSUME NEW v \in at, \A j \in at : v <= j PROVE l = v
    OBVIOUS
  <2>1. \A i \in at : i \in Nat
    BY <1>1
  <2> HIDE DEF at, l
  <2>2. \A i \in at : (\A j \in at : i <= j) <=> i = v
    BY <2>1
  <2>3. (CHOOSE i \in at : \A j \in at : i <= j) = v
    BY <2>2
  <2> QED BY <1>2, <2>3
<1> HIDE DEF l
<1>4. CASE k = ""
  <2>1. Len(Enc(k)) = 2 /\ Enc(k)[1] = x /\ Enc(k)[2] = y
    BY <1>4, EncIs
  <2> HIDE DEF c, r, x, y
  <2>2. CASE 2 <= r
    <3>1. 1 \in 1 .. r - 1 /\ 1 \in 1 .. r /\ 2 \in 1 .. r /\ 1 <= Len(Enc(k)) /\ 2 <= Len(Enc(k))
      BY <1>1, <2>1, <2>2
    <3>2. c[1] = x /\ c[2] = y
      BY <2>1, <3>1 DEF c, r
    <3>3. 1 \in at
      BY <3>1, <3>2
    <3>4. \A j \in at : 1 <= j
      BY <1>1
    <3>5. l = 1
      BY <1>3, <3>3, <3>4
    <3>6. k = (IF l = 1 THEN "" ELSE c[1])
      BY <1>4, <3>5
    <3>7. l + 1 = n /\ l \in {1, 2} /\ n <= r
      BY <2>1, <2>2, <3>5
    <3> QED BY <3>6, <3>7, Zenon
  <2>3. CASE ~(2 <= r)
    <3>1. 1 .. r - 1 = {}
      BY <1>1, <2>3
    <3>2. l = 0
      BY <1>2, <3>1
    <3> QED BY <2>1, <2>3, <3>2
  <2> QED BY <2>2, <2>3
<1>5. CASE k # ""
  <2>1. Len(Enc(k)) = 3 /\ Enc(k)[1] = k /\ Enc(k)[2] = x /\ Enc(k)[3] = y /\ k # x
    BY <1>5, EncIs
  <2> HIDE DEF c, r, x, y
  <2>0. 1 \in 1 .. r => c[1] = k
    BY <2>1 DEF c, r
  <2>2. 1 \notin at
    <3>1. 1 \in 1 .. r - 1 => 1 \in 1 .. r
      BY <1>1
    <3> QED BY <2>0, <2>1, <3>1
  <2>3. CASE 3 <= r
    <3>1. /\ 2 \in 1 .. r - 1 /\ 1 \in 1 .. r /\ 2 \in 1 .. r /\ 3 \in 1 .. r
          /\ 2 <= Len(Enc(k)) /\ 3 <= Len(Enc(k))
      BY <1>1, <2>1, <2>3
    <3>2. c[2] = x /\ c[3] = y /\ c[1] = k
      BY <2>0, <2>1, <3>1 DEF c, r
    <3>3. 2 \in at
      BY <3>1, <3>2
    <3>4. \A j \in at : 2 <= j
      <4>1. \A j \in at : j \in Nat /\ 1 <= j /\ j # 1
        BY <1>1, <2>2
      <4> HIDE DEF at
      <4> QED BY <4>1
    <3>5. l = 2
      BY <1>3, <3>3, <3>4
    <3>6. k = (IF l = 1 THEN "" ELSE c[1])
      BY <3>2, <3>5
    <3>7. l + 1 = n /\ l \in {1, 2} /\ n <= r
      BY <2>1, <2>3, <3>5
    <3> QED BY <3>6, <3>7, Zenon
  <2>4. CASE ~(3 <= r)
    <3>1. \A i \in 1 .. r - 1 : i = 1
      BY <1>1, <2>4
    <3>2. at = {}
      BY <2>2, <3>1
    <3>3. l = 0
      BY <1>2, <3>2
    <3> QED BY <2>1, <2>4, <3>3
  <2> QED BY <2>3, <2>4
<1> QED BY <1>4, <1>5

LEMMA CrlfNone ==
  ASSUME NEW b, readableBytes(b) = 0
  PROVE  findCRLF(b, CR, LF) = 0
<1>1. 1 .. readableBytes(b) - 1 = {}
  OBVIOUS
<1> QED BY <1>1 DEF findCRLF

(* The line feeds of the stream are where its lines end. *)
LEMMA LineEnds ==
  ASSUME NEW S, NEW q \in Seq(LineKinds), NEW p \in Nat, p <= Len(q), NEW off,
         Cuts(LineSets, off, S, q, p), NEW j \in p + 1 .. Len(q)
  PROVE  /\ off[j - 1] \in Nat /\ off[j] \in Nat /\ off[j - 1] < off[j]
         /\ S[off[j]] = LF
         /\ \A x \in off[j - 1] + 1 .. off[j] - 1 : S[x] # LF
<1>1. Len(q) \in Nat
  BY LenProperties
<1>2. j \in p .. Len(q) /\ j - 1 \in p .. Len(q) /\ j \in 1 .. Len(q)
  BY <1>1
<1> DEFINE k == q[j]
           u == off[j - 1]
           v == off[j]
           y == LF
           e == Enc(k)
<1>3. u \in Nat /\ v \in Nat
  BY <1>2 DEF Cuts
<1>4. k \in LineKinds
  BY <1>2, ElementOfSeq
<1>5. PICK f \in LineSets[k] : v = u + Len(f) /\ \A i \in 1 .. Len(f) : S[u + i] = f[i]
  BY DEF Cuts
<1> HIDE DEF k, u, v
<1>6. LineSets[k] = {e}
  BY <1>4, EncIs
<1>7. f = e
  BY <1>5, <1>6
<1>8. \/ Len(e) = 2 /\ e[1] # y /\ e[2] = y
      \/ Len(e) = 3 /\ e[1] # y /\ e[2] # y /\ e[3] = y
  BY <1>4, EncIs
<1> HIDE DEF e, y
<1>9. CASE Len(e) = 2 /\ e[1] # y /\ e[2] = y
  <2>1. v = u + 2 /\ S[u + 1] # y /\ S[u + 2] = y
    BY <1>5, <1>7, <1>9
  <2>2. \A x \in u + 1 .. v - 1 : x = u + 1
    BY <1>3, <2>1
  <2>3. u < v
    BY <1>3, <2>1
  <2> QED BY <1>3, <2>1, <2>2, <2>3 DEF u, v, y
<1>10. CASE Len(e) = 3 /\ e[1] # y /\ e[2] # y /\ e[3] = y
  <2>1. v = u + 3 /\ S[u + 1] # y /\ S[u + 2] # y /\ S[u + 3] = y
    BY <1>5, <1>7, <1>10
  <2>2. \A x \in u + 1 .. v - 1 : x = u + 1 \/ x = u + 2
    BY <1>3, <2>1
  <2>3. u < v
    BY <1>3, <2>1
  <2> QED BY <1>3, <2>1, <2>2, <2>3 DEF u, v, y
<1> QED BY <1>8, <1>9, <1>10

LEMMA LineFeeds ==
  ASSUME NEW S \in Seq(LineCells), NEW q \in Seq(LineKinds), NEW p \in Nat, p <= Len(q),
         NEW off, Cuts(LineSets, off, S, q, p), NEW x \in 1 .. Len(S), S[x] = LF
  PROVE  \E j \in p + 1 .. Len(q) : x = off[j]
<1> DEFINE N == Len(q)
           W == {j \in p .. N : x <= off[j]}
<1>1. N \in Nat /\ Len(S) \in Nat
  BY LenProperties
<1>2. off[N] = Len(S) /\ off[p] = 0
  BY DEF Cuts
<1> HIDE DEF N
<1>3. N \in W
  BY <1>1, <1>2 DEF N
<1>4. PICK j \in W : \A i \in W : j <= i
  <2>1. W \subseteq Nat /\ W # {}
    BY <1>1, <1>3
  <2> HIDE DEF W
  <2> QED BY <2>1, LeastOf
<1>5. j \in p .. N /\ x <= off[j] /\ j # p
  BY <1>1, <1>2
<1>6. j \in p + 1 .. N /\ j - 1 \in p .. N /\ ~(j <= j - 1)
  BY <1>1, <1>5
<1>7. ~(x <= off[j - 1])
  BY <1>4, <1>6
<1>8. /\ off[j - 1] \in Nat /\ off[j] \in Nat
      /\ \A y \in off[j - 1] + 1 .. off[j] - 1 : S[y] # LF
  BY <1>6, LineEnds DEF N
<1>9. x \notin off[j - 1] + 1 .. off[j] - 1
  BY <1>8
<1> HIDE DEF W
<1>10. x = off[j]
  <2> DEFINE u == off[j - 1]
             v == off[j]
  <2>1. u \in Nat /\ v \in Nat /\ x \in Nat /\ ~(x <= u) /\ x <= v /\ x \notin u + 1 .. v - 1
    BY <1>1, <1>5, <1>7, <1>8, <1>9
  <2> HIDE DEF u, v
  <2>2. x = v
    BY <2>1
  <2> QED BY <2>2 DEF v
<1> QED BY <1>6, <1>10 DEF N

(* The lines behind line p that are in the buffer to their last cell. *)
LineIn(b, q, p) == p < Len(q) /\ Len(Enc(q[p + 1])) <= readableBytes(b)

LEMMA LinesPending ==
  ASSUME NEW b, IsBuffer(b, LineCells), NEW w \in Seq(LineCells), NEW q \in Seq(LineKinds),
         NEW p \in Nat, p <= Len(q), Framed(LineSets, Content(b) \o w, q, p)
  PROVE  \E a \in p .. Len(q) :
           /\ Cardinality({i \in DOMAIN w : w[i] = LF}) = Len(q) - a
           /\ a = p <=> ~LineIn(b, q, p)
<1> DEFINE c == Content(b)
           r == readableBytes(b)
           n == Len(w)
           N == Len(q)
           S == c \o w
           y == LF
<1>1. c \in Seq(LineCells) /\ Len(c) = r /\ r \in Nat /\ n \in Nat /\ N \in Nat
  BY ContentCells, LenProperties
<1> HIDE DEF c, n, N
<1>2. S \in Seq(LineCells) /\ Len(S) = r + n /\ \A i \in 1 .. n : S[r + i] = w[i]
  <2>1. c \in Seq(LineCells) /\ w \in Seq(LineCells) /\ r = Len(c) /\ n = Len(w)
    BY <1>1 DEF n
  <2> HIDE DEF r, S
  <2>2. /\ c \o w \in Seq(LineCells) /\ Len(c \o w) = r + n
        /\ \A i \in 1 .. r : (c \o w)[i] = c[i]
        /\ \A i \in 1 .. n : (c \o w)[r + i] = w[i]
    BY <2>1, Join
  <2> QED BY <2>2 DEF S
<1>3. PICK off : Cuts(LineSets, off, S, q, p)
  BY DEF c, Framed
<1> HIDE DEF S, r, y
<1>4. /\ \A i \in p .. N : off[i] \in Nat
      /\ off[p] = 0 /\ off[N] = r + n
      /\ \A i, j \in p .. N : i <= j => off[i] <= off[j]
  BY <1>2, <1>3 DEF Cuts, N
<1>5. \A j \in p + 1 .. N : off[j - 1] < off[j] /\ S[off[j]] = y
  BY <1>3, LineEnds DEF N, y
<1>6. ASSUME NEW i \in p .. N, NEW j \in p .. N, i < j
      PROVE  off[i] < off[j]
  <2>1. j \in p + 1 .. N /\ j - 1 \in p .. N /\ i <= j - 1
    BY <1>1, <1>6
  <2>2. off[i] <= off[j - 1] /\ off[j - 1] < off[j]
    BY <1>4, <1>5, <2>1
  <2>3. off[i] \in Nat /\ off[j] \in Nat /\ off[j - 1] \in Nat
    BY <1>4, <2>1
  <2> QED BY ONLY <2>2, <2>3
<1>7. \A x \in 1 .. r + n : S[x] = y => \E j \in p + 1 .. N : x = off[j]
  BY <1>2, <1>3, LineFeeds DEF N, y
<1> DEFINE W == {j \in p .. N : off[j] <= r}
<1>8. PICK a \in W : \A j \in W : j <= a
  <2>1. p \in W /\ W \subseteq 0 .. N
    BY <1>1, <1>4 DEF N
  <2> HIDE DEF W
  <2> QED BY <1>1, <2>1, GreatestOf
<1>9. a \in p .. N /\ off[a] <= r
  OBVIOUS
<1>10. \A j \in a + 1 .. N : j \in p + 1 .. N /\ j \in p .. N /\ ~(off[j] <= r)
  <2> SUFFICES ASSUME NEW j \in a + 1 .. N
               PROVE  j \in p + 1 .. N /\ j \in p .. N /\ ~(off[j] <= r)
    OBVIOUS
  <2>1. j \in p + 1 .. N /\ j \in p .. N /\ ~(j <= a)
    BY <1>1, <1>9
  <2>2. j \notin W
    BY <1>8, <2>1
  <2> QED BY <2>1, <2>2
<1> HIDE DEF W
<1> DEFINE D == {i \in DOMAIN w : w[i] = y}
           f == [j \in a + 1 .. N |-> off[j] - r]
<1>11. DOMAIN w = 1 .. n
  BY LenProperties DEF n
<1>12. ASSUME NEW j \in a + 1 .. N
       PROVE  off[j] - r \in D /\ off[j] \in Nat
  <2> DEFINE x == off[j]
  <2>1. j \in p .. N /\ j <= N /\ N \in p .. N
    BY <1>1, <1>9, <1>10
  <2>2. x \in Nat /\ ~(x <= r) /\ x <= r + n /\ S[x] = y
    BY <1>4, <1>5, <1>10, <2>1
  <2> HIDE DEF x
  <2>3. x - r \in 1 .. n /\ r + (x - r) = x
    BY <1>1, <2>2
  <2>4. w[x - r] = y
    BY <1>2, <2>2, <2>3
  <2> QED BY <1>11, <2>2, <2>3, <2>4 DEF x
<1>13. f \in Bijection(a + 1 .. N, D)
  <2>1. f \in [a + 1 .. N -> D]
    BY <1>12
  <2>2. ASSUME NEW i \in a + 1 .. N, NEW j \in a + 1 .. N, f[i] = f[j]
        PROVE  i = j
    <3>1. off[i] = off[j]
      BY <1>1, <1>12, <2>2
    <3>2. i \in p .. N /\ j \in p .. N /\ off[i] \in Nat /\ off[j] \in Nat
      BY <1>10, <1>12
    <3>3. ~(i < j) /\ ~(j < i)
      BY <1>6, <3>1, <3>2
    <3> QED BY <1>1, <3>2, <3>3
  <2>3. ASSUME NEW t \in D
        PROVE  \E j \in a + 1 .. N : f[j] = t
    <3>1. t \in 1 .. n /\ w[t] = y
      BY <1>11
    <3>2. r + t \in 1 .. r + n /\ S[r + t] = y
      BY <1>1, <1>2, <3>1
    <3>3. PICK j \in p + 1 .. N : r + t = off[j]
      BY <1>7, <3>2
    <3>4. ~(off[j] <= off[a]) /\ off[a] \in Nat /\ off[j] \in Nat
      <4>1. off[a] \in Nat /\ off[a] <= r /\ r + t \in Nat /\ ~(r + t <= off[a])
        BY <1>1, <1>4, <1>9, <3>1
      <4> QED BY <3>3, <4>1
    <3>5. j \in p .. N /\ ~(j <= a)
      BY <1>1, <1>4, <1>9, <3>4
    <3>6. j \in a + 1 .. N
      BY <1>1, <1>9, <3>5
    <3>7. f[j] = t
      BY <1>1, <3>1, <3>3, <3>6
    <3> QED BY <3>6, <3>7
  <2> HIDE DEF f, D
  <2>4. f \in Injection(a + 1 .. N, D)
    BY <2>1, <2>2 DEF Injection, IsInjective
  <2>5. f \in Surjection(a + 1 .. N, D)
    BY <2>1, <2>3 DEF Surjection
  <2> QED BY <2>4, <2>5 DEF Bijection
<1>14. Cardinality(D) = N - a
  <2> HIDE DEF D, f
  <2>1. a \in Int /\ N \in Int /\ a + 1 <= N + 1
    BY <1>1, <1>9
  <2>2. IsFiniteSet(a + 1 .. N) /\ Cardinality(a + 1 .. N) = N - a
    <3>1. /\ IsFiniteSet(a + 1 .. N)
          /\ Cardinality(a + 1 .. N) = IF a + 1 > N THEN 0 ELSE N - (a + 1) + 1
      BY <2>1, FS_Interval
    <3> QED BY <2>1, <3>1
  <2>3. ExistsBijection(a + 1 .. N, D)
    BY <1>13 DEF ExistsBijection
  <2> QED BY <2>2, <2>3, FS_Bijection
<1>15. ASSUME p < N
       PROVE  off[p + 1] = Len(Enc(q[p + 1])) /\ p + 1 \in p .. N
  <2>1. p + 1 \in p + 1 .. N /\ (p + 1) - 1 = p /\ p + 1 \in 1 .. N /\ p + 1 \in p .. N
    BY <1>1, <1>15
  <2>2. PICK g \in LineSets[q[p + 1]] : off[p + 1] = off[(p + 1) - 1] + Len(g)
    BY <1>3, <2>1 DEF Cuts, N
  <2>3. q[p + 1] \in LineKinds
    BY <2>1, ElementOfSeq DEF N
  <2>4. g = Enc(q[p + 1]) /\ Len(g) \in Nat
    <3>1. LineSets[q[p + 1]] = {Enc(q[p + 1])} /\ Len(Enc(q[p + 1])) \in {2, 3}
      BY <2>3, EncIs
    <3> QED BY <2>2, <3>1
  <2> QED BY <1>4, <2>1, <2>2, <2>4
<1>16. a = p <=> ~LineIn(b, q, p)
  <2>0. LineIn(b, q, p) <=> (p < N /\ Len(Enc(q[p + 1])) <= r)
    BY DEF LineIn, N, r
  <2>1. CASE p < N
    <3>1. LineIn(b, q, p) <=> off[p + 1] <= r
      BY <1>15, <2>0, <2>1
    <3>2. p + 1 \in p .. N /\ off[p + 1] \in Nat /\ off[a] \in Nat
      BY <1>4, <1>9, <1>15, <2>1
    <3>3. off[p + 1] <= r => p + 1 <= a
      BY <1>8, <3>2 DEF W
    <3>4. p + 1 <= a => off[p + 1] <= r
      <4>1. p + 1 <= a => off[p + 1] <= off[a]
        BY <1>4, <1>9, <3>2
      <4> QED BY <1>1, <1>9, <3>2, <4>1
    <3> QED BY <1>1, <1>9, <3>1, <3>3, <3>4
  <2>2. CASE ~(p < N)
    BY <1>1, <1>9, <2>0, <2>2
  <2> QED BY <2>1, <2>2
<1> QED BY <1>9, <1>14, <1>16 DEF N, y

-----------------------------------------------------------------------------
(* The connection's state.                                                 *)

HttpTyped ==
  /\ lines \in Seq(LineKinds) /\ cells \in Seq(LineCells) /\ IsBuffer(buf, LineCells)
  /\ parsing \in BOOLEAN /\ connected \in BOOLEAN /\ aborted \in BOOLEAN
  /\ state_ \in {"kExpectRequestLine", "kExpectHeaders"}
  /\ request_ \in [method_ : {"kInvalid", "kGet"}, head : Valid \cup {"kUnknown"},
                   connection : ConnectionLines \cup {""}]
  /\ responses \in Seq(Answers)

(* The parser has taken the first p lines; the request that it is at       *)
(* begins at line s.                                                       *)
StreamAt(p) == p <= Len(lines) /\ Framed(LineSets, Content(buf) \o cells, lines, p)

RequestAt(p, s) ==
  /\ s \in 1 .. p + 1
  /\ state_ = "kExpectRequestLine" => s = p + 1 /\ request_.connection = ""
  /\ state_ = "kExpectHeaders" =>
       /\ s <= p /\ lines[s] \in Valid /\ request_.head = lines[s]
       /\ \A j \in s + 1 .. p : lines[j] \in HeaderLines
       /\ request_.connection = Connection(lines, s, p + 1)

(* Between requests a method is set only by a line that was refused behind *)
(* its method: the connection is shut down, and the line is still there.   *)
Refused(p) == ~connected /\ LineIn(buf, lines, p) /\ lines[p + 1] = "bad rest"
MethodAt(p) ==
  /\ state_ = "kExpectRequestLine" /\ request_.method_ # "kInvalid" => Refused(p)
  /\ aborted => Refused(p)

(* Streams that begin with the first p lines of q; what they ask for is    *)
(* known as far as the first p lines go, and altogether once the           *)
(* connection is shut down.                                                *)
Streams(q, p) == {ls \in Seq(LineKinds) : p <= Len(ls) /\ \A j \in 1 .. p : ls[j] = q[j]}
Settled(z) == \A ls \in Streams(lines, z) : Expected(ls) = responses
AnswersAt(p, s) ==
  /\ connected => \A ls \in Streams(lines, p) : Expected(ls) = responses \o From(ls)[s]
  /\ ~connected => \E z \in 0 .. Len(lines) :
       (z <= p \/ (z = p + 1 /\ LineIn(buf, lines, p))) /\ Settled(z)

ParserAt(p, s) == StreamAt(p) /\ RequestAt(p, s) /\ MethodAt(p) /\ AnswersAt(p, s)
HttpInv == HttpTyped /\ \E p \in Nat, s \in Nat : ParserAt(p, s)

(* A line is found exactly when the next one is in the buffer. *)
LEMMA LineFound ==
  ASSUME HttpTyped, NEW CONSTANT p \in Nat, StreamAt(p)
  PROVE  /\ crlf = 0 => ~LineIn(buf, lines, p)
         /\ crlf # 0 =>
              /\ crlf > 0 /\ LineIn(buf, lines, p)
              /\ p < Len(lines) /\ p + 1 \in 1 .. Len(lines)
              /\ lines[p + 1] \in LineKinds /\ Line = lines[p + 1]
              /\ IsBuffer(AfterLine, LineCells)
              /\ Framed(LineSets, Content(AfterLine) \o cells, lines, p + 1)
<1>0. /\ IsBuffer(buf, LineCells) /\ cells \in Seq(LineCells) /\ lines \in Seq(LineKinds)
      /\ p <= Len(lines) /\ Framed(LineSets, Content(buf) \o cells, lines, p) /\ Len(lines) \in Nat
  BY LenProperties DEF HttpTyped, StreamAt
<1> DEFINE l == findCRLF(buf, CR, LF)
           k == lines[p + 1]
           L == Len(Enc(k))
           after == retrieve(buf, L)
<1>1. /\ crlf = l /\ AfterLine = retrieve(buf, l + 1)
      /\ Line = IF l = 1 THEN "" ELSE Content(buf)[1]
  <2>1. crlf = l
    BY Zenon DEF crlf
  <2> HIDE DEF l
  <2> QED BY <2>1, Zenon DEF AfterLine, Line
<1>2. /\ p = Len(lines) => readableBytes(buf) = 0
      /\ p < Len(lines) => /\ p + 1 \in 1 .. Len(lines) /\ k \in LineKinds
                           /\ \A i \in 1 .. readableBytes(buf) :
                                i <= L => Content(buf)[i] = Enc(k)[i]
  BY <1>0, FrontLine
<1> HIDE DEF l, k
<1>3. CASE p = Len(lines)
  <2>1. l = 0
    BY <1>2, <1>3, CrlfNone DEF l
  <2> QED BY <1>1, <1>3, <1>0, <2>1 DEF LineIn
<1>4. CASE p # Len(lines)
  <2>1. p < Len(lines)
    BY <1>0, <1>4
  <2>2. k \in LineKinds /\ p + 1 \in 1 .. Len(lines)
    BY <1>2, <2>1
  <2>3. /\ L <= readableBytes(buf) =>
             l + 1 = L /\ l \in {1, 2} /\ k = (IF l = 1 THEN "" ELSE Content(buf)[1])
        /\ ~(L <= readableBytes(buf)) => l = 0
    BY <1>0, <1>2, <2>1, <2>2, CrlfIs DEF l
  <2>4. LineIn(buf, lines, p) <=> L <= readableBytes(buf)
    BY <2>1 DEF LineIn, k
  <2>5. CASE ~(L <= readableBytes(buf))
    BY <1>1, <2>3, <2>4, <2>5
  <2>6. CASE L <= readableBytes(buf)
    <3>1. L \in Nat
      <4>1. L \in {2, 3}
        BY <2>2, EncIs
      <4> QED BY <4>1
    <3>2. CanRetrieve(buf, L) /\ \A f \in LineSets[lines[p + 1]] : Len(f) = L
      <4>1. LineSets[k] = {Enc(k)}
        BY <2>2, EncIs
      <4> QED BY <2>6, <4>1 DEF CanRetrieve, k
    <3> HIDE DEF L
    <3>3. IsBuffer(after, LineCells) /\ Framed(LineSets, Content(after) \o cells, lines, p + 1)
      BY <1>0, <2>1, <3>1, <3>2, LineFraming, StreamTaken
    <3>4. l # 0 /\ l > 0 /\ AfterLine = after
      <4>1. l + 1 = L /\ l \in {1, 2}
        BY <2>3, <2>6
      <4>2. l # 0 /\ l > 0
        BY <4>1
      <4>3. AfterLine = after
        BY <1>1, <4>1, Zenon
      <4> QED BY <4>2, <4>3
    <3>5. Line = k
      BY <1>1, <2>3, <2>6, Zenon
    <3> QED BY <1>1, <2>1, <2>2, <2>4, <2>6, <3>3, <3>4, <3>5 DEF k
  <2> QED BY <2>5, <2>6
<1> QED BY <1>3, <1>4

LEMMA StreamsOf ==
  ASSUME NEW q \in Seq(LineKinds), NEW p \in Nat, p <= Len(q), NEW k \in LineKinds
  PROVE  /\ Append(q, k) \in Seq(LineKinds) /\ Len(Append(q, k)) = Len(q) + 1
         /\ \A j \in 1 .. p : Append(q, k)[j] = q[j]
         /\ Streams(Append(q, k), p) = Streams(q, p)
<1> DEFINE r == Append(q, k)
<1>1. r \in Seq(LineKinds) /\ Len(r) = Len(q) + 1 /\ \A i \in 1 .. Len(q) : r[i] = q[i]
  BY AppendProperties
<1> HIDE DEF r
<1>2. \A j \in 1 .. p : r[j] = q[j]
  BY <1>1, LenProperties
<1>3. Streams(r, p) = Streams(q, p)
  BY <1>2, Zenon DEF Streams
<1> QED BY <1>1, <1>2, <1>3 DEF r

LEMMA LineStaysIn ==
  ASSUME NEW b, NEW q \in Seq(LineKinds), NEW p \in Nat, LineIn(b, q, p),
         NEW k \in LineKinds
  PROVE  LineIn(b, Append(q, k), p) /\ Append(q, k)[p + 1] = q[p + 1]
<1>1. p + 1 \in 1 .. Len(q) /\ p < Len(q) + 1
  BY LenProperties DEF LineIn
<1>2. Append(q, k)[p + 1] = q[p + 1] /\ Len(Append(q, k)) = Len(q) + 1
  BY <1>1, AppendProperties
<1> QED BY <1>1, <1>2, Zenon DEF LineIn

LEMMA MoreReadable ==
  ASSUME NEW b, IsBuffer(b, LineCells), NEW d \in Seq(LineCells)
  PROVE  readableBytes(b) <= readableBytes(readFd(b, d))
<1> DEFINE a == readFd(b, d)
           c == Content(b)
           n == Len(d)
           m == Len(c)
<1>1. Blank \in LineCells
  BY DEF LineCells
<1>2. IsBuffer(a, LineCells) /\ Content(a) = c \o d
  BY <1>1, ReadFdAddsBehind
<1> HIDE DEF a
<1>3. c \in Seq(LineCells) /\ m = readableBytes(b) /\ Len(Content(a)) = readableBytes(a)
  BY <1>2, ContentCells
<1> HIDE DEF c
<1>4. Len(c \o d) = m + n
  BY <1>3, ConcatProperties
<1>5. m \in Nat /\ n \in Nat
  BY <1>3, LenProperties
<1> HIDE DEF m, n
<1> QED BY <1>2, <1>3, <1>4, <1>5 DEF a

LEMMA HttpInitOk == HttpInit => HttpInv
<1> SUFFICES ASSUME HttpInit PROVE HttpInv
  OBVIOUS
<1>1. Blank \in LineCells
  BY DEF LineCells
<1>2. IsBuffer(NewBuffer, LineCells) /\ Content(NewBuffer) = <<>>
  BY <1>1, NewBufferIsEmpty
<1>0. /\ lines = <<>> /\ cells = <<>> /\ buf = NewBuffer /\ responses = <<>>
      /\ state_ = "kExpectRequestLine" /\ parsing = FALSE /\ connected = TRUE /\ aborted = FALSE
      /\ request_ = [method_ |-> "kInvalid", head |-> "kUnknown", connection |-> ""]
  BY <1>2, Zenon DEF HttpInit, NoRequest
<1>3. HttpTyped
  <2>1. parsing \in BOOLEAN /\ connected \in BOOLEAN /\ aborted \in BOOLEAN
    BY <1>0, Zenon
  <2>2. request_ \in [method_ : {"kInvalid", "kGet"}, head : Valid \cup {"kUnknown"},
                      connection : ConnectionLines \cup {""}]
    BY <1>0
  <2>3. /\ lines \in Seq(LineKinds) /\ cells \in Seq(LineCells)
        /\ responses \in Seq(Answers) /\ IsBuffer(buf, LineCells)
    <3>1. \A T : <<>> \in Seq(T)
      OBVIOUS
    <3> QED BY <1>0, <1>2, <3>1, Zenon
  <2>4. state_ \in {"kExpectRequestLine", "kExpectHeaders"}
    BY <1>0, Zenon
  <2> QED BY <2>1, <2>2, <2>3, <2>4, Zenon DEF HttpTyped
<1>4. StreamAt(0)
  <2> DEFINE off == [j \in 0 .. 0 |-> 0]
  <2>1. <<>> \o <<>> = <<>> /\ Len(<<>>) = 0
    OBVIOUS
  <2>2. Cuts(LineSets, off, <<>>, <<>>, 0)
    BY <2>1 DEF Cuts
  <2>3. Framed(LineSets, <<>>, <<>>, 0)
    BY <2>2 DEF Framed
  <2> QED BY <1>2, <2>1, <2>3 DEF StreamAt, HttpInit
<1>5. RequestAt(0, 1) /\ MethodAt(0)
  <2>1. 1 \in 1 .. 0 + 1 /\ 1 = 0 + 1
    OBVIOUS
  <2>2. request_.connection = "" /\ request_.method_ = "kInvalid" /\ state_ # "kExpectHeaders"
    BY <1>0
  <2> QED BY <1>0, <2>1, <2>2, Zenon DEF RequestAt, MethodAt
<1>6. AnswersAt(0, 1)
  <2>1. connected /\ responses = <<>>
    BY DEF HttpInit
  <2>2. ASSUME NEW ls \in Streams(lines, 0)
        PROVE  Expected(ls) = <<>> \o From(ls)[1]
    <3>1. Len(ls) \in Nat /\ 1 \in 1 .. Len(ls) + 1
      BY LenProperties DEF Streams
    <3>2. From(ls)[1] \in Seq(Answers)
      BY <3>1, FromType
    <3>3. <<>> \o From(ls)[1] = From(ls)[1]
      BY <3>2, ConcatEmptySeq
    <3> QED BY <3>3 DEF Expected
  <2> QED BY <2>1, <2>2, Zenon DEF AnswersAt
<1>7. ParserAt(0, 1)
  BY <1>4, <1>5, <1>6 DEF ParserAt
<1> QED BY <1>3, <1>7 DEF HttpInv

LEMMA HttpSendStep ==
  ASSUME HttpInv, NEW k \in Lines, SendLine(k)
  PROVE  HttpInv'
<1>0. HttpTyped /\ k \in LineKinds
  BY HttpAssumption DEF HttpInv
<1>1. PICK p \in Nat, s \in Nat : ParserAt(p, s)
  BY DEF HttpInv
<1>2. /\ lines \in Seq(LineKinds) /\ cells \in Seq(LineCells) /\ IsBuffer(buf, LineCells)
      /\ p <= Len(lines) /\ Len(lines) \in Nat
      /\ Framed(LineSets, Content(buf) \o cells, lines, p)
  BY <1>0, <1>1, LenProperties DEF HttpTyped, ParserAt, StreamAt
<1>3. /\ lines' = Append(lines, k)
      /\ cells' = cells \o (IF k = "" THEN <<>> ELSE <<k>>) \o <<CR, LF>>
      /\ UNCHANGED <<buf, parsing, state_, request_, connected, responses, aborted>>
  BY DEF SendLine
<1>4. cells' = cells \o Enc(k) /\ Enc(k) \in Seq(LineCells) /\ Enc(k) \in LineSets[k]
  <2> DEFINE X == IF k = "" THEN <<>> ELSE <<k>>
             Y == <<CR, LF>>
  <2>1. X \in Seq(LineCells) /\ Y \in Seq(LineCells)
    <3>1. k \in LineCells /\ CR \in LineCells /\ LF \in LineCells
      BY <1>0 DEF LineCells
    <3>2. <<>> \in Seq(LineCells) /\ <<k>> \in Seq(LineCells) /\ Y \in Seq(LineCells)
      BY <3>1
    <3> QED BY <3>2, Zenon
  <2>2. cells' = (cells \o X) \o Y /\ Enc(k) = X \o Y
    BY <1>3, Zenon DEF Enc
  <2> HIDE DEF X, Y
  <2>3. (cells \o X) \o Y = cells \o (X \o Y)
    BY <1>2, <2>1, ConcatAssociative, SMTT(60)
  <2>4. Enc(k) \in Seq(LineCells) /\ LineSets[k] = {Enc(k)}
    BY <1>0, EncIs
  <2> QED BY <2>2, <2>3, <2>4
<1>5. cells' \in Seq(LineCells)
  BY <1>2, <1>4, ConcatProperties
<1>6. /\ lines' \in Seq(LineKinds) /\ Len(lines') = Len(lines) + 1
      /\ \A j \in 1 .. p : lines'[j] = lines[j]
      /\ Streams(lines', p) = Streams(lines, p)
      /\ \A z \in 0 .. Len(lines) : Streams(lines', z) = Streams(lines, z)
  <2>1. \A z \in 0 .. Len(lines) : z \in Nat /\ z <= Len(lines)
    BY <1>2
  <2>2. \A z \in 0 .. Len(lines) : Streams(Append(lines, k), z) = Streams(lines, z)
    BY <1>0, <1>2, <2>1, StreamsOf
  <2> QED BY <1>0, <1>2, <1>3, <2>2, StreamsOf
<1>7. LineIn(buf, lines, p) => LineIn(buf, lines', p) /\ lines'[p + 1] = lines[p + 1]
  BY <1>0, <1>2, <1>3, LineStaysIn
<1>8. HttpTyped'
  BY <1>0, <1>3, <1>5, <1>6 DEF HttpTyped, IsBuffer
<1>9. StreamAt(p)'
  <2>1. Content(buf) \in Seq(LineCells)
    BY <1>2, ContentCells
  <2>2. Content(buf) \o cells \in Seq(LineCells)
    BY <1>2, <2>1, ConcatProperties
  <2>3. Framed(LineSets, (Content(buf) \o cells) \o Enc(k), Append(lines, k), p)
    BY <1>0, <1>2, <1>4, <2>2, LineFraming, FramedSend
  <2>4. (Content(buf) \o cells) \o Enc(k) = Content(buf) \o (cells \o Enc(k))
    BY <1>2, <1>4, <2>1, ConcatAssociative, SMTT(60)
  <2>5. Framed(LineSets, Content(buf') \o cells', lines', p)
    BY <1>3, <1>4, <2>3, <2>4
  <2>6. p <= Len(lines')
    BY <1>2, <1>6
  <2> QED BY <2>5, <2>6 DEF StreamAt
<1>10. RequestAt(p, s)'
  <2>1. RequestAt(p, s)
    BY <1>1 DEF ParserAt
  <2>2. s \in 1 .. p + 1 /\ \A j \in s + 1 .. (p + 1) - 1 : lines'[j] = lines[j]
    <3>1. s \in 1 .. p + 1
      BY <2>1 DEF RequestAt
    <3>2. \A j \in s + 1 .. (p + 1) - 1 : j \in 1 .. p
      BY <3>1
    <3> QED BY <1>6, <3>1, <3>2
  <2>3. Connection(lines', s, p + 1) = Connection(lines, s, p + 1)
    <3>1. p + 1 \in Nat
      OBVIOUS
    <3> QED BY <2>2, <3>1, ConnectionSame
  <2>4. \A j \in s + 1 .. p : lines'[j] = lines[j]
    BY <2>2
  <2>5. s <= p => lines'[s] = lines[s]
    BY <1>6, <2>2
  <2> QED BY <1>3, <2>1, <2>3, <2>4, <2>5 DEF RequestAt
<1>11. MethodAt(p)'
  BY <1>1, <1>3, <1>7 DEF ParserAt, MethodAt, Refused
<1>12. AnswersAt(p, s)'
  <2>1. AnswersAt(p, s)
    BY <1>1 DEF ParserAt
  <2>2. CASE connected
    BY <1>3, <1>6, <2>1, <2>2, Zenon DEF AnswersAt
  <2>3. CASE ~connected
    <3>1. PICK z \in 0 .. Len(lines) :
            (z <= p \/ (z = p + 1 /\ LineIn(buf, lines, p))) /\ Settled(z)
      BY <2>1, <2>3 DEF AnswersAt
    <3>2. z \in 0 .. Len(lines') /\ Streams(lines', z) = Streams(lines, z)
      BY <1>2, <1>6
    <3>3. Settled(z)'
      BY <1>3, <3>1, <3>2, Zenon DEF Settled
    <3> QED BY <1>3, <1>7, <2>3, <3>1, <3>2, <3>3, Zenon DEF AnswersAt
  <2> QED BY <2>2, <2>3
<1>13. ParserAt(p, s)'
  BY <1>9, <1>10, <1>11, <1>12 DEF ParserAt
<1> QED BY <1>8, <1>13 DEF HttpInv

LEMMA LinesArrive ==
  ASSUME NEW b, IsBuffer(b, LineCells), NEW w \in Seq(LineCells), NEW n \in Nat, n <= Len(w)
  PROVE  LET a == readFd(b, SubSeq(w, 1, n))
             v == SubSeq(w, n + 1, Len(w))
         IN  IsBuffer(a, LineCells) /\ v \in Seq(LineCells) /\ Content(a) \o v = Content(b) \o w
<1>1. Blank \in LineCells
  BY DEF LineCells
<1> QED BY <1>1, StreamArrives, ZenonT(60)

LEMMA HttpArriveStep ==
  ASSUME HttpInv, NEW n \in 1 .. Len(cells), ArriveCells(n)
  PROVE  HttpInv'
<1>0. HttpTyped
  BY DEF HttpInv
<1>1. PICK p \in Nat, s \in Nat : ParserAt(p, s)
  BY DEF HttpInv
<1>2. /\ lines \in Seq(LineKinds) /\ cells \in Seq(LineCells) /\ IsBuffer(buf, LineCells)
      /\ p <= Len(lines) /\ Framed(LineSets, Content(buf) \o cells, lines, p)
      /\ n \in Nat /\ n <= Len(cells)
  <2>1. /\ lines \in Seq(LineKinds) /\ cells \in Seq(LineCells) /\ IsBuffer(buf, LineCells)
        /\ p <= Len(lines) /\ Framed(LineSets, Content(buf) \o cells, lines, p)
    BY <1>0, <1>1 DEF HttpTyped, ParserAt, StreamAt
  <2>2. Len(cells) \in Nat
    BY <2>1, LenProperties
  <2>3. n \in Nat /\ n <= Len(cells)
    BY <2>2
  <2> QED BY <2>1, <2>3
<1> DEFINE u == SubSeq(cells, 1, n)
           v == SubSeq(cells, n + 1, Len(cells))
           a == readFd(buf, u)
<1>3. /\ buf' = a /\ cells' = v /\ parsing' = TRUE
      /\ UNCHANGED <<lines, state_, request_, connected, responses, aborted>>
  BY Zenon DEF ArriveCells
<1>4. Blank \in LineCells
  BY DEF LineCells
<1>5. IsBuffer(a, LineCells) /\ v \in Seq(LineCells) /\ Content(a) \o v = Content(buf) \o cells
  <2>1. /\ Blank \in LineCells /\ IsBuffer(buf, LineCells) /\ cells \in Seq(LineCells)
        /\ n \in Nat /\ n <= Len(cells)
    BY <1>2, <1>4
  <2> QED BY <2>1, LinesArrive
<1>6. readableBytes(buf) <= readableBytes(a) /\ readableBytes(buf) \in Nat /\ readableBytes(a) \in Nat
  <2>1. u \in Seq(LineCells)
    BY <1>2, FirstOf
  <2> QED BY <1>2, <1>5, <2>1, MoreReadable, ContentCells
<1> HIDE DEF u, v, a
<1>7. HttpTyped'
  <2>1. IsBuffer(buf, LineCells)' /\ cells' \in Seq(LineCells) /\ parsing' \in BOOLEAN
    BY <1>3, <1>5, Zenon DEF IsBuffer
  <2> QED BY <1>0, <1>3, <2>1, Zenon DEF HttpTyped
<1>8. StreamAt(p)'
  <2>1. Framed(LineSets, Content(buf') \o cells', lines', p) /\ p <= Len(lines')
    BY <1>2, <1>3, <1>5, Zenon
  <2> QED BY <2>1 DEF StreamAt
<1>9. RequestAt(p, s)'
  BY <1>1, <1>3, Zenon DEF ParserAt, RequestAt
<1>10. LineIn(buf, lines, p) => LineIn(buf, lines, p)'
  <2> SUFFICES ASSUME LineIn(buf, lines, p) PROVE LineIn(buf, lines, p)'
    OBVIOUS
  <2> DEFINE L == Len(Enc(lines[p + 1]))
  <2>1. p < Len(lines) /\ L <= readableBytes(buf)
    BY DEF LineIn
  <2>2. L \in Nat
    <3>1. lines[p + 1] \in LineKinds
      BY <1>2, <2>1, ElementOfSeq, LenProperties
    <3>2. L \in {2, 3}
      BY <3>1, EncIs
    <3> QED BY <3>2
  <2> HIDE DEF L
  <2>3. L <= readableBytes(a)
    BY <1>6, <2>1, <2>2
  <2> QED BY <1>3, <2>1, <2>3, Zenon DEF LineIn, L
<1>11. MethodAt(p)'
  BY <1>1, <1>3, <1>10, Zenon DEF ParserAt, MethodAt, Refused
<1>12. AnswersAt(p, s)'
  <2>1. AnswersAt(p, s)
    BY <1>1 DEF ParserAt
  <2> QED BY <1>3, <1>10, <2>1, Zenon DEF AnswersAt, Settled
<1>13. ParserAt(p, s)'
  BY <1>8, <1>9, <1>11, <1>12 DEF ParserAt
<1> QED BY <1>7, <1>13 DEF HttpInv

LEMMA HttpAwaitStep ==
  ASSUME HttpInv, AwaitLine
  PROVE  HttpInv'
<1>1. /\ parsing' \in BOOLEAN
      /\ UNCHANGED <<lines, cells, buf, state_, request_, connected, responses, aborted>>
  BY Zenon DEF AwaitLine
<1>2. HttpTyped'
  BY <1>1, Zenon DEF HttpInv, HttpTyped, IsBuffer
<1>3. PICK p \in Nat, s \in Nat : ParserAt(p, s)
  BY DEF HttpInv
<1>4. ParserAt(p, s)'
  BY <1>1, <1>3, Zenon DEF ParserAt, StreamAt, RequestAt, MethodAt, Refused, AnswersAt, Settled,
       LineIn
<1> QED BY <1>2, <1>4 DEF HttpInv

(* The next line is taken. *)
LEMMA LineTaken ==
  ASSUME HttpTyped, NEW CONSTANT p \in Nat, StreamAt(p), crlf > 0,
         UNCHANGED <<lines, cells>>, buf' = AfterLine
  PROVE  /\ IsBuffer(buf, LineCells)' /\ StreamAt(p + 1)'
         /\ lines \in Seq(LineKinds) /\ Len(lines) \in Nat
         /\ p + 1 \in 1 .. Len(lines) /\ lines[p + 1] \in LineKinds /\ Line = lines[p + 1]
<1>1. crlf # 0
  OBVIOUS
<1>2. /\ p < Len(lines) /\ p + 1 \in 1 .. Len(lines)
      /\ lines[p + 1] \in LineKinds /\ Line = lines[p + 1]
      /\ IsBuffer(AfterLine, LineCells)
      /\ Framed(LineSets, Content(AfterLine) \o cells, lines, p + 1)
  BY <1>1, LineFound
<1>3. lines \in Seq(LineKinds) /\ Len(lines) \in Nat
  BY LenProperties DEF HttpTyped
<1>4. p + 1 <= Len(lines)
  BY <1>2, <1>3
<1>5. IsBuffer(buf, LineCells)'
  BY <1>2, Zenon DEF IsBuffer
<1>6. Framed(LineSets, Content(buf') \o cells', lines', p + 1) /\ p + 1 <= Len(lines')
  BY <1>2, <1>4, Zenon
<1>7. StreamAt(p + 1)'
  BY <1>6 DEF StreamAt
<1> QED BY <1>2, <1>3, <1>5, <1>7

LEMMA StreamsMore ==
  ASSUME NEW q, NEW p \in Nat, NEW ls \in Streams(q, p + 1)
  PROVE  /\ ls \in Streams(q, p) /\ ls \in Seq(LineKinds) /\ Len(ls) \in Nat
         /\ p + 1 <= Len(ls) /\ p + 1 \in 1 .. Len(ls) /\ \A j \in 1 .. p + 1 : ls[j] = q[j]
<1>1. ls \in Seq(LineKinds) /\ p + 1 <= Len(ls) /\ \A j \in 1 .. p + 1 : ls[j] = q[j]
  BY DEF Streams
<1>2. Len(ls) \in Nat
  BY <1>1, LenProperties
<1>3. p <= Len(ls) /\ p + 1 \in 1 .. Len(ls) /\ \A j \in 1 .. p : j \in 1 .. p + 1
  BY <1>1, <1>2
<1> QED BY <1>1, <1>2, <1>3 DEF Streams

(* A line is taken and nothing is answered. *)
LEMMA AnswersTaken ==
  ASSUME NEW CONSTANT p \in Nat, NEW CONSTANT s, AnswersAt(p, s),
         UNCHANGED <<lines, connected, responses>>
  PROVE  AnswersAt(p + 1, s)'
<1>1. ASSUME connected'
      PROVE  \A ls \in Streams(lines', p + 1) :
               Expected(ls) = responses' \o From(ls)[s]
  <2>1. \A ls \in Streams(lines, p) : Expected(ls) = responses \o From(ls)[s]
    BY <1>1 DEF AnswersAt
  <2>2. \A ls \in Streams(lines, p + 1) : ls \in Streams(lines, p)
    BY StreamsMore
  <2>3. lines' = lines /\ responses' = responses
    OBVIOUS
  <2> QED BY <2>1, <2>2, <2>3, Zenon
<1>2. ASSUME ~connected'
      PROVE  \E z \in 0 .. Len(lines') : z <= p + 1 /\ Settled(z)'
  <2>1. PICK z \in 0 .. Len(lines) : (z <= p \/ z = p + 1) /\ Settled(z)
    BY <1>2 DEF AnswersAt
  <2>2. z <= p + 1
    BY <2>1
  <2>3. Settled(z)'
    BY <2>1, Zenon DEF Settled
  <2> QED BY <2>1, <2>2, <2>3
<1> QED BY <1>1, <1>2, Zenon DEF AnswersAt

LEMMA GoodRequestLineStep ==
  ASSUME HttpInv, ~aborted, GoodRequestLine
  PROVE  HttpInv'
<1>0. HttpTyped
  BY DEF HttpInv
<1>1. PICK p \in Nat, s \in Nat : ParserAt(p, s)
  BY DEF HttpInv
<1>2. /\ StreamAt(p) /\ RequestAt(p, s) /\ MethodAt(p) /\ AnswersAt(p, s)
  BY <1>1 DEF ParserAt
<1>3. /\ crlf > 0 /\ state_ = "kExpectRequestLine" /\ Line \in Valid
      /\ aborted' = SetMethodFails /\ state_' = "kExpectHeaders"
      /\ request_' = [request_ EXCEPT !.method_ = "kGet", !.head = Line]
      /\ buf' = AfterLine
      /\ UNCHANGED <<lines, cells, parsing, connected, responses>>
  BY Zenon DEF GoodRequestLine
<1>4. /\ IsBuffer(buf, LineCells)' /\ StreamAt(p + 1)' /\ Len(lines) \in Nat
      /\ p + 1 \in 1 .. Len(lines) /\ Line = lines[p + 1]
  BY <1>0, <1>2, <1>3, LineTaken
<1>5. s = p + 1 /\ request_.connection = ""
  BY <1>2, <1>3 DEF RequestAt
<1>6. aborted' = FALSE
  <2>1. Line # "bad rest"
    BY <1>3 DEF Valid
  <2>2. request_.method_ = "kInvalid"
    BY <1>2, <1>3, <1>4, <2>1, Zenon DEF MethodAt, Refused
  <2> QED BY <1>3, <2>2, Zenon DEF SetMethodFails
<1>7. /\ request_' \in [method_ : {"kInvalid", "kGet"}, head : Valid \cup {"kUnknown"},
                        connection : ConnectionLines \cup {""}]
      /\ request_'.head = Line /\ request_'.connection = request_.connection
  BY <1>0, <1>3 DEF HttpTyped
<1>8. HttpTyped'
  BY <1>0, <1>3, <1>4, <1>6, <1>7, Zenon DEF HttpTyped
<1>9. RequestAt(p + 1, s)'
  <2>1. s \in 1 .. (p + 1) + 1 /\ s <= p + 1 /\ \A j \in s + 1 .. p + 1 : FALSE
    <3>1. p \in Nat /\ s = p + 1
      BY <1>5
    <3> QED BY ONLY <3>1
  <2>2. Connection(lines', s, (p + 1) + 1) = ""
    BY <1>5, ConnectionNone
  <2>3. lines'[s] \in Valid /\ request_'.head = lines'[s] /\ request_'.connection = ""
    BY <1>3, <1>4, <1>5, <1>7
  <2>4. state_' # "kExpectRequestLine"
    BY <1>3
  <2> QED BY <2>1, <2>2, <2>3, <2>4, Zenon DEF RequestAt
<1>10. MethodAt(p + 1)'
  BY <1>3, <1>6 DEF MethodAt
<1>11. AnswersAt(p + 1, s)'
  BY <1>2, <1>3, AnswersTaken
<1>12. ParserAt(p + 1, s)' /\ p + 1 \in Nat
  BY <1>4, <1>9, <1>10, <1>11 DEF ParserAt
<1> QED BY <1>8, <1>12 DEF HttpInv

LEMMA AddHeaderStep ==
  ASSUME HttpInv, ~aborted, AddHeader
  PROVE  HttpInv'
<1>0. HttpTyped
  BY DEF HttpInv
<1>1. PICK p \in Nat, s \in Nat : ParserAt(p, s)
  BY DEF HttpInv
<1>2. /\ StreamAt(p) /\ RequestAt(p, s) /\ MethodAt(p) /\ AnswersAt(p, s)
  BY <1>1 DEF ParserAt
<1>3. /\ crlf > 0 /\ state_ = "kExpectHeaders" /\ Line \in HeaderLines
      /\ request_' = (IF Line \in ConnectionLines
                      THEN [request_ EXCEPT !.connection = Line] ELSE request_)
      /\ buf' = AfterLine
      /\ UNCHANGED <<lines, cells, parsing, state_, connected, responses, aborted>>
  BY Zenon DEF AddHeader
<1>4. /\ IsBuffer(buf, LineCells)' /\ StreamAt(p + 1)' /\ Len(lines) \in Nat
      /\ p + 1 \in 1 .. Len(lines) /\ Line = lines[p + 1]
  BY <1>0, <1>2, <1>3, LineTaken
<1>5. /\ s \in 1 .. p + 1 /\ s <= p /\ lines[s] \in Valid /\ request_.head = lines[s]
      /\ \A j \in s + 1 .. p : lines[j] \in HeaderLines
      /\ request_.connection = Connection(lines, s, p + 1)
  BY <1>2, <1>3 DEF RequestAt
<1>6. /\ request_' \in [method_ : {"kInvalid", "kGet"}, head : Valid \cup {"kUnknown"},
                        connection : ConnectionLines \cup {""}]
      /\ request_'.head = request_.head
      /\ request_'.connection =
           IF Line \in ConnectionLines THEN Line ELSE request_.connection
  BY <1>0, <1>3 DEF HttpTyped
<1>7. HttpTyped'
  BY <1>0, <1>3, <1>4, <1>6, Zenon DEF HttpTyped
<1>8. RequestAt(p + 1, s)'
  <2>1. s \in 1 .. (p + 1) + 1 /\ s <= p + 1 /\ \A j \in s + 1 .. p + 1 : j = p + 1 \/ j \in s + 1 .. p
    BY <1>5
  <2>2. \A j \in s + 1 .. p + 1 : lines[j] \in HeaderLines
    BY <1>3, <1>4, <1>5, <2>1
  <2>3. Connection(lines, s, (p + 1) + 1) =
          IF lines[p + 1] \in ConnectionLines THEN lines[p + 1]
          ELSE Connection(lines, s, p + 1)
    <3>1. p + 1 \in Nat /\ s < p + 1
      BY <1>5
    <3> QED BY <3>1, ConnectionNext
  <2>4. request_'.connection = Connection(lines, s, (p + 1) + 1)
    BY <1>4, <1>5, <1>6, <2>3, Zenon
  <2>5. state_' # "kExpectRequestLine" /\ lines' = lines /\ request_'.head = lines[s]
    BY <1>3, <1>5, <1>6
  <2> QED BY <1>5, <2>1, <2>2, <2>4, <2>5, Zenon DEF RequestAt
<1>9. MethodAt(p + 1)'
  BY <1>3 DEF MethodAt
<1>10. AnswersAt(p + 1, s)'
  BY <1>2, <1>3, AnswersTaken
<1>11. ParserAt(p + 1, s)' /\ p + 1 \in Nat
  BY <1>4, <1>8, <1>9, <1>10 DEF ParserAt
<1> QED BY <1>7, <1>11 DEF HttpInv

LEMMA BadRequestLineStep ==
  ASSUME HttpInv, ~aborted, BadRequestLine
  PROVE  HttpInv'
<1>0. HttpTyped
  BY DEF HttpInv
<1>1. PICK p \in Nat, s \in Nat : ParserAt(p, s)
  BY DEF HttpInv
<1>2. /\ StreamAt(p) /\ RequestAt(p, s) /\ MethodAt(p) /\ AnswersAt(p, s)
  BY <1>1 DEF ParserAt
<1>3. /\ crlf > 0 /\ state_ = "kExpectRequestLine" /\ Line \notin Valid
      /\ aborted' = SetMethodFails
      /\ request_' = [request_ EXCEPT !.method_ = IF Line = "bad rest" THEN "kGet" ELSE @]
      /\ responses' = (IF connected THEN Append(responses, "400") ELSE responses)
      /\ connected' = FALSE /\ parsing' = FALSE
      /\ UNCHANGED <<lines, cells, buf, state_>>
  BY Zenon DEF BadRequestLine, Respond
<1>4. /\ LineIn(buf, lines, p) /\ p + 1 \in 1 .. Len(lines) /\ Line = lines[p + 1]
  <2>1. crlf # 0
    <3>1. crlf > 0
      BY <1>3
    <3> QED BY ONLY <3>1
  <2> QED BY <1>0, <1>2, <2>1, LineFound
<1>5. s = p + 1 /\ request_.connection = ""
  BY <1>2, <1>3 DEF RequestAt
<1>6. /\ request_' \in [method_ : {"kInvalid", "kGet"}, head : Valid \cup {"kUnknown"},
                        connection : ConnectionLines \cup {""}]
      /\ request_'.method_ = (IF Line = "bad rest" THEN "kGet" ELSE request_.method_)
      /\ request_'.connection = request_.connection
  BY <1>0, <1>3 DEF HttpTyped
<1>7. responses \in Seq(Answers) /\ "400" \in Answers /\ responses' \in Seq(Answers)
  <2>1. responses \in Seq(Answers) /\ "400" \in Answers
    BY <1>0 DEF HttpTyped, Answers
  <2>2. Append(responses, "400") \in Seq(Answers)
    BY <2>1, AppendProperties
  <2> QED BY <1>3, <2>1, <2>2, Zenon
<1>8. HttpTyped'
  <2>1. IsBuffer(buf, LineCells)'
    BY <1>0, <1>3, Zenon DEF HttpTyped, IsBuffer
  <2>2. aborted' \in BOOLEAN
    BY <1>3, Zenon DEF SetMethodFails
  <2> QED BY <1>0, <1>3, <1>6, <1>7, <2>1, <2>2, Zenon DEF HttpTyped
<1>9. StreamAt(p)'
  BY <1>2, <1>3, Zenon DEF StreamAt
<1>10. RequestAt(p, s)'
  BY <1>2, <1>3, <1>5, <1>6 DEF RequestAt
<1>11. LineIn(buf, lines, p)'
  BY <1>3, <1>4, Zenon DEF LineIn
<1>12. MethodAt(p)'
  <2>1. request_.method_ # "kInvalid" => Line = "bad rest"
    BY <1>2, <1>3, <1>4, Zenon DEF MethodAt, Refused
  <2>2. request_'.method_ # "kInvalid" => lines'[p + 1] = "bad rest"
    BY <1>3, <1>4, <1>6, <2>1, Zenon
  <2>3. aborted' => lines'[p + 1] = "bad rest"
    BY <1>3, <1>4, <2>1, Zenon DEF SetMethodFails
  <2> QED BY <1>3, <1>11, <2>2, <2>3, Zenon DEF MethodAt, Refused
<1>13. AnswersAt(p, s)'
  <2>1. CASE connected
    <3>1. \A ls \in Streams(lines, p) : Expected(ls) = responses \o From(ls)[s]
      BY <1>2, <2>1 DEF AnswersAt
    <3>2. ASSUME NEW ls \in Streams(lines, p + 1)
          PROVE  Expected(ls) = Append(responses, "400")
      <4>1. /\ ls \in Streams(lines, p) /\ Len(ls) \in Nat /\ p + 1 \in 1 .. Len(ls)
            /\ \A j \in 1 .. p + 1 : ls[j] = lines[j]
        BY StreamsMore
      <4>2. ls[p + 1] \notin Valid
        <5>1. p + 1 \in 1 .. p + 1
          OBVIOUS
        <5> QED BY <1>3, <1>4, <4>1, <5>1, Zenon
      <4>3. From(ls)[p + 1] = <<"400">>
        BY <4>1, <4>2, FromRefused
      <4>4. Append(responses, "400") = responses \o <<"400">>
        BY <1>7, AppendIsConcat
      <4> QED BY <1>5, <3>1, <4>1, <4>3, <4>4, Zenon
    <3>3. p + 1 \in 0 .. Len(lines')
      <4>1. p + 1 \in 1 .. Len(lines') /\ p \in Nat
        BY <1>3, <1>4, Zenon
      <4> QED BY ONLY <4>1
    <3>4. Settled(p + 1)'
      BY <1>3, <2>1, <3>2, Zenon DEF Settled
    <3> QED BY <1>3, <1>11, <3>3, <3>4, Zenon DEF AnswersAt
  <2>2. CASE ~connected
    BY <1>2, <1>3, <1>11, <2>2, Zenon DEF AnswersAt, Settled
  <2> QED BY <2>1, <2>2
<1>14. ParserAt(p, s)'
  BY <1>9, <1>10, <1>12, <1>13 DEF ParserAt
<1> QED BY <1>8, <1>14 DEF HttpInv

(* Whatever the callback does, it leaves a flag. *)
LEMMA ClosingIs ==
  ASSUME NEW h \in Valid, NEW c
  PROVE  Closing(h, c) \in BOOLEAN
<1> DEFINE b == c = "Connection: close" \/ (h = "HTTP/1.0" /\ c # "Connection: Keep-Alive")
<1>1. b \in BOOLEAN
  BY Zenon
<1>2. <<h, b>> \in Valid \X BOOLEAN
  <2> HIDE DEF b
  <2> QED BY <1>1
<1>3. Closing(h, c) = httpCallback_[h, b]
  BY Zenon DEF Closing
<1> HIDE DEF b
<1> QED BY <1>2, <1>3, HttpAssumption

LEMMA GotAllStep ==
  ASSUME HttpInv, ~aborted, GotAll
  PROVE  HttpInv'
<1>0. HttpTyped
  BY DEF HttpInv
<1>1. PICK p \in Nat, s \in Nat : ParserAt(p, s)
  BY DEF HttpInv
<1>2. /\ StreamAt(p) /\ RequestAt(p, s) /\ MethodAt(p) /\ AnswersAt(p, s)
  BY <1>1 DEF ParserAt
<1> DEFINE close == Closing(request_.head, request_.connection)
           answer == IF close THEN "close" ELSE "keep"
           e == p + 1
<1>3. /\ crlf > 0 /\ state_ = "kExpectHeaders" /\ Line \notin HeaderLines
      /\ responses' = (IF connected THEN Append(responses, answer) ELSE responses)
      /\ connected' = (connected /\ ~close)
      /\ buf' = AfterLine /\ state_' = "kExpectRequestLine"
      /\ request_' = [method_ |-> "kInvalid", head |-> "kUnknown", connection |-> ""]
      /\ parsing' = FALSE
      /\ UNCHANGED <<lines, cells, aborted>>
  BY Zenon DEF GotAll, Respond, NoRequest
<1>4. /\ IsBuffer(buf, LineCells)' /\ StreamAt(p + 1)' /\ Len(lines) \in Nat
      /\ p + 1 \in 1 .. Len(lines) /\ Line = lines[p + 1]
  BY <1>0, <1>2, <1>3, LineTaken
<1>5. /\ s \in 1 .. p + 1 /\ s <= p /\ lines[s] \in Valid /\ request_.head = lines[s]
      /\ \A j \in s + 1 .. p : lines[j] \in HeaderLines
      /\ request_.connection = Connection(lines, s, p + 1)
  BY <1>2, <1>3 DEF RequestAt
<1>6. responses \in Seq(Answers) /\ answer \in Answers /\ responses' \in Seq(Answers)
  <2>1. responses \in Seq(Answers) /\ answer \in Answers
    BY <1>0 DEF HttpTyped, Answers
  <2>2. Append(responses, answer) \in Seq(Answers)
    BY <2>1, AppendProperties
  <2> QED BY <1>3, <2>1, <2>2, Zenon
<1>7. close \in BOOLEAN /\ connected \in BOOLEAN /\ connected' \in BOOLEAN
  <2>1. close \in BOOLEAN
    BY <1>5, ClosingIs
  <2> QED BY <1>0, <1>3, <2>1, Zenon DEF HttpTyped
<1>8. /\ request_' \in [method_ : {"kInvalid", "kGet"}, head : Valid \cup {"kUnknown"},
                        connection : ConnectionLines \cup {""}]
      /\ request_'.connection = "" /\ request_'.method_ = "kInvalid"
  BY <1>3
<1>9. HttpTyped'
  BY <1>0, <1>3, <1>4, <1>6, <1>7, <1>8, Zenon DEF HttpTyped
<1>10. RequestAt(e, e + 1)'
  <2>1. e + 1 \in 1 .. e + 1
    OBVIOUS
  <2>2. state_' # "kExpectHeaders"
    BY <1>3
  <2> QED BY <1>8, <2>1, <2>2, Zenon DEF RequestAt
<1>11. MethodAt(e)'
  BY <1>3, <1>8, Zenon DEF MethodAt
<1>12. ASSUME NEW ls \in Streams(lines, e)
       PROVE  /\ ls \in Streams(lines, p) /\ From(ls)[e + 1] \in Seq(Answers)
              /\ close => From(ls)[s] = <<"close">>
              /\ ~close => From(ls)[s] = <<"keep">> \o From(ls)[e + 1]
  <2>1. /\ ls \in Streams(lines, p) /\ Len(ls) \in Nat /\ e \in 1 .. Len(ls)
        /\ \A j \in 1 .. e : ls[j] = lines[j]
    BY StreamsMore
  <2>2. /\ s \in 1 .. e /\ e \in 1 .. e /\ s \in 1 .. Len(ls) /\ e \in s + 1 .. Len(ls)
        /\ e + 1 \in 1 .. Len(ls) + 1 /\ s \in Nat /\ e \in Nat
        /\ \A j \in s + 1 .. e - 1 : j \in 1 .. e /\ j \in s + 1 .. p
    BY <1>5, <2>1
  <2> HIDE DEF e
  <2>3. ls[s] = lines[s] /\ ls[e] = lines[e]
    BY <2>1, <2>2
  <2>4. ls[s] \in Valid /\ ls[e] \notin HeaderLines
    BY <1>3, <1>4, <1>5, <2>3, Zenon DEF e
  <2>5. \A j \in s + 1 .. e - 1 : ls[j] = lines[j] /\ ls[j] \in HeaderLines
    BY <1>5, <2>1, <2>2
  <2>6. From(ls)[s] = IF Closing(ls[s], Connection(ls, s, e)) THEN <<"close">>
                           ELSE <<"keep">> \o From(ls)[e + 1]
    BY <2>1, <2>2, <2>4, <2>5, FromWhole
  <2>7. Connection(ls, s, e) = Connection(lines, s, e)
    BY <2>2, <2>5, ConnectionSame
  <2>8. Closing(ls[s], Connection(ls, s, e)) <=> close
    BY <1>5, <2>3, <2>7, Zenon DEF e
  <2>9. From(ls)[e + 1] \in Seq(Answers)
    BY <2>1, <2>2, FromType
  <2> QED BY <2>1, <2>6, <2>8, <2>9, Zenon
<1>13. AnswersAt(e, e + 1)'
  <2>1. CASE ~connected
    <3>1. UNCHANGED <<lines, connected, responses>>
      BY <1>3, <1>7, <2>1, Zenon
    <3>2. AnswersAt(p + 1, s)' /\ ~connected'
      BY <1>2, <2>1, <3>1, AnswersTaken, Zenon
    <3> QED BY <3>2, Zenon DEF AnswersAt
  <2>2. CASE connected
    <3>0. \A ls \in Streams(lines, p) : Expected(ls) = responses \o From(ls)[s]
      BY <1>2, <2>2 DEF AnswersAt
    <3>1. CASE close
      <4>1. responses' = responses \o <<"close">> /\ ~connected'
        <5>1. responses' = Append(responses, "close") /\ ~connected' /\ "close" \in Answers
          BY <1>3, <2>2, <3>1, Zenon DEF Answers
        <5>2. Append(responses, "close") = responses \o <<"close">>
          BY <1>6, <5>1, AppendIsConcat
        <5> QED BY <5>1, <5>2
      <4>2. Settled(e)'
        BY <1>3, <1>12, <3>0, <3>1, <4>1, Zenon DEF Settled
      <4>3. e \in 0 .. Len(lines') /\ e <= e
        <5>1. e \in 1 .. Len(lines') /\ p \in Nat
          BY <1>3, <1>4, Zenon
        <5> QED BY ONLY <5>1
      <4> QED BY <4>1, <4>2, <4>3, Zenon DEF AnswersAt
    <3>2. CASE ~close
      <4>1. responses' = responses \o <<"keep">> /\ connected'
        <5>1. responses' = Append(responses, "keep") /\ connected' /\ "keep" \in Answers
          BY <1>3, <2>2, <3>2, Zenon DEF Answers
        <5>2. Append(responses, "keep") = responses \o <<"keep">>
          BY <1>6, <5>1, AppendIsConcat
        <5> QED BY <5>1, <5>2
      <4>2. ASSUME NEW ls \in Streams(lines, e)
            PROVE  Expected(ls) = responses' \o From(ls)[e + 1]
        <5> DEFINE k == <<"keep">>
                   t == From(ls)[e + 1]
        <5>1. Expected(ls) = responses \o (k \o t) /\ t \in Seq(Answers)
          BY <1>12, <3>0, <3>2, Zenon
        <5>2. k \in Seq(Answers)
          BY DEF Answers
        <5> HIDE DEF k, t
        <5>3. (responses \o k) \o t = responses \o (k \o t)
          BY <1>6, <5>1, <5>2, ConcatAssociative, SMTT(60)
        <5>4. responses' = responses \o k
          BY <4>1 DEF k
        <5>5. Expected(ls) = responses' \o t
          BY <5>1, <5>3, <5>4, Zenon
        <5> QED BY <5>5 DEF t
      <4> QED BY <1>3, <4>1, <4>2, Zenon DEF AnswersAt
    <3> QED BY <3>1, <3>2
  <2> QED BY <2>1, <2>2
<1>14. ParserAt(e, e + 1)' /\ e \in Nat /\ e + 1 \in Nat
  BY <1>4, <1>10, <1>11, <1>13 DEF ParserAt
<1> QED BY <1>9, <1>14 DEF HttpInv

LEMMA HttpStepOk ==
  ASSUME HttpInv, [HttpNext]_httpVars
  PROVE  HttpInv'
<1>1. CASE HttpNext
  <2>1. ASSUME NEW k \in Lines, SendLine(k) PROVE HttpInv'
    BY <2>1, HttpSendStep
  <2>2. ASSUME NEW n \in 1 .. Len(cells), ArriveCells(n) PROVE HttpInv'
    BY <2>2, HttpArriveStep
  <2>3. CASE AwaitLine
    BY <2>3, HttpAwaitStep
  <2>4. ~aborted
    BY <1>1 DEF HttpNext
  <2>5. CASE GoodRequestLine
    BY <2>4, <2>5, GoodRequestLineStep
  <2>6. CASE BadRequestLine
    BY <2>4, <2>6, BadRequestLineStep
  <2>7. CASE AddHeader
    BY <2>4, <2>7, AddHeaderStep
  <2>8. CASE GotAll
    BY <2>4, <2>8, GotAllStep
  <2> QED BY <1>1, <2>1, <2>2, <2>3, <2>5, <2>6, <2>7, <2>8, Zenon DEF HttpNext, HttpServer_onMessage
<1>2. CASE UNCHANGED httpVars
  <2>1. UNCHANGED <<lines, cells, buf, parsing, state_, request_, connected, responses, aborted>>
    BY <1>2, Zenon DEF httpVars
  <2>2. HttpTyped'
    BY <2>1, Zenon DEF HttpInv, HttpTyped, IsBuffer
  <2>3. PICK p \in Nat, s \in Nat : ParserAt(p, s)
    BY DEF HttpInv
  <2>4. ParserAt(p, s)'
    BY <2>1, <2>3, Zenon DEF ParserAt, StreamAt, RequestAt, MethodAt, Refused, AnswersAt, Settled,
         LineIn
  <2> QED BY <2>2, <2>4 DEF HttpInv
<1> QED BY <1>1, <1>2

(* The parser is where the lines it has taken lead it, and what has been   *)
(* answered is what every stream that begins with them asks for up to the  *)
(* request that it is at (HttpContext::parseRequest,                       *)
(* HttpServer::onMessage), for every size of the buffer and every way the  *)
(* stream is cut into chunks.                                              *)
THEOREM HttpInvariant ==
  HttpSpec => []HttpInv
<1>1. HttpInit => HttpInv
  BY HttpInitOk
<1>2. HttpInv /\ [HttpNext]_httpVars => HttpInv'
  BY HttpStepOk
<1> QED BY <1>1, <1>2, PTL DEF HttpSpec

(* The assert of HttpRequest::setMethod fails only for a line that was     *)
(* refused behind its method, on a connection that is shut down.           *)
THEOREM SetMethodFailsAfterRefusal ==
  HttpSpec => [](aborted => ~connected /\ crlf > 0 /\ Line = "bad rest")
<1>1. HttpInv => (aborted => ~connected /\ crlf > 0 /\ Line = "bad rest")
  <2> SUFFICES ASSUME HttpInv, aborted PROVE ~connected /\ crlf > 0 /\ Line = "bad rest"
    OBVIOUS
  <2>1. PICK p \in Nat, s \in Nat : ParserAt(p, s)
    BY DEF HttpInv
  <2>2. HttpTyped /\ StreamAt(p) /\ Refused(p)
    BY <2>1 DEF HttpInv, ParserAt, MethodAt
  <2>3. crlf # 0
    BY <2>2, LineFound DEF Refused
  <2>4. crlf > 0 /\ Line = lines[p + 1]
    BY <2>2, <2>3, LineFound
  <2> QED BY <2>2, <2>4 DEF Refused
<1>2. HttpSpec => []HttpInv
  BY HttpInvariant
<1> QED BY <1>1, <1>2, PTL

LEMMA PrefixOfJoin ==
  ASSUME NEW T, NEW s \in Seq(T), NEW t \in Seq(T)
  PROVE  IsPrefix(s, s \o t)
<1> DEFINE m == Len(s)
           n == Len(t)
           u == s \o t
           a == SubSeq(s, 1, m)
           b == SubSeq(u, 1, m)
<1>1. m \in Nat /\ n \in Nat
  BY LenProperties
<1>2. u \in Seq(T) /\ Len(u) = m + n /\ \A i \in 1 .. m : u[i] = s[i]
  BY Join
<1> HIDE DEF u
<1>3. m <= Len(u) /\ m <= Len(s)
  BY <1>1, <1>2
<1>4. a \in Seq(T) /\ Len(a) = m /\ \A i \in 1 .. m : a[i] = s[i]
  BY <1>1, <1>3, FirstOf
<1>5. b \in Seq(T) /\ Len(b) = m /\ \A i \in 1 .. m : b[i] = u[i]
  BY <1>1, <1>2, <1>3, FirstOf
<1> HIDE DEF a, b, m
<1>6. a = b
  BY <1>2, <1>4, <1>5, SameCells
<1> QED BY <1>3, <1>6, Zenon DEF IsPrefix, a, b, m, u

LEMMA ArrivedIs ==
  ASSUME HttpTyped, NEW CONSTANT p \in Nat, StreamAt(p)
  PROVE  /\ Arrived \in Seq(LineKinds) /\ Arrived \in Streams(lines, p)
         /\ LineIn(buf, lines, p) => Arrived \in Streams(lines, p + 1)
         /\ ~LineIn(buf, lines, p) => Len(Arrived) = p
<1>0. /\ IsBuffer(buf, LineCells) /\ cells \in Seq(LineCells) /\ lines \in Seq(LineKinds)
      /\ p <= Len(lines) /\ Framed(LineSets, Content(buf) \o cells, lines, p) /\ Len(lines) \in Nat
  BY LenProperties DEF HttpTyped, StreamAt
<1> DEFINE D == {i \in DOMAIN cells : cells[i] = LF}
<1>1. PICK a \in p .. Len(lines) :
        Cardinality(D) = Len(lines) - a /\ (a = p <=> ~LineIn(buf, lines, p))
  BY <1>0, LinesPending
<1>2. Arrived = SubSeq(lines, 1, Len(lines) - Cardinality(D))
  BY Zenon DEF Arrived
<1> HIDE DEF D
<1>3. Len(lines) - Cardinality(D) = a /\ a \in Nat /\ a <= Len(lines) /\ p <= a
  BY <1>0, <1>1
<1> DEFINE t == SubSeq(lines, 1, a)
<1>4. t \in Seq(LineKinds) /\ Len(t) = a /\ \A i \in 1 .. a : t[i] = lines[i]
  BY <1>0, <1>3, FirstOf
<1>5. Arrived = t
  BY <1>2, <1>3
<1> HIDE DEF t
<1>6. ASSUME NEW z \in Nat, z <= a
      PROVE  t \in Streams(lines, z)
  <2>1. \A j \in 1 .. z : j \in 1 .. a
    BY <1>3, <1>6
  <2> QED BY <1>4, <1>6, <2>1 DEF Streams
<1>7. LineIn(buf, lines, p) => p + 1 <= a
  BY <1>1, <1>3
<1> QED BY <1>1, <1>3, <1>4, <1>5, <1>6, <1>7

(* The answers of the server are those that the lines ask for, in their    *)
(* order, and one is late only while its request is complete in the buffer *)
(* (HttpServer::onMessage), for every stream and every cut into chunks.    *)
THEOREM HttpAnswersFollowStream ==
  HttpSpec => []AnswersFollowStream
<1>1. HttpInv => AnswersFollowStream
  <2> SUFFICES ASSUME HttpInv PROVE AnswersFollowStream
    OBVIOUS
  <2>1. PICK p \in Nat, s \in Nat : ParserAt(p, s)
    BY DEF HttpInv
  <2>2. HttpTyped /\ StreamAt(p) /\ RequestAt(p, s) /\ AnswersAt(p, s)
    BY <2>1 DEF HttpInv, ParserAt
  <2> DEFINE A == Arrived
             rest == From(A)[s]
             x == Expected(A)
  <2>3. /\ A \in Seq(LineKinds) /\ A \in Streams(lines, p)
        /\ LineIn(buf, lines, p) => A \in Streams(lines, p + 1)
        /\ ~LineIn(buf, lines, p) => Len(A) = p
    BY <2>2, ArrivedIs
  <2>4. responses \in Seq(Answers) /\ Len(A) \in Nat /\ p <= Len(A) /\ s \in 1 .. p + 1
    BY <2>2, <2>3, LenProperties DEF HttpTyped, RequestAt, Streams
  <2>5. crlf > 0 <=> LineIn(buf, lines, p)
    BY <2>2, LineFound
  <2> HIDE DEF A
  <2>6. CASE connected
    <3>1. x = responses \o rest
      BY <2>2, <2>3, <2>6 DEF AnswersAt
    <3>2. rest \in Seq(Answers)
      <4>1. s \in 1 .. Len(A) + 1
        BY <2>4
      <4> QED BY <2>4, <4>1, FromType
    <3>3. IsPrefix(responses, x)
      BY <2>4, <3>1, <3>2, PrefixOfJoin
    <3>4. ASSUME ~LineIn(buf, lines, p) PROVE x = responses
      <4>1. rest = <<>>
        <5>1. CASE state_ = "kExpectRequestLine"
          <6>1. s = Len(A) + 1
            BY <2>2, <2>3, <3>4, <5>1 DEF RequestAt
          <6> QED BY <2>4, <6>1, FromEnd
        <5>2. CASE state_ = "kExpectHeaders"
          <6>1. /\ s <= p /\ lines[s] \in Valid
                /\ \A j \in s + 1 .. p : lines[j] \in HeaderLines
            BY <2>2, <5>2 DEF RequestAt
          <6>2. Len(A) = p /\ \A j \in 1 .. p : A[j] = lines[j]
            BY <2>3, <3>4 DEF Streams
          <6>3. s \in 1 .. Len(A) /\ s \in 1 .. p /\ \A j \in s + 1 .. Len(A) : j \in 1 .. p /\ j \in s + 1 .. p
            BY <2>4, <6>1, <6>2
          <6>4. A[s] \in Valid /\ \A j \in s + 1 .. Len(A) : A[j] \in HeaderLines
            BY <6>1, <6>2, <6>3
          <6> QED BY <2>4, <6>3, <6>4, FromOpen
        <5> QED BY <2>2, <5>1, <5>2 DEF HttpTyped
      <4> QED BY <2>4, <3>1, <4>1, ConcatEmptySeq
    <3> QED BY <2>5, <3>3, <3>4, Zenon DEF AnswersFollowStream, A
  <2>7. CASE ~connected
    <3>1. PICK z \in 0 .. Len(lines) :
            (z <= p \/ (z = p + 1 /\ LineIn(buf, lines, p))) /\ Settled(z)
      BY <2>2, <2>7 DEF AnswersAt
    <3>2. A \in Streams(lines, z)
      <4>1. CASE z <= p
        <5>1. z <= Len(A) /\ \A j \in 1 .. z : j \in 1 .. p
          BY <2>4, <4>1
        <5> QED BY <2>3, <5>1 DEF Streams
      <4>2. CASE z = p + 1 /\ LineIn(buf, lines, p)
        BY <2>3, <4>2
      <4> QED BY <3>1, <4>1, <4>2
    <3>3. x = responses
      BY <3>1, <3>2 DEF Settled
    <3>4. IsPrefix(responses, responses)
      <4>1. <<>> \in Seq(Answers) /\ responses \o <<>> = responses
        BY <2>4, ConcatEmptySeq
      <4> QED BY <2>4, <4>1, PrefixOfJoin
    <3> QED BY <3>3, <3>4, Zenon DEF AnswersFollowStream, A
  <2> QED BY <2>6, <2>7
<1>2. HttpSpec => []HttpInv
  BY HttpInvariant
<1> QED BY <1>1, <1>2, PTL
=============================================================================

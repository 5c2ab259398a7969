------------------------------- MODULE Buffer -------------------------------
(***************************************************************************)
(* muduo::net::Buffer (muduo/net/Buffer.h, Buffer.cc) as operators on its  *)
(* state: the vector buffer_, whose cells are numbered from 1 here, and    *)
(* the two indexes.  The cells beyond readerIndex_ up to writerIndex_ hold *)
(* the content; the others hold whatever was there.  A cell stands for a   *)
(* byte.  Each assert is a precondition of its operator, named Can...      *)
(***************************************************************************)
EXTENDS Integers, Sequences

CONSTANTS kCheapPrepend, \* cells kept free in front of the content
          kInitialSize,
          kExtra,        \* sizeof extrabuf, the stack buffer of readFd
          Blank          \* what a cell of fresh memory holds

ASSUME BufferAssumption ==
  kCheapPrepend \in Nat /\ kInitialSize \in Nat /\ kExtra \in Nat

Fresh(n) == [i \in 1..n |-> Blank]

NewBuffer ==
  [buffer_ |-> Fresh(kCheapPrepend + kInitialSize),
   readerIndex_ |-> kCheapPrepend, writerIndex_ |-> kCheapPrepend]

readableBytes(b) == b.writerIndex_ - b.readerIndex_
writableBytes(b) == Len(b.buffer_) - b.writerIndex_
prependableBytes(b) == b.readerIndex_

(* The readable bytes, what peek() points to. *)
Content(b) == SubSeq(b.buffer_, b.readerIndex_ + 1, b.writerIndex_)

(* The cells of v from position at on are overwritten with data. *)
Overwritten(v, at, data) ==
  SubSeq(v, 1, at) \o data \o SubSeq(v, at + Len(data) + 1, Len(v))

retrieveAll(b) ==
  [b EXCEPT !.readerIndex_ = kCheapPrepend, !.writerIndex_ = kCheapPrepend]

CanRetrieve(b, len) == len <= readableBytes(b)
retrieve(b, len) ==
  IF len < readableBytes(b) THEN [b EXCEPT !.readerIndex_ = @ + len]
  ELSE retrieveAll(b)

CanUnwrite(b, len) == len <= readableBytes(b)
unwrite(b, len) == [b EXCEPT !.writerIndex_ = @ - len]

(* Faulty variant: the moved content is taken to end where it did. *)
makeSpaceKeepsEnd(b, len) ==
  IF writableBytes(b) + prependableBytes(b) < len + kCheapPrepend
  THEN [b EXCEPT !.buffer_ = @ \o Fresh(b.writerIndex_ + len - Len(b.buffer_))]
  ELSE [b EXCEPT !.buffer_ = Overwritten(@, kCheapPrepend, Content(b)),
                 !.readerIndex_ = kCheapPrepend]

(* Grow the vector, or move the content to the front. *)
makeSpace(b, len) ==
  IF writableBytes(b) + prependableBytes(b) < len + kCheapPrepend
  THEN [b EXCEPT !.buffer_ = @ \o Fresh(b.writerIndex_ + len - Len(b.buffer_))]
  ELSE [b EXCEPT !.buffer_ = Overwritten(@, kCheapPrepend, Content(b)),
                 !.readerIndex_ = kCheapPrepend,
                 !.writerIndex_ = kCheapPrepend + readableBytes(b)]

(* The assert of makeSpace, which moves the content only to the left. *)
CanMakeSpace(b, len) ==
  \/ writableBytes(b) + prependableBytes(b) < len + kCheapPrepend
  \/ kCheapPrepend < b.readerIndex_

ensureWritableBytes(b, len) ==
  IF writableBytes(b) < len THEN makeSpace(b, len) ELSE b

(* Copy data behind the content, then hasWritten: room is assumed. *)
CanWrite(b, len) == len <= writableBytes(b)
Written(b, data) ==
  [b EXCEPT !.buffer_ = Overwritten(@, b.writerIndex_, data),
            !.writerIndex_ = @ + Len(data)]

append(b, data) == Written(ensureWritableBytes(b, Len(data)), data)

CanPrepend(b, data) == Len(data) <= prependableBytes(b)
prepend(b, data) ==
  [b EXCEPT !.buffer_ = Overwritten(@, b.readerIndex_ - Len(data), data),
            !.readerIndex_ = @ - Len(data)]

shrink(b, reserve) ==
  append(ensureWritableBytes(NewBuffer, readableBytes(b) + reserve), Content(b))

(* readFd when the descriptor yields data: what does not fit goes to the   *)
(* stack buffer, used unless there is as much room as it has, and is       *)
(* appended then.                                                          *)
Readable(b) == writableBytes(b) + IF writableBytes(b) < kExtra THEN kExtra ELSE 0
readFd(b, data) ==
  LET w == writableBytes(b)
  IN  IF Len(data) <= w THEN Written(b, data)
      ELSE append(Written(b, SubSeq(data, 1, w)), SubSeq(data, w + 1, Len(data)))

(* The first position of the content at which the cells cr, lf follow each *)
(* other, 0 for none (findCRLF).                                           *)
findCRLF(b, cr, lf) ==
  LET at == {i \in 1..readableBytes(b) - 1 : Content(b)[i] = cr /\ Content(b)[i + 1] = lf}
  IN  IF at = {} THEN 0 ELSE CHOOSE i \in at : \A j \in at : i <= j
=============================================================================

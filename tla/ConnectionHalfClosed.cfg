SPECIFICATION Spec
CONSTANTS
  Uses <- HalfClosed
  Callbacks = {"writeComplete"}
  MaxSends = 1
  MsgLen = 1
  SndBuf = 1
  highWaterMark_ = 1
  MaxQueue = 2
INVARIANT RemovedUnwatched
CHECK_DEADLOCK FALSE

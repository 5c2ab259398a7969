SPECIFICATION Spec
CONSTANTS
  Uses <- OtherCloser
  Callbacks = {"writeComplete"}
  MaxSends = 1
  MsgLen = 1
  SndBuf = 1
  highWaterMark_ = 1
  MaxQueue = 2
INVARIANT ErasedOnce
CHECK_DEADLOCK FALSE

SPECIFICATION Spec
CONSTANTS
  Uses <- OtherHandler
  Callbacks = {"writeComplete"}
  MaxSends = 1
  MsgLen = 1
  SndBuf = 1
  highWaterMark_ = 1
  MaxQueue = 2
INVARIANT RemovedInactive
CHECK_DEADLOCK FALSE

SPECIFICATION Spec
CONSTANTS
  Uses <- StoppedReader
  Callbacks = {"writeComplete"}
  MaxSends = 1
  MsgLen = 1
  SndBuf = 1
  highWaterMark_ = 1
  MaxQueue = 2
INVARIANT ClosedWhileOpen
CHECK_DEADLOCK FALSE

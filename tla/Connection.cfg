SPECIFICATION FairSpec
CONSTANTS
  Uses <- MCUses
  Callbacks = {"writeComplete", "highWaterMark"}
  MaxSends = 2
  MsgLen = 2
  SndBuf = 1
  highWaterMark_ = 2
  MaxQueue = 2
INVARIANTS WireInOrder WritingIffPending UpThenDown NoAssertFails CompletionIsNotified
PROPERTIES ShutdownCompletes DownIsDestroyed
CHECK_DEADLOCK FALSE

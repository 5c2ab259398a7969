SPECIFICATION MCSpec
CONSTANTS
  Workers = {w1, w2}
  Producers = {p1, p2}
  Submitters = {p1, p2}
  Tasks = {t1, t2, t3, t4}
  maxQueueSize_ = 2
  None = none
  MaxMsgs = 8
  BufferSize = 2
  MaxBacklog = 3
  MaxClock = 1
  rollSize_ = 3
  flushInterval_ = 0
  checkEveryN_ = 2
  kRollPerSeconds_ = 2
INVARIANTS NoStrandedTask NoStrandedSubmitter NothingLostOrReordered StopWritesWhatWasThere
PROPERTIES ExecutorSpec NobodyWaitsForever AppendedIsWritten StopReturns
CHECK_DEADLOCK FALSE

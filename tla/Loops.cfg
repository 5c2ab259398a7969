SPECIFICATION MCSpec
CONSTANTS
  Callers = {c1, c2}
  LoopThread = loop
  Functors = {f1, f2, f3}
  Channels = {io}
  WakeupChannel = wakeup
  Adders = {t1}
  Addrs = {a1, a2}
  MaxTimers = 2
  MaxClock = 3
  Whens = {0, 2, 3}
  Intervals = {0, 1}
  MaxQueue = 2
  numThreads_ = 3
  UserQuits = {1, 3}
  MaxServed = 2
INVARIANTS
  NoLostWakeup
  IndexesAgree OneOwner NeverSleepsPastTimer DroppedStaysOut
  HandedOutAlive QuitOnLiveLoop
PROPERTIES
  ExecutorSpec QueuedIsRun QuitLeavesLoop
  ScheduledIsServed
  StartAndJoinReturn
CHECK_DEADLOCK FALSE

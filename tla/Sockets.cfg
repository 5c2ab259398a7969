SPECIFICATION MCSpec
CONSTANTS
  Acc = Acc
  Conns = {c1, c2, c3}
  MaxFd = 4
  MaxBacklog = 1
  Risks = {}
  Interests = {{}, {"read"}, {"read", "write"}}
  kInitRetryDelayMs = 1
  kMaxRetryDelayMs = 3
  Inside = {"connect", "stop", "disconnect"}
  Outside = {"connect", "disconnect"}
  Again = {}
  ClientRisks = {}
  retry_ = TRUE
  Outcomes = {"inprogress", "refused", "fatal"}
  MaxConnects = 1
  MaxCalls = 3
INVARIANTS
  WatchedAsAsked ClosesItsOwn AssertsHold
  NoAssertFails OneAttempt NeverGivesUp StopHereIsFinal
PROPERTY AcceptsOrRefuses
CHECK_DEADLOCK FALSE

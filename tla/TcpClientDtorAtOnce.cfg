SPECIFICATION ClientSpec
CONSTANTS
  kInitRetryDelayMs = 1
  kMaxRetryDelayMs = 3
  Inside = {"connect", "stop", "disconnect"}
  Outside = {"connect", "disconnect"}
  Again = {}
  ClientRisks = {"dtorAtOnce"}
  retry_ = TRUE
  Outcomes = {"inprogress", "refused", "fatal"}
  MaxConnects = 1
  MaxCalls = 3
INVARIANT DeletedWithoutChannel

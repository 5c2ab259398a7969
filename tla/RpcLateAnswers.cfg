SPECIFICATION Spec
CONSTANTS
  c1 = "c1"
  c2 = "c2"
  Calls <- MCCalls
  Method <- MCMethod
  Services <- LateAnswers
  Foreign <- MCForeign
  kCheapPrepend = 2
  kInitialSize = 3
  kExtra = 7
  Chunks = {3}
  Blank = Blank
  kMaxMessageLen = 6
INVARIANTS ClosureHasChannel
CHECK_DEADLOCK FALSE

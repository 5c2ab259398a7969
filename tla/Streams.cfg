SPECIFICATION MCSpec
CONSTANTS
  c1 = "c1"
  c2 = "c2"
  Calls <- MCCalls
  Method <- MCMethod
  Services <- MCServices
  Foreign <- MCForeign
  kCheapPrepend = 2
  kInitialSize = 3
  kExtra = 7
  Chunks = {3}
  Blank = Blank
  kMaxMessageLen = 6
  Lines = {"HTTP/1.1", "HTTP/1.0", "nowhere HTTP/1.1", "bad rest", "Connection: close", "Connection: Keep-Alive", ""}
  httpCallback_ <- TestCallback
  MaxLines = 4
INVARIANTS AnsweredOnce DispatchedAsSent AnswersFollowStream
PROPERTIES CallsComplete
CHECK_DEADLOCK FALSE

SPECIFICATION HttpSpec
CONSTANTS
  Lines = {"HTTP/1.1", "HTTP/1.0", "nowhere HTTP/1.1", "bad rest", "Connection: close", "Connection: Keep-Alive", ""}
  httpCallback_ <- TestCallback
  MaxLines = 5
  kCheapPrepend = 1
  kInitialSize = 2
  kExtra = 5
  Blank = "blank"
INVARIANTS MethodSetOnce
CHECK_DEADLOCK FALSE

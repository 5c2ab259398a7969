SPECIFICATION Spec
CONSTANTS
  Acc = Acc
  Conns = {c1, c2, c3}
  MaxFd = 4
  MaxBacklog = 1
  Risks = {"unlistened"}
  Interests = {{}, {"read"}, {"read", "write"}}
INVARIANTS AssertsHold
CHECK_DEADLOCK FALSE

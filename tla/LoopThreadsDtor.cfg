SPECIFICATION PoolFairSpec
CONSTANTS
  numThreads_ = 1
  UserQuits = {}
  MaxServed = 1
PROPERTY DtorReturns
CHECK_DEADLOCK FALSE

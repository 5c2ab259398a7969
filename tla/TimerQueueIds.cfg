SPECIFICATION TimerSpec
CONSTANTS
  Adders = {t1}
  Addrs = {a1, a2}
  MaxTimers = 2
  MaxClock = 3
  Whens = {0, 2}
  Intervals = {0}
  MaxQueue = 2
SYMMETRY AddrSymmetry
INVARIANT IdNamesItsTimer

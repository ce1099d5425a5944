CONSTANTS
  WaitTimers = {w1}
  Quantum = q
  Motor = m
  DriverThreads = {d1, d2}
  Delays = {0, 1, 3}
  Intervals = {1}
  kQuantum = 2
  kMaxTimerInterval = 2
  MaxLatency = 2
SPECIFICATION Spec
INVARIANTS
  CancelIsSafe

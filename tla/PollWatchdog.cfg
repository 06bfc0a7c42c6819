CONSTANTS
  N = 2
  HotBlocks = 1
  ColdBlocks = 1
  RetryAttempts = 1
  WorkerTimeout = 56
  WatchdogSec = 120
  FailCap = 5
  Wedgeable <- Both
SPECIFICATION Spec
INVARIANT WatchdogFed

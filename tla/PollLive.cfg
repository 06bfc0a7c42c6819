CONSTANTS
  N = 1
  HotBlocks = 2
  ColdBlocks = 1
  RetryAttempts = 2
  WorkerTimeout = 56
  WatchdogSec = 120
  FailCap = 5
  Wedgeable <- OnlyFirst
SPECIFICATION FairSpec
PROPERTIES KeepsBeating StopPersists

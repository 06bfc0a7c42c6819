CONSTANTS
  PackCount = 2
  FastInterval = 1
  SlowInterval = 2
  StaleTimeout = 1
  MaxGap = 2
  SaveEvery = 2
  MaxFailed = 2
  InitialBackoff = 1
  MaxBackoff = 2
SPECIFICATION FairSpec
INVARIANTS FrozenBounded UnsavedBounded
PROPERTIES ZombieLeaves StopExits ThreadImplemented

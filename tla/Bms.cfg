CONSTANTS
  Packs = {1, 2}
  Attempts = 3
  MaxFrames = 2
SPECIFICATION BmsSpec
INVARIANTS InStep CleanStop FileWhole StoppedIsOffline
PROPERTIES PollEnds StopReturns
CHECK_DEADLOCK FALSE

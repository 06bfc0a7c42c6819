CONSTANTS
  Blocks <- Ours
  LcdBlocks <- Lcd
  Count <- SharedCounts
  Slaves = {1, 2}
  OurSlave = 1
  MaxPieces = 6
  MaxOwed = 2
SPECIFICATION Spec
INVARIANTS TypeOK OnlyUnpaired NothingLost

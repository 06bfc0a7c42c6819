CONSTANTS
  MaxWire = 5
  N = 2
  Half = 8
  HotReadings <- MCHot
  ColdReadings <- MCCold
  PackCount = 2
  PackReadings <- MCPacks
  TempReadings <- MCTemps
  MaxLost = 2
SPECIFICATION PublisherSpec
INVARIANTS GoneIsOffline SiteAgrees OutIsMeasured BankAddsUp
PROPERTIES BackOnline CrashShows StopEnds

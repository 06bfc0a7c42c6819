CONSTANTS
  battery = battery
  pv = pv
  Signed <- SignedSignals
  Unsigned <- UnsignedSignals
  MaxElapsed = 2
  MaxClock = 3
SPECIFICATION Spec
INVARIANTS TypeOK AlwaysWhole NoDoubleCount CleanStopKeeps
PROPERTIES NeverBackwards AtomicSave

CONSTANTS
  MaxTx = 2
  MaxCrashes = 0
  Attempts = 3
  FaultSets <- Blind
  NoReading = NoReading
SPECIFICATION Spec
INVARIANT
  NeverSpentTwice
CHECK_DEADLOCK FALSE

CONSTANTS
  MaxTx = 4
  MaxCrashes = 2
  Attempts = 3
  FaultSets <- OneSourceToTrust
  NoReading = NoReading
SPECIFICATION FairSpec
INVARIANT
  TypeOK
  NeverSpentTwice
  SpendOnRecord
  DoneCountsTheFill
PROPERTY
  KeepsThePromise
  RowSettles
CHECK_DEADLOCK FALSE

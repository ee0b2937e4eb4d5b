CONSTANTS
  w1 = w1
  w2 = w2
  w3 = w3
  Wallet <- Three
  Dust <- Nobody
  Bad <- JustW3
  MaxTx = 2
  MaxCrashes = 2
  MaxAttempts = 2
  FaultSets <- Documented
SPECIFICATION FairSpec
INVARIANT
  PaidOnce
PROPERTY
  RowsKeepThePromise
  RowsSettle
CHECK_DEADLOCK FALSE

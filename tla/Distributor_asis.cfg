CONSTANTS
  w1 = w1
  w2 = w2
  w3 = w3
  Wallet <- Pair
  Dust <- Nobody
  Bad <- Nobody
  MaxTx = 2
  MaxCrashes = 1
  MaxAttempts = 2
  FaultSets <- AsIs
SPECIFICATION Spec
INVARIANT
  PaidOnce
CHECK_DEADLOCK FALSE

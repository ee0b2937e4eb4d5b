CONSTANTS
  m1 = m1
  m2 = m2
  w1 = w1
  w2 = w2
  Mint <- OneMint
  Wallet <- TwoWallets
  Weight <- Even
  Fills <- Odd
  HazardSets <- Weathered
  MaxRounds = 3
  MaxCrashes = 1
  MaxRetries = 2
SPECIFICATION FairSpec
INVARIANT
  BooksBalance
  EveryTransferIsFunded
PROPERTY
  HistoryStands
  RoundsFinish
CHECK_DEADLOCK FALSE

CONSTANTS
  a = a
  b = b
  c = c
  d = d
  w1 = w1
  w2 = w2
  Wallet <- Wallets
  Mint <- Mints
  Rank <- ByCap
  Symbol <- ByTicker
  Whole = 10
  MinPicks = 2
  MaxPicks = 4
  MinPct = 2
  MaxPct = 6
  Supply = 7
  EligibleBps = 3000
  Excluded <- Nobody
  Rent = 2
  Fee = 1
  BatchSize = 1
  Reserve = 3
  MinPool = 0
  Menu <- Baskets
  Liquid <- Lists
  UniverseSize = 4
  Settings <- DefaultBaskets
  Spreads <- Trades
  Incomes <- Money
  Fills <- Fill5
  Failures <- Fails
  MaxRounds = 2
  MaxChanges = 1
SPECIFICATION Spec
INVARIANT
  PlanIsFair
  RebuildAgrees
PROPERTY
  ReserveIsKept
CHECK_DEADLOCK FALSE

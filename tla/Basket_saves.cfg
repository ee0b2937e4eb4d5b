CONSTANTS
  None = none
  Tops <- MCTops
  MinPicks = 2
  MaxPicks = 3
  MinPct = 10
  MaxPct = 60
  DefaultSize = 3
  Percents = {33}
  MaxEdits = 1
  MaxSaves = 1
  MaxMishaps = 2
SPECIFICATION Spec
INVARIANT
  StoredIsABasket
  RefusedForAReason
  BalanceReaches
PROPERTY
  PageAgrees
CHECK_DEADLOCK FALSE

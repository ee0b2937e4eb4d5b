CONSTANTS
  Accounts = {a, b}
  Nobody = nobody
  NonceTTL = 1
  SessionTTL = 2
  NonceMax = 1
  NonceWindow = 1
  KeepSecret = FALSE
  MaxTime = 2
  MaxClicks = 1
  MaxCrashes = 1
  MaxMishaps = 3
SPECIFICATION MCSpec
INVARIANT
  TokensAreEarned
PROPERTY
  SignInEnds
  EndOfSessionIsShown
CHECK_DEADLOCK FALSE

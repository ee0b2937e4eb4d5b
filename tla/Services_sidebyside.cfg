SPECIFICATION MCSpec
CONSTANTS
  Visitors = {v, w}
  Hour = 2
  Attempts = 2
  MaxListCrashes = 1
  Kinds = {"distributed"}
  Retriable = {"distributed"}
  MaxRounds = 4
  MaxRetries = 1
  MaxTrouble = 1
  Page = 2
  MaxPages = 2
  StillPages = TRUE
  ann = ann
  bob = bob
  Owners <- MCOwners
  Plain <- MCPlain
  Parts <- MCParts
  MostOf = 2
  PageSize = 2
  MaxReadPages = 2
  CallAttempts = 2
  PageRows = 1
  MaxMarks = 2
  OldRounds = 1
  MaxUpsets = 1
  MaxClicked = 1
  MaxAlike = 1
INVARIANT
  LabelIsHonest
  TotalsAreTheLedger
  SnapshotIsWhole
  NothingIsSent
  ReadyIsEarned
PROPERTY
  FreshAgain
  PageCatchesUp
CHECK_DEADLOCK FALSE

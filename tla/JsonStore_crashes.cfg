CONSTANTS
  MaxRounds = 3
  MaxWrites = 6
  Finished <- Again
  MaxCrashes = 2
  MaxErrors = 1
SPECIFICATION FairSpec
INVARIANT
  AnswersAreDurable
  IndexKeepsStep
PROPERTY
  KeeperMovesOn
CHECK_DEADLOCK FALSE

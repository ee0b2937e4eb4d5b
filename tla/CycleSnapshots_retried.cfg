CONSTANTS
  Rounds = 3
  Following <- ThreeRounds
  MaxReadings = 6
  Failures = TRUE
  Overlap = FALSE
SPECIFICATION CycleSpec
INVARIANT
  WeighedByTheCycle
PROPERTY
  OpenIsKept
CHECK_DEADLOCK FALSE

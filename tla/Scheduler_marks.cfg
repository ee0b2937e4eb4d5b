CONSTANTS
  Interval = 4
  Day = 7
  Jitters <- Around
  WindowWanted = 3
  Longest = 1
  MaxTime = 10
  MaxCrashes = 1
  MaxUpsets = 1
SPECIFICATION Spec
INVARIANT
  MarkRunsOnce
  OneRoundAtATime
  NeverStuck
  OpenBeforeClose
  EveryMarkIsRun
CHECK_DEADLOCK FALSE

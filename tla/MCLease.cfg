SPECIFICATION FairSpec
CONSTANTS
  Readers = {r1, r2}
  Writers = {w}
  BreakTime = 3
  Durations = {1, 2, 4}
  MaxRuns = 3
  MaxOpens = 3
INVARIANTS NeverKilled KnockHeard
PROPERTIES DelaysOpens KnockRunsCommand
CHECK_DEADLOCK FALSE

SPECIFICATION FairSpec
CONSTANTS
  Cap = 4
  Sec = 2
  Jitter = 1
  NatTimeouts = {1, 3, 9, 12}
  MaxSpoiled = 1
  Slack = 2
  MaxLost = 1
  MaxDup = 1
  MaxFaults = 1
INVARIANTS CleanStart
PROPERTIES OwnReplies ImplementsSearch EveryTryCounts ProbeEnds
CHECK_DEADLOCK FALSE

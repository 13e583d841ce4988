SPECIFICATION Spec
CONSTANTS
  Cap = 8
  Sec = 1
  Jitter = 0
  NatTimeouts = {1, 3, 5}
  MaxSpoiled = 1
  Slack = 2
  MaxLost = 0
  MaxDup = 1
  MaxFaults = 1
INVARIANT PrintsWorkingDelay
CHECK_DEADLOCK FALSE

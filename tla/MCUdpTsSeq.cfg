SPECIFICATION Spec
CONSTANTS
  Ids = {p}
  Session = p
  Forget = 2
  IPs = {i1, i2}
  Ports = {2, 6}
  ByteSize = 4
  Skews = {0, 2}
  OutageTicks = 4
  MaxDelay = 1
  MaxSent = 5
  MaxLost = 2
  MaxRebinds = 1
  MaxRestarts = 1
INVARIANTS DelaysRight TotalLossRight SplitRight NoFalseNotices NoFalseOutage
CHECK_DEADLOCK FALSE

SPECIFICATION Spec
CONSTANTS
  Ids = {p}
  Session = p
  Forget = 2
  IPs = {i1}
  Ports = {2}
  ByteSize = 4
  Skews = {0}
  OutageTicks = 4
  MaxDelay = 1
  MaxSent = 6
  MaxLost = 3
  MaxRebinds = 0
  MaxRestarts = 0
INVARIANT MeasuresLoss
CHECK_DEADLOCK FALSE

SPECIFICATION FairSpec
CONSTANTS
  Ports = {"p", "q"}
  Controller = "ctl"
  Addrs = {"p", "q", "ctl"}
  Payloads = {"dim", "bright", "stderr"}
  Commands = {"dim", "bright", "stderr"}
  FdOf <- MCFdOf
  NoAddr = "none"
  NoCommand = "nothing"
  MaxQueue = 2
  Period = 2
  NatTimeout = 2
  NatKinds = {FALSE, TRUE}
  MaxPerSecond = 3
  MaxLost = 1
  MaxRestarts = 1
  MaxStops = 1
  MaxFaults = 2
INVARIANTS InSync Overtaking StopsOnlyDamaged
PROPERTIES KeepsUsedMapping MissedForCause Reconnects
CHECK_DEADLOCK FALSE

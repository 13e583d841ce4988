SPECIFICATION SearchSpec
CONSTANTS
  Cap = 16
  Sec = 2
  Jitter = 1
  NatTimeouts = {0, 1, 4, 9, 17, 23, 30, 40}
  MaxSpoiled = 3
INVARIANTS NeverOverestimates MiddleHidesOneLoss BadResultsBounded
CHECK_DEADLOCK FALSE

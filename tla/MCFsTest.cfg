SPECIFICATION FairSpec
CONSTANTS
  ByteBits = {b}
  PosBits = 2
  Size = 4
  MaxBlock = 3
  MaxChain = 2
  NumIterations = 1
  InitialSizes = {0, 2, 5}
  MaxFlips = 1
INVARIANTS SumsMatchFile NoFalseAlarm SingleFlipDetected
PROPERTIES ResidueConserved EveryCallCounts Terminates
CHECK_DEADLOCK FALSE

SPECIFICATION Spec
CONSTANTS
  ByteSize = 8
  Group = 4
  MaxGroups = 4
  Word = 64
  Shifts <- MCShifts
  Files <- MCFiles
  Flags <- MCFlags
INVARIANTS HeaderRight RoundTrip EscapeInv
CHECK_DEADLOCK FALSE

SPECIFICATION Spec
CONSTANTS
  BufSize = 6
  NumTerminals = 2
  ReadSizes <- Long
  MaxKeys = 8
  MaxMidRead = 0
INVARIANT EveryReadNeedsEnter
CHECK_DEADLOCK FALSE

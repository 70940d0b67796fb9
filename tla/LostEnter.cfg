SPECIFICATION FairSpec
CONSTANTS
  BufSize = 6
  NumTerminals = 1
  ReadSizes <- Long
  MaxKeys = 5
  MaxMidRead = 1
PROPERTY EnterUnblocks
CHECK_DEADLOCK FALSE

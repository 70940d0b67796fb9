SPECIFICATION FairSpec
CONSTANTS
  BufSize = 6
  NumTerminals = 2
  ReadSizes <- ShortAndLong
  MaxKeys = 5
  MaxMidRead = 5
INVARIANTS TypeOK LocationInBounds ReadNeedsEnter
PROPERTIES LineIsDelivered ImplementsDiscipline EnterEndsLine
CHECK_DEADLOCK FALSE

SPECIFICATION FairSpec
CONSTANTS
  Keys <- MCKeys
  MaxKeys = 3
  MaxNested = 2
INVARIANTS HandlersServe RateIsSet KeysMeanWhatIsHeld
PROPERTIES TicksKeepComing
CHECK_DEADLOCK FALSE

SPECIFICATION Spec
CONSTANTS
  MaxProcs = 3
  NumTerminals = 2
  FKeys <- TwoTerminals
  CtrlCPressed = FALSE
  MaxMidKernel = 1
INVARIANT NeverAboveLimit
CHECK_DEADLOCK FALSE

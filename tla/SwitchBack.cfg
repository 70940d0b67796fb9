SPECIFICATION Spec
CONSTANTS
  MaxProcs = 4
  NumTerminals = 3
  FKeys <- AllTerminals
  CtrlCPressed = FALSE
  MaxMidKernel = 0
INVARIANT RunsCurrentProcess
CHECK_DEADLOCK FALSE

SPECIFICATION Spec
CONSTANTS
  MaxProcs = 4
  NumTerminals = 3
  FKeys <- OneTerminal
  CtrlCPressed = TRUE
  MaxMidKernel = 1
INVARIANT GlobalsAgree
CHECK_DEADLOCK FALSE

SPECIFICATION Spec
CONSTANTS
  MaxProcs = 3
  NumTerminals = 3
  FKeys <- AllTerminals
  CtrlCPressed = TRUE
  MaxMidKernel = 0
INVARIANTS GlobalsAgree TerminalsKeepAShell ReadsActiveTerminal
CHECK_DEADLOCK FALSE

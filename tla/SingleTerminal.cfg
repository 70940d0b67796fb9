SPECIFICATION FairSpec
CONSTANTS
  MaxProcs = 10
  NumTerminals = 3
  FKeys <- OneTerminal
  CtrlCPressed = TRUE
  MaxMidKernel = 0
INVARIANTS TypeOK NeverWild TotalIsPidPlusOne RunsCurrentProcess AncestorsWaiting
PROPERTIES ImplementsProgramStack HaltResumesParent ExceptionReported KernelReturns

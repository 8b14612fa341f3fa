CONSTANTS
  METHOD = 2
  FAULTED = TRUE
  MAX_TIMES = 0
  FAULT_STEP = 0
  ForkMayFail = FALSE
  DumpMayFail = FALSE
  NoImage = NoImage
SPECIFICATION FairSpec
PROPERTY EveryWaitEnds
CHECK_DEADLOCK FALSE

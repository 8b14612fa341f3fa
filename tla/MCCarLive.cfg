CONSTANTS
  METHOD = 2
  FAULTED = TRUE
  MAX_TIMES = 1
  FAULT_STEP = 0
  ForkMayFail = FALSE
  DumpMayFail = FALSE
  NoImage = NoImage
SPECIFICATION FairSpec
PROPERTIES Finishes ImplementsFairHandshake
CHECK_DEADLOCK FALSE

CONSTANTS
  METHOD = 3
  FAULTED = TRUE
  MAX_TIMES = 3
  FAULT_STEP = 1
  ForkMayFail = FALSE
  DumpMayFail = FALSE
  NoImage = NoImage
SPECIFICATION Spec
INVARIANTS NeedMeansWaiting CompulsiveImage OnlySpeedSaved TimesBounded
PROPERTY TimesMonotone
CHECK_DEADLOCK FALSE

CONSTANTS
  METHOD = 2
  FAULTED = FALSE
  MAX_TIMES = 2
  FAULT_STEP = 1
  ForkMayFail = TRUE
  DumpMayFail = TRUE
  NoImage = NoImage
SPECIFICATION Spec
INVARIANTS TypeOK FaultIsFatal DefaultNeverFinishes RunsOnFreshData
PROPERTIES ImplementsHandshake ComesNearer
CHECK_DEADLOCK FALSE

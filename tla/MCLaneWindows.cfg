SPECIFICATION Spec
CONSTANTS
  WIDTH = 24
  HALF = 2
  WINDOWS = 4
  BLANK = 3
  NOWHERE = 40
INVARIANTS TypeOK InRow LanesApart
CHECK_DEADLOCK FALSE

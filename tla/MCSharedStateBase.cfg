CONSTANTS
  Part = {camera, speed}
  Program = "recoverybase"
  MaxRuns = 3
SYMMETRY Symmetry
SPECIFICATION Spec
INVARIANTS TypeOK NoBusError OwnState
CHECK_DEADLOCK FALSE

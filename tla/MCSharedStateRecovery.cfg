CONSTANTS
  Part = {camera, speed, servoPID, throttlePID, remote}
  Program = "recovery"
  MaxRuns = 1
SYMMETRY Symmetry
SPECIFICATION Spec
INVARIANT NoBusError
CHECK_DEADLOCK FALSE

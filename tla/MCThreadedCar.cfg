SPECIFICATION Spec
CONSTANTS
  FULL = 8
  RES = 2
  CORR = 7
  THRESH = 5
  SAMPLES = 2
  Turn <- MCTurn
  Garbled = {0}
  LIMIT = 4
  GainP = 1
  GainI = 1
  TargetSpeed = 1
INVARIANTS TypeOK Accurate NeverExits Straight
PROPERTIES ErrorStays ThrottleFallsBack SpeedKeepsComing
CHECK_DEADLOCK FALSE

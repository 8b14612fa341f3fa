CONSTANTS
  HALF = 25
  SEC = 3
  INTERVAL = 2
  MaxCycle = 12
  MaxTurn = 3
  MaxNow = 60
SPECIFICATION Spec
INVARIANTS TypeOK AverageInRange BlindForHalfTheRange
PROPERTY IntervalSeen
CHECK_DEADLOCK FALSE

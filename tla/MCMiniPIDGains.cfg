CONSTANTS
  Calls = {"setOutputLimits", "setPID"}
  Gain = {1}
  GainI = {0, 1}
  Reading = {0, 1, 3}
  Limit <- MCLimit
  Rate = {0}
  Strength = {0, 1}
  WHOLE = 2
  MaxChanges = 3
  SumBound = 4
SPECIFICATION Spec
PROPERTY ErrorsAccumulate
CHECK_DEADLOCK FALSE

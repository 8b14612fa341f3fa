CONSTANTS
  Calls = {"setP", "setD", "setF", "setI", "setPID", "setMaxIOutput",
           "setOutputLimits", "setDirection", "setSetpoint",
           "setOutputRampRate", "setSetpointRange", "setOutputFilter", "reset"}
  Gain = {1}
  GainI = {1, 2}
  Reading = {0, 3}
  Limit = {0, 2, 4}
  Rate = {0, 1}
  Strength = {0, 1}
  WHOLE = 2
  MaxChanges = 3
  SumBound = 3
SPECIFICATION Spec
INVARIANT TypeOK
PROPERTIES MaxErrorKept SmoothGain NoWindup OutputRestricted
CHECK_DEADLOCK FALSE

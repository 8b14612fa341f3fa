SPECIFICATION Spec
CONSTANTS
  Channel = {"throttle", "servo"}
  Value <- MCValue
  BYTE = 4
  NIBBLE = 2
  Presc = {30, 101}
  Rate60 = 101
  MaxCrashes = 2
INVARIANTS TypeOK Settled BoardRuns
PROPERTIES NoSurge ImplementsBoard
CHECK_DEADLOCK FALSE

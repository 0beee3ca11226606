SPECIFICATION Spec
CONSTANTS
  LbNum = 4
  LbSize = 4
  LpNum = 3
  LpSize = 2
  AvgLen = 2
  Lengths = {1, 2}
  GcThreshold = 0
  MaxSectors = 2
INVARIANTS
  NoSizeViolation
CHECK_DEADLOCK FALSE

SPECIFICATION Spec
CONSTANTS
  LbNum = 3
  LbSize = 6
  LpNum = 2
  LpSize = 3
  AvgLen = 1
  Lengths = {1, 2, 3}
  GcThreshold = 2
  MaxSectors = 3
INVARIANTS
  RoomExact
  LiveExtentsDisjoint
  RevMapCovers
  ClosedIsDestaged
  NeverFails
PROPERTIES
  VictimReclaimed
CONSTRAINT UpToLoneRewrite
VIEW LiveState

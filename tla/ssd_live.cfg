SPECIFICATION FairSpec
CONSTANTS
  LpNum = 3
  PgNum = 4
  PgPbNum = 1
  PgCwNum = 3
  SectsPerLp = 1
  SectsPerPp = 1
  OpenPgNum = 1
  RcmTh = 1
  MaxErase = 2
  MaxRewr = 2
  NoPG = NoPG
PROPERTIES
  GcTerminates
  VictimsReleased

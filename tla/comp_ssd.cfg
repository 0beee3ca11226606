SPECIFICATION CompSpec
CONSTANTS
  LpNum = 3
  PgNum = 5
  PgPbNum = 1
  PgCwNum = 6
  SectsPerLp = 2
  SectsPerPp = 3
  OpenPgNum = 1
  RcmTh = 60
  MaxErase = 2
  MaxRewr = 2
  NoPG = NoPG
  BufferedPageNum = 2
  Lengths = {1, 2}
  FormatLen = 1
  AlignToPp = TRUE
  ReadBatch = 3
INVARIANTS
  CompAccounting
  CompNoPageMissed
  VictimsWaitForBuffer
  RcmReadCostBounded
VIEW UpToPgNames

SPECIFICATION WlSpec
CONSTANTS
  LpNum = 3
  PgNum = 7
  PgPbNum = 2
  PgCwNum = 3
  SectsPerLp = 1
  SectsPerPp = 1
  OpenPgNum = 3
  RcmTh = 1
  MaxErase = 2
  MaxRewr = 2
  NoPG = NoPG
  WlNum = 3
  WlType = "WL_ROUNDROBIN"
  RcmMod = 3
  MaxPgnum = 3
  MaxRcm = 3
INVARIANTS
  SlotMatchesAttr
  PgnumCovers
CONSTRAINT Bounded
VIEW UpToPgNames
CHECK_DEADLOCK FALSE

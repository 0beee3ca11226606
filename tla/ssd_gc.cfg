SPECIFICATION LinkSpec
CONSTANTS
  LpNum = 5
  PgNum = 5
  PgPbNum = 2
  PgCwNum = 3
  SectsPerLp = 1
  SectsPerPp = 1
  OpenPgNum = 1
  RcmTh = 1
  MaxErase = 2
  MaxRewr = 2
  NoPG = NoPG
INVARIANTS
  SsdTypeOK
  Accounting
  SectorsDisjoint
  PlaceMatchesStatus
  NoPageMissed
  RewritesAreCurrent
  NeverFails
  LinksMatchQueue
PROPERTIES
  VictimIsEmptiest
  GcReturnsWithReserve
  ImplementsLog
  ImplementsCounts
VIEW UpToPgNames

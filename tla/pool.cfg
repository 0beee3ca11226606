SPECIFICATION Spec
CONSTANTS
  BYTES_PER_SECTOR = 2
  SECTS_PER_PP = 2
  PP_PER_PB = 1
  Geometries <- MCGeometries
  PgPbNum = 3
  MaxErase = 2
  MaxEraseReg = 3
  NoPB = NoPB
INVARIANTS
  BlocksExact
  AddressesExact
PROPERTIES
  SearchesFindBlocks
  ImplementsCounts

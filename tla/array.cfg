SPECIFICATION ArraySpec
CONSTANTS
  DriveLists <- MCDriveLists
  StripeSize = 4
  MaxSectors = 13
  LpNum = 6
  SectsPerLp = 2
INVARIANTS
  DataAtHome
  ParityFollowsData
  DrivePagesExact
  PagesReachDrives

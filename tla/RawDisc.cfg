SPECIFICATION DiscFairSpec
CONSTANTS
  Kinds <- AllKinds
  SectorSize = 2
  CdSize = 7
  DataSize = 4
  Header = 1
  CD_CACHE_SIZE = 2
  DetectSize = 4
  sections <- TwoFragments
  Requests <- SomeRequests
  MaxGen = 1
  MaxFails = 2
INVARIANTS DataRight CdCacheRight
PROPERTIES Answered

SPECIFICATION SupportSpec
CONSTANTS
  t1 = t1
  t2 = t2
  Threads <- MCThreads
  Requests <- MCRequests
  SizeLimit = 256
  RedzoneSize = 4
  CanarySize = 2
  WordSize = 2
  NormalMeta <- MCNormalMeta
  EnhancedMeta <- MCEnhancedMeta
  ZoneSize = 92
  PageSize = 32
  Distances = {1, 6, 25}
  StrayBound = 1
  c1 = c1
  c2 = c2
  c3 = c3
  a1 = a1
  a2 = a2
  a3 = a3
  Callers <- MCCallers
  Allocations <- MCAllocations
  Bytes <- MCBytes
  Entries = {1, 2, 3}
  Capacity = 3
  NoEntry = 0
CHECK_DEADLOCK FALSE
INVARIANTS
  RangesDisjoint
  PagesCommitted
  SectionsFit
  GuardsReport
  PeakIsMaximum
PROPERTIES
  RefinesViolations

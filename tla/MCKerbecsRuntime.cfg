SPECIFICATION FairSpec
CONSTANTS
  t1 = t1
  t2 = t2
  dynamic1 = dynamic1
  dynamic2 = dynamic2
  static = static
  b1 = b1
  b2 = b2
  bs = bs
  Null = null
  Threads <- MCThreads
  Regions <- MCRegions
  Statics = {static}
  Spared = {}
  Blocks <- MCBlocks
  RegionOf <- MCRegionOf
  TableCapacity = 2
  ZoneAreas = 3
  MappingBound = 2
CHECK_DEADLOCK FALSE
INVARIANTS
  TypeOK
  UsersMapped
  UpOrDown
  NothingLost
  ResolveFindsOwner
PROPERTIES
  CallsReturn

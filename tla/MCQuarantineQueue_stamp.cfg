SPECIFICATION Spec
CONSTANTS
  p1 = p1
  p2 = p2
  p3 = p3
  r1 = r1
  r2 = r2
  b1 = b1
  b2 = b2
  b3 = b3
  Drain = drain
  Null = null
  Producers <- MCTwoProducers
  Regions <- MCOneRegion
  Blocks <- MCTwoBlocks
  RegionOf <- MCOneRegionOf
  Capacity = 2
  TailBound = 3
  EpochBound = 3
CHECK_DEADLOCK FALSE
INVARIANTS
  TwoEpochs

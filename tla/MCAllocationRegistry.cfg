SPECIFICATION Spec
CONSTANTS
  t1 = t1
  t2 = t2
  b1 = b1
  b2 = b2
  b3 = b3
  k1 = k1
  k2 = k2
  Drainer = drainer
  Null = null
  Clients <- MCClients
  MaxObjects = 2
  Policies = {"Strict", "Flexible"}
  Bases <- MCThreeBases
  Buckets = {k1, k2}
  BucketOf <- MCTwoBuckets
  NodeCapacity = 3
  CursorBound = 3
SYMMETRY MCSymmetry
INVARIANTS
  TypeOK
  AtMostOneTracked
  GenerationsIncrease
  RetiringIsExclusive
  EndFindsOwnNode
  LiveCountConsistent
  CustodyMatchesState
  RetireSucceeds
  CountMatches

SPECIFICATION FairSpec
CONSTANTS
  t1 = t1
  t2 = t2
  b1 = b1
  out = out
  Null = null
  Clients <- MCClients
  Blocks <- MCBlocks
  Outside = {out}
  NodeCapacity = 3
  MaxObjects = 2
  Policies = {"Strict", "Flexible"}
  Careful = TRUE
INVARIANTS
  TypeOK
  CheckSound
  AliveUsable
  ShadowMatches
  BlockInOneHand
  SingleObjectDestroyed
PROPERTIES
  RefinesLifecycle
  DestroyedReleased

SPECIFICATION Spec
CONSTANTS
  t1 = t1
  t2 = t2
  b1 = b1
  out = out
  Null = null
  Clients <- MCClients
  Blocks <- MCBlocks
  Outside = {out}
  NodeCapacity = 3
  MaxObjects = 1
  Policies = {"Strict", "Flexible"}
  Careful = FALSE
INVARIANTS
  CheckSound

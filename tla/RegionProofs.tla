---------------------------- MODULE RegionProofs ----------------------------
(***************************************************************************)
(* What Region promises careful clients, for any number of threads, blocks *)
(* and nodes and any size of an allocation: RegionInv is inductive, the    *)
(* safety properties of handles, shadow bits and blocks follow from it,    *)
(* and the registry as Region uses it implements BlockLifecycle.           *)
(*                                                                         *)
(* The argument: the live count of a node is the number of its elements    *)
(* that still wait for their fetch_sub (CountOK).  An element in the hands *)
(* of a thread up to there is one of them, so its node is not Quarantine,  *)
(* nothing else tracks its base, and every lookup of destroy returns the   *)
(* node of the handle (TargetIsNode).  From the fetch_sub to the unlock    *)
(* m_DtorLock keeps the node.  What a thread writes is therefore its own:  *)
(* no step of another one can change the state, the shadow bits or the     *)
(* access record that its next step relies on.                             *)
(***************************************************************************)
EXTENDS RegionInvariant, FiniteSetTheorems, TLAPS

-----------------------------------------------------------------------------
(* What the operators of the model return. *)

\* A lookup returns a node that tracks the base, if there is one.
LEMMA FindIsTracked ==
  ASSUME NEW b, Find(b) # Null
  PROVE  Find(b) \in Node /\ blockBase[Find(b)] = b /\ state[Find(b)] # "Dead"
  BY DEF Find, TrackedAt

\* The only node that tracks a base is the one its lookup returns.
LEMMA FindTracked ==
  ASSUME OneTracked, NEW n \in Node, Tracked(n)
  PROVE  Find(blockBase[n]) = n
<1>1. n \in TrackedAt(blockBase[n])
  BY DEF Tracked, TrackedAt
<1>2. ASSUME NEW m \in TrackedAt(blockBase[n]) PROVE m = n
  BY DEF OneTracked, Tracked, TrackedAt
<1> QED
  BY <1>1, <1>2 DEF Find

\* A base that is not held has no node.
LEMMA FindHeld ==
  ASSUME NEW b \in Blocks
  PROVE  Find(b) = Null <=> ~ Held(b)
<1>1. ASSUME TrackedAt(b) = {} PROVE Find(b) = Null /\ ~ Held(b)
  BY <1>1, BlocksAssumption DEF Find, Held, Tracked, TrackedAt
<1>2. ASSUME TrackedAt(b) # {} PROVE Find(b) # Null /\ Held(b)
  <2>1. Find(b) \in TrackedAt(b)
    BY <1>2 DEF Find
  <2> QED
    BY <2>1, BlocksAssumption, BoundsAssumption, NullAssumption
       DEF Held, Tracked, TrackedAt, Node
<1> QED
  BY <1>1, <1>2

\* The last generation of a base is a number, and no node of it has a later one.
LEMMA LastGenerationIsGreatest ==
  ASSUME TypeOK, GenerationsOK, NEW b \in Blocks
  PROVE  /\ LastGeneration(b) \in Nat
         /\ \A n \in Node : blockBase[n] = b => generation[n] <= LastGeneration(b)
         /\ (\A n \in Node : blockBase[n] # b) => LastGeneration(b) = 0
         /\ ~ (\A n \in Node : blockBase[n] # b) =>
              \E n \in Node : blockBase[n] = b /\ generation[n] = LastGeneration(b)
<1> DEFINE older == {generation[n] : n \in {m \in Node : blockBase[m] = b}}
<1>1. CASE \A n \in Node : blockBase[n] # b
  <2>1. older = {}
    BY <1>1
  <2> QED
    BY <1>1, <2>1 DEF LastGeneration
<1>2. CASE \E n \in Node : blockBase[n] = b
  <2>1. PICK n \in Node :
          /\ blockBase[n] = b
          /\ \A m \in Node : blockBase[m] = b => generation[m] <= generation[n]
    BY <1>2 DEF GenerationsOK
  <2>2. generation[n] \in older /\ \A h \in older : h \in Nat /\ h <= generation[n]
    BY <2>1 DEF TypeOK
  <2> DEFINE g == CHOOSE g \in older : \A h \in older : h <= g
  <2>3. g \in older /\ \A h \in older : h <= g
    BY <2>2
  <2>4. LastGeneration(b) = g
    BY <2>2 DEF LastGeneration
  <2> HIDE DEF g
  <2> QED
    BY <1>2, <2>2, <2>3, <2>4
<1> QED
  BY <1>1, <1>2

\* A region has finitely many elements in a block.
LEMMA CountedFinite ==
  ASSUME NEW n
  PROVE  IsFiniteSet(Counted(n)) /\ Cardinality(Counted(n)) \in Nat
<1>1. IsFiniteSet(Element)
  BY FS_Interval, BoundsAssumption DEF Element
<1>2. Counted(n) \in SUBSET Element
  BY DEF Counted
<1> QED
  BY <1>1, <1>2, FS_Subset, FS_CardinalityType

-----------------------------------------------------------------------------
(* What the invariant says of the node in a thread's hands. *)

\* An element that is counted keeps its node in use.
LEMMA CountedInUse ==
  ASSUME RegionInv, NEW n \in Node, NEW i \in Counted(n)
  PROVE  liveCount[n] > 0 /\ state[n] \in {"Live", "Retiring"} /\ Tracked(n)
<1>1. i \in Element /\ Given(n, i) /\ Given(n, 0) /\ n < nodeCursor /\ 0 \in Element
  BY SMTT(30), BoundsAssumption DEF RegionInv, NodesOK, TypeOK, Counted, Given, Element, Node
<1>2. liveCount[n] = Cardinality(Counted(n)) /\ liveCount[n] # 0
  BY <1>1, CountedFinite, FS_EmptySet DEF RegionInv, CountOK
<1>3. liveCount[n] > 0
  BY <1>2 DEF RegionInv, TypeOK
<1> QED
  BY <1>1, <1>3 DEF RegionInv, CountOK, NodesOK, TypeOK, Tracked

\* The object of a destroy is counted until m_LiveCount is taken down, and so
\* is the one that is being built.
LEMMA HandsCounted ==
  ASSUME RegionInv, NEW t \in Clients,
         pc[t] \in {"new", "begin", "classify", "report", "uncount"}
  PROVE  idx[t] \in Counted(node[t])
<1>1. pc[t] \in UsePoints /\ (pc[t] # "new" => pc[t] \in AlivePoints)
  BY DEF UsePoints, AlivePoints
<1>2. /\ node[t] \in Node /\ idx[t] \in Element
      /\ object[node[t]][idx[t]] \in {"raw", "alive"}
  BY <1>1 DEF RegionInv, LocalsOK, ObjectsOK
<1>3. node[t] # Null
  BY <1>2, BoundsAssumption, NullAssumption DEF Node
<1>4. ASSUME NEW u \in Clients, Uses(u, node[t], idx[t]) PROVE u = t
  BY <1>3, <1>4 DEF RegionInv, Exclusive, Uses
<1> QED
  BY <1>2, <1>4 DEF Counted

\* The node of a handle that a thread works on is tracked.
LEMMA HandsTracked ==
  ASSUME RegionInv, NEW t \in Clients, pc[t] \in UsePoints
  PROVE  /\ node[t] \in Node /\ idx[t] \in Element /\ Tracked(node[t])
         /\ node[t] < nodeCursor /\ Given(node[t], idx[t])
<1>1. node[t] \in Node /\ idx[t] \in Element /\ Given(node[t], idx[t])
  BY DEF RegionInv, LocalsOK
<1>2. node[t] < nodeCursor /\ blockBase[node[t]] # Null
  BY SMTT(30), <1>1, BoundsAssumption DEF RegionInv, NodesOK, TypeOK, Node, Element, Given
<1>3. CASE pc[t] \in {"new", "begin", "classify", "report", "uncount"}
  BY <1>1, <1>2, <1>3, HandsCounted, CountedInUse
<1>4. CASE pc[t] \in RetirePoints \union {"unlock", "unlockLast"}
  BY <1>1, <1>2, <1>4 DEF RegionInv, LockOK, Tracked, RetirePoints
<1> QED
  BY <1>1, <1>2, <1>3, <1>4 DEF UsePoints, AlivePoints, GonePoints, RetirePoints

\* So what destroy looks up is the node of its handle.
LEMMA TargetIsNode ==
  ASSUME RegionInv, NEW t \in Clients, pc[t] \in UsePoints
  PROVE  Target(t) = node[t] /\ Target(t) # Null /\ blockBase[node[t]] \in Blocks
<1>1. node[t] \in Node /\ Tracked(node[t])
  BY HandsTracked
<1>2. Find(blockBase[node[t]]) = node[t]
  BY <1>1, FindTracked DEF RegionInv
<1>3. node[t] # Null
  BY <1>1, BoundsAssumption, NullAssumption DEF Node
<1> QED
  BY <1>1, <1>2, <1>3 DEF RegionInv, Target, TypeOK, Tracked

\* A thread about to return a handle finds the node it has inserted, and
\* nobody works on that node.
LEMMA InsertedFound ==
  ASSUME RegionInv, NEW t \in Clients, pc[t] = "access", NEW n, n = Find(blk[t])
  PROVE  /\ n \in Node /\ blockBase[n] = blk[t] /\ state[n] = "Live" /\ threadID[n] = t
         /\ liveCount[n] = len[t] /\ size[n] = 0 /\ n < nodeCursor
         /\ \A u \in Clients : node[u] # n
<1>1. blk[t] \in Blocks
  BY DEF RegionInv, LocalsOK
<1>2. PICK m \in Node :
        /\ blockBase[m] = blk[t] /\ state[m] = "Live" /\ threadID[m] = t
        /\ liveCount[m] = len[t] /\ size[m] = 0
  BY DEF RegionInv, InsertedOK
<1>3. Tracked(m) /\ m < nodeCursor
  BY <1>1, <1>2, BlocksAssumption DEF Tracked, RegionInv, NodesOK
<1>4. n = m
  BY <1>2, <1>3, FindTracked DEF RegionInv
<1>5. ASSUME NEW u \in Clients, node[u] = m PROVE FALSE
  <2>1. node[u] # Null
    BY <1>5, BoundsAssumption, NullAssumption DEF Node
  <2>2. idx[u] \in Element /\ Given(m, idx[u])
    BY <1>5, <2>1 DEF RegionInv, LocalsOK
  <2>3. idx[u] < size[m]
    BY <2>2 DEF Given
  <2> QED
    BY <1>2, <2>2, <2>3, BoundsAssumption DEF Element
<1> QED
  BY <1>2, <1>3, <1>4, <1>5

-----------------------------------------------------------------------------
(* Every step keeps the invariant. *)

\* A block leaves the user's allocator for the hands of one client.
LEMMA AllocateKeeps ==
  ASSUME Careful, RegionInv, NEW t \in Clients, NEW b \in Blocks,
         NEW count \in 1 .. MaxObjects, Allocate(t, b, count)
  PROVE  RegionInv'
<1> USE BoundsAssumption, BlocksAssumption, NullAssumption
    DEF RegionInv, Allocate, Goto, nodeVars, accessVars, memoryVars, blockVars, localVars
<1>1. TypeOK'
  BY DEF TypeOK, ControlPoints, Kinds
<1>2. NodesOK' /\ OneTracked' /\ GenerationsOK' /\ Exclusive' /\ RestShadow'
  BY DEF NodesOK, Given, OneTracked, Tracked, GenerationsOK, Exclusive, RestShadow, Marks,
         Untouched, Uses
<1>3. LocalsOK'
  BY DEF TypeOK, LocalsOK, Given, PlacePoints, LockPoints, RetirePoints, AlivePoints,
         GonePoints, UsePoints
<1>4. ObjectsOK'
  BY DEF TypeOK, ObjectsOK, AlivePoints, GonePoints
<1>5. LockOK'
  BY DEF TypeOK, LockOK, RetirePoints, LockPoints
<1>c. \A m \in Node : Counted(m)' = Counted(m)
  BY DEF TypeOK, Counted, Uses, Given, Node, Element
<1>6. CountOK'
  BY <1>c DEF TypeOK, CountOK, Given
<1>7. AccessOK'
  BY DEF TypeOK, AccessOK, Given
<1>8. InsertedOK'
  BY DEF TypeOK, InsertedOK
<1>9. PayloadShadow'
  BY DEF TypeOK, PayloadShadow, Payload
<1>10. HandsShadow'
  BY DEF TypeOK, HandsShadow, AlivePoints
<1>h. \A x \in Blocks : Held(x)' <=> Held(x)
  BY DEF TypeOK, Held, Tracked, Node
<1>a. \A x \in Blocks, u \in Clients :
        Allocates(u, x)' <=> Allocates(u, x) \/ (u = t /\ x = b)
  BY DEF TypeOK, Allocates
<1>11. HandsOK'
  BY <1>h, <1>a DEF TypeOK, HandsOK, Placed
<1>12. QuarantineOK'
  BY DEF TypeOK, QuarantineOK
<1>13. RefusedOK'
  BY DEF TypeOK, RefusedOK, Foreign
<1> QED
  BY <1>1, <1>2, <1>3, <1>4, <1>5, <1>6, <1>7, <1>8, <1>9, <1>10, <1>11, <1>12,
     <1>13 DEF RegionInv

\* The block is in no other hand, so the shadow bits of no handle change.
LEMMA AllocPoisonKeeps ==
  ASSUME Careful, RegionInv, NEW t \in Clients, AllocPoison(t)
  PROVE  RegionInv'
<1> USE BoundsAssumption, BlocksAssumption, NullAssumption
    DEF RegionInv, AllocPoison, Goto, nodeVars, accessVars, memoryVars, blockVars, localVars
<1>p. blk[t] \in Blocks /\ Placed(blk[t]) /\ Payload(t) \subseteq Element /\ ~ Held(blk[t])
  BY DEF TypeOK, LocalsOK, HandsOK, Placed, Allocates, PlacePoints, Payload, Element
<1>u. \A u \in Clients : pc[u] \in UsePoints => Tracked(node[u]) /\ node[u] \in Node
  BY HandsTracked
<1>w. \A m \in Node : Tracked(m) => blockBase[m] # blk[t]
  BY <1>p DEF Held
<1>z. \A x \in Blocks, i \in Element :
        shadow'[x][i] = IF x = blk[t] /\ i \in Payload(t) THEN "set" ELSE shadow[x][i]
  BY <1>p DEF TypeOK, SetShadow
<1>x. \A x \in Blocks : x # blk[t] => shadow'[x] = shadow[x]
  BY <1>p DEF TypeOK, SetShadow
<1>t. shadow' \in [Blocks -> [Element -> Bits]]
  BY <1>p DEF TypeOK, SetShadow, Bits
<1>v. \A u \in Clients : pc[u] \in UsePoints =>
        shadow'[blockBase[node[u]]] = shadow[blockBase[node[u]]]
  BY <1>u, <1>w, <1>x DEF Tracked, TypeOK
<1>m. \A m \in Node, i \in Element : Marks(m, i)' = Marks(m, i)
  BY DEF Marks
<1>1. TypeOK'
  BY <1>p, <1>t DEF TypeOK, ControlPoints, Kinds
<1>2. NodesOK' /\ OneTracked' /\ GenerationsOK' /\ Exclusive'
  BY DEF NodesOK, Given, OneTracked, Tracked, GenerationsOK, Exclusive
<1>3. LocalsOK'
  BY DEF TypeOK, LocalsOK, Given, PlacePoints, LockPoints, RetirePoints,
         AlivePoints, GonePoints, UsePoints
<1>4. ObjectsOK'
  BY DEF TypeOK, ObjectsOK, AlivePoints, GonePoints
<1>5. LockOK'
  BY DEF TypeOK, LockOK, RetirePoints, LockPoints
<1>c. \A m \in Node : Counted(m)' = Counted(m)
  BY DEF TypeOK, Counted, Uses, Given, Node, Element
<1>6. CountOK'
  BY <1>c DEF TypeOK, CountOK, Given
<1>7. AccessOK'
  BY DEF TypeOK, AccessOK, Given
<1>8. InsertedOK'
  BY DEF TypeOK, InsertedOK
<1>9. PayloadShadow'
  <2> SUFFICES ASSUME NEW u \in Clients, pc'[u] \in {"insert", "access"},
                      NEW i \in Payload(u)'
               PROVE  shadow'[blk'[u]][i] = "set"
    BY DEF PayloadShadow
  <2>1. blk'[u] = blk[u] /\ blk[u] \in Blocks /\ i \in Payload(u) /\ i \in Element
    BY DEF TypeOK, LocalsOK, PlacePoints, Payload, Element
  <2>2. u = t \/ shadow[blk[u]][i] = "set"
    BY <2>1 DEF PayloadShadow, TypeOK
  <2> QED
    BY <2>1, <2>2, <1>z
<1>10. HandsShadow'
  BY <1>u, <1>v DEF TypeOK, HandsShadow, AlivePoints, UsePoints, GonePoints
<1>11. RestShadow'
  BY <1>w, <1>x, <1>m DEF TypeOK, RestShadow, Given, Tracked, Untouched, Uses
<1>h. \A x \in Blocks : Held(x)' <=> Held(x)
  BY DEF TypeOK, Held, Tracked, Node
<1>a. \A x \in Blocks, u \in Clients : Allocates(u, x)' <=> Allocates(u, x)
  BY DEF TypeOK, Allocates
<1>12. HandsOK'
  BY <1>h, <1>a DEF TypeOK, HandsOK, Placed
<1>13. QuarantineOK'
  BY DEF TypeOK, QuarantineOK
<1>14. RefusedOK'
  BY DEF TypeOK, RefusedOK, Foreign
<1> QED
  BY <1>1, <1>2, <1>3, <1>4, <1>5, <1>6, <1>7, <1>8, <1>9, <1>10, <1>11, <1>12,
     <1>13, <1>14 DEF RegionInv

\* A block that is outside the region, or whose shadow bits could not all be set,
\* goes the way back; it is in no other hand.
LEMMA AllocWildKeeps ==
  ASSUME Careful, RegionInv, NEW t \in Clients, AllocWild(t)
  PROVE  RegionInv'
<1> USE BoundsAssumption, BlocksAssumption, NullAssumption
    DEF RegionInv, AllocWild, Goto, nodeVars, accessVars, memoryVars, blockVars, localVars
<1>p. blk[t] \in Blocks /\ Allocates(t, blk[t]) /\ ~ Held(blk[t])
  BY DEF TypeOK, LocalsOK, HandsOK, Placed, Allocates, PlacePoints
<1>q. \A u \in Clients : u # t /\ pc[u] \in {"insert", "access"} => blk[u] # blk[t]
  <2>1. ASSUME NEW u \in Clients, u # t, pc[u] = "insert" PROVE blk[u] # blk[t]
    BY <1>p, <2>1 DEF HandsOK, Allocates
  <2>2. ASSUME NEW u \in Clients, pc[u] = "access" PROVE blk[u] # blk[t]
    BY <1>p, <2>2 DEF InsertedOK, Held, Tracked
  <2> QED
    BY <2>1, <2>2
<1>u. \A u \in Clients : pc[u] \in UsePoints => Tracked(node[u]) /\ node[u] \in Node
  BY HandsTracked
<1>w. \A m \in Node : Tracked(m) => blockBase[m] # blk[t]
  BY <1>p DEF Held
<1>s. PICK bits \in [Element -> Bits] : SetShadow(t, bits)
  <2>1. CASE blk[t] \in Outside
    <3>1. shadow[blk[t]] \in [Element -> Bits] /\ SetShadow(t, shadow[blk[t]])
      BY <1>p, <2>1 DEF TypeOK, SetShadow
    <3> QED
      BY <3>1
  <2>2. CASE blk[t] \notin Outside
    <3> DEFINE partly(failed) == [i \in Element |->
                 IF i < failed THEN "set"
                 ELSE IF i = failed THEN "unsure" ELSE shadow[blk[t]][i]]
    <3>1. PICK failed \in Payload(t) : SetShadow(t, partly(failed))
      BY <2>2
    <3>2. partly(failed) \in [Element -> Bits]
      BY <1>p DEF TypeOK, Bits
    <3> QED
      BY <3>1, <3>2
  <2> QED
    BY <2>1, <2>2
<1>z. \A x \in Blocks : x # blk[t] => shadow'[x] = shadow[x]
  BY <1>s DEF TypeOK, SetShadow
<1>t. shadow' \in [Blocks -> [Element -> Bits]]
  BY <1>s DEF TypeOK, SetShadow
<1>v. \A u \in Clients : pc[u] \in UsePoints =>
        shadow'[blockBase[node[u]]] = shadow[blockBase[node[u]]]
  BY <1>u, <1>w, <1>z DEF Tracked, TypeOK
<1>m. \A m \in Node, i \in Element : Marks(m, i)' = Marks(m, i)
  BY DEF Marks
<1>1. TypeOK'
  BY <1>t DEF TypeOK, ControlPoints, Kinds
<1>2. NodesOK' /\ OneTracked' /\ GenerationsOK' /\ Exclusive'
  BY DEF NodesOK, Given, OneTracked, Tracked, GenerationsOK, Exclusive
<1>3. LocalsOK'
  BY DEF TypeOK, LocalsOK, Given, PlacePoints, LockPoints, RetirePoints,
         AlivePoints, GonePoints, UsePoints
<1>4. ObjectsOK'
  BY DEF TypeOK, ObjectsOK, AlivePoints, GonePoints
<1>5. LockOK'
  BY DEF TypeOK, LockOK, RetirePoints, LockPoints
<1>c. \A m \in Node : Counted(m)' = Counted(m)
  BY DEF TypeOK, Counted, Uses, Given, Node, Element
<1>6. CountOK'
  BY <1>c DEF TypeOK, CountOK, Given
<1>7. AccessOK'
  BY DEF TypeOK, AccessOK, Given
<1>8. InsertedOK'
  BY DEF TypeOK, InsertedOK
<1>9. PayloadShadow'
  BY <1>p, <1>q, <1>z DEF TypeOK, PayloadShadow, Payload, LocalsOK, PlacePoints
<1>10. HandsShadow'
  BY <1>u, <1>v DEF TypeOK, HandsShadow, AlivePoints, UsePoints, GonePoints
<1>11. RestShadow'
  BY <1>w, <1>z, <1>m DEF TypeOK, RestShadow, Given, Tracked, Untouched, Uses
<1>h. \A x \in Blocks : Held(x)' <=> Held(x)
  BY DEF TypeOK, Held, Tracked, Node
<1>a. \A x \in Blocks, u \in Clients : Allocates(u, x)' <=> Allocates(u, x)
  BY DEF TypeOK, Allocates
<1>12. HandsOK'
  BY <1>h, <1>a DEF TypeOK, HandsOK, Placed
<1>13. QuarantineOK'
  BY DEF TypeOK, QuarantineOK
<1>14. RefusedOK'
  BY DEF TypeOK, RefusedOK, Foreign
<1> QED
  BY <1>1, <1>2, <1>3, <1>4, <1>5, <1>6, <1>7, <1>8, <1>9, <1>10, <1>11, <1>12,
     <1>13, <1>14 DEF RegionInv

\* The new node is the only one of its base, of a new generation, and in nobody's
\* hands; the block moves from the client to the node.
LEMMA AllocInsertKeeps ==
  ASSUME Careful, RegionInv, NEW t \in Clients, AllocInsert(t)
  PROVE  RegionInv'
<1> USE BoundsAssumption, BlocksAssumption, NullAssumption
    DEF RegionInv, AllocInsert, Goto, nodeVars, accessVars, memoryVars, blockVars, localVars
<1> DEFINE n == nodeCursor
<1>p. /\ n \in Node /\ n + 1 \in 0 .. NodeCapacity
      /\ blk[t] \in Blocks /\ len[t] \in 1 .. MaxObjects
      /\ state[n] = "Empty" /\ blockBase[n] = Null /\ size[n] = 0 /\ dtorLock[n] = Null
  BY DEF TypeOK, Node, NodesOK, LocalsOK, PlacePoints
<1>q. /\ LastGeneration(blk[t]) \in Nat
      /\ \A m \in Node : blockBase[m] = blk[t] => generation[m] <= LastGeneration(blk[t])
  BY <1>p, LastGenerationIsGreatest
<1>g. generation' = [generation EXCEPT ![n] = LastGeneration(blk[t]) + 1]
  BY DEF NextGeneration
<1>f. ~ Held(blk[t])
  BY <1>p, FindHeld
<1>u. \A u \in Clients : node[u] # n /\ (pc[u] \in UsePoints => node[u] \in Node)
  BY SMTT(30), <1>p DEF LocalsOK, NodesOK, TypeOK, Node, Element, Given
<1>e. \A i \in Element : ~ Given(n, i)
  BY <1>p DEF Given, Element, TypeOK
<1>o. \A m \in Node :
        /\ state'[m] = IF m = n THEN "Live" ELSE state[m]
        /\ blockBase'[m] = IF m = n THEN blk[t] ELSE blockBase[m]
        /\ generation'[m] = IF m = n THEN LastGeneration(blk[t]) + 1 ELSE generation[m]
  BY <1>g DEF TypeOK
<1> HIDE DEF n
<1>1. TypeOK'
  BY <1>p, <1>q, <1>g DEF TypeOK, ControlPoints, Kinds, n
<1>2. Exclusive'
  BY DEF Exclusive
<1>3. NodesOK'
  BY <1>p, <1>q, <1>g DEF TypeOK, NodesOK, Given, n
<1>4. OneTracked'
  BY <1>p, <1>f DEF TypeOK, OneTracked, Tracked, n, Held
<1>s. ASSUME NEW b \in Blocks
      PROVE  \/ \A m \in Node : blockBase'[m] # b
             \/ \E m \in Node : /\ blockBase'[m] = b
                                /\ \A k \in Node : blockBase'[k] = b =>
                                     generation'[k] <= generation'[m]
  <2>1. CASE b = blk[t]
    <3>1. /\ blockBase'[n] = b
          /\ \A k \in Node : blockBase'[k] = b => generation'[k] <= generation'[n]
      BY <2>1, <1>p, <1>q, <1>o DEF TypeOK
    <3> QED
      BY <3>1, <1>p
  <2>2. CASE b # blk[t]
    BY <2>2, <1>p, <1>o DEF GenerationsOK
  <2> QED
    BY <2>1, <2>2
<1>5. GenerationsOK'
  BY <1>s DEF GenerationsOK
<1>6. LocalsOK'
  BY DEF TypeOK, LocalsOK, Given, PlacePoints, LockPoints, RetirePoints,
         AlivePoints, GonePoints, UsePoints
<1>7. ObjectsOK'
  BY DEF TypeOK, ObjectsOK, AlivePoints, GonePoints
<1>8. LockOK'
  BY <1>p, <1>u, <1>o
     DEF TypeOK, LockOK, RetirePoints, LockPoints, UsePoints, GonePoints, AlivePoints
<1>c. \A m \in Node : Counted(m)' = Counted(m)
  BY DEF TypeOK, Counted, Uses, Given, Node, Element
<1>9. CountOK'
  BY SMTT(40), <1>c, <1>p, <1>u, <1>e
     DEF n, TypeOK, Node, Element, CountOK, Given, UsePoints, AlivePoints
<1>10. AccessOK'
  BY SMTT(40), <1>p, <1>u, <1>e, <1>g DEF TypeOK, Node, Element, AccessOK, Given, n
<1>11. InsertedOK'
  BY <1>p DEF TypeOK, InsertedOK, n
<1>12. PayloadShadow'
  BY DEF TypeOK, PayloadShadow, Payload
<1>13. HandsShadow'
  BY <1>u, <1>o DEF TypeOK, HandsShadow, AlivePoints, UsePoints, GonePoints
<1>14. RestShadow'
  <2>1. \A m \in Node, i \in Element : Marks(m, i)' = Marks(m, i)
    BY DEF Marks
  <2> QED
    BY <2>1, <1>e, <1>o DEF TypeOK, RestShadow, Given, Tracked, Untouched, Uses
<1>h. \A x \in Blocks : Held(x)' <=> Held(x) \/ x = blk[t]
  BY <1>p, BlocksAssumption DEF n, TypeOK, Held, Tracked, Node
<1>a. \A x \in Blocks, u \in Clients : Allocates(u, x)' <=> Allocates(u, x) /\ u # t
  BY DEF TypeOK, Allocates
<1>l. Allocates(t, blk[t])
  BY DEF Allocates
<1>y. \A u \in Clients : Allocates(u, blk[t]) => u = t
  BY <1>l, <1>p DEF HandsOK
<1>z. \A x \in Blocks : Allocates(t, x) => x = blk[t]
  BY DEF Allocates
<1>b. \A x \in Blocks : Placed(x)' <=> Placed(x) /\ x # blk[t]
  BY <1>a, <1>y, <1>z, <1>l DEF Placed
<1>k. blk[t] \notin free /\ blk[t] # flushed
  BY <1>p, <1>l DEF HandsOK, Placed
<1>15. HandsOK'
  BY <1>h, <1>a, <1>b, <1>k, <1>p DEF HandsOK
<1>16. QuarantineOK'
  BY <1>p, <1>u DEF TypeOK, QuarantineOK, n, UsePoints, GonePoints
<1>17. RefusedOK'
  BY DEF TypeOK, RefusedOK, Foreign
<1> QED
  BY <1>1, <1>2, <1>3, <1>4, <1>5, <1>6, <1>7, <1>8, <1>9, <1>10, <1>11, <1>12,
     <1>13, <1>14, <1>15, <1>16, <1>17 DEF RegionInv

\* The payload whose shadow bits change is in no other hand.
LEMMA AllocRefusedKeeps ==
  ASSUME Careful, RegionInv, NEW t \in Clients, AllocRefused(t)
  PROVE  RegionInv'
<1> USE BoundsAssumption, BlocksAssumption, NullAssumption
    DEF RegionInv, AllocRefused, Goto, nodeVars, accessVars, memoryVars, blockVars, localVars
<1>p. blk[t] \in Blocks /\ Allocates(t, blk[t]) /\ ~ Held(blk[t])
  BY DEF TypeOK, LocalsOK, HandsOK, Placed, Allocates, PlacePoints
<1>q. \A u \in Clients : u # t /\ pc[u] \in {"insert", "access"} => blk[u] # blk[t]
  <2>1. ASSUME NEW u \in Clients, u # t, pc[u] = "insert" PROVE blk[u] # blk[t]
    BY <1>p, <2>1 DEF HandsOK, Allocates
  <2>2. ASSUME NEW u \in Clients, pc[u] = "access" PROVE blk[u] # blk[t]
    BY <1>p, <2>2 DEF InsertedOK, Held, Tracked
  <2> QED
    BY <2>1, <2>2
<1>u. \A u \in Clients : pc[u] \in UsePoints => Tracked(node[u]) /\ node[u] \in Node
  BY HandsTracked
<1>w. \A m \in Node : Tracked(m) => blockBase[m] # blk[t]
  BY <1>p DEF Held
<1>s. PICK bits \in [Element -> Bits] : SetShadow(t, bits)
  BY <1>p DEF TypeOK, Bits
<1>z. \A x \in Blocks : x # blk[t] => shadow'[x] = shadow[x]
  BY <1>s DEF TypeOK, SetShadow
<1>t. shadow' \in [Blocks -> [Element -> Bits]]
  BY <1>s DEF TypeOK, SetShadow
<1>v. \A u \in Clients : pc[u] \in UsePoints =>
        shadow'[blockBase[node[u]]] = shadow[blockBase[node[u]]]
  BY <1>u, <1>w, <1>z DEF Tracked, TypeOK
<1>m. \A m \in Node, i \in Element : Marks(m, i)' = Marks(m, i)
  BY DEF Marks
<1>1. TypeOK'
  BY <1>t DEF TypeOK, ControlPoints, Kinds
<1>2. NodesOK' /\ OneTracked' /\ GenerationsOK' /\ Exclusive'
  BY DEF NodesOK, Given, OneTracked, Tracked, GenerationsOK, Exclusive
<1>3. LocalsOK'
  BY DEF TypeOK, LocalsOK, Given, PlacePoints, LockPoints, RetirePoints,
         AlivePoints, GonePoints, UsePoints
<1>4. ObjectsOK'
  BY DEF TypeOK, ObjectsOK, AlivePoints, GonePoints
<1>5. LockOK'
  BY DEF TypeOK, LockOK, RetirePoints, LockPoints
<1>c. \A m \in Node : Counted(m)' = Counted(m)
  BY DEF TypeOK, Counted, Uses, Given, Node, Element
<1>6. CountOK'
  BY <1>c DEF TypeOK, CountOK, Given
<1>7. AccessOK'
  BY DEF TypeOK, AccessOK, Given
<1>8. InsertedOK'
  BY DEF TypeOK, InsertedOK
<1>9. PayloadShadow'
  BY <1>p, <1>q, <1>z DEF TypeOK, PayloadShadow, Payload, LocalsOK, PlacePoints
<1>10. HandsShadow'
  BY <1>u, <1>v DEF TypeOK, HandsShadow, AlivePoints, UsePoints, GonePoints
<1>11. RestShadow'
  BY <1>w, <1>z, <1>m DEF TypeOK, RestShadow, Given, Tracked, Untouched, Uses
<1>h. \A x \in Blocks : Held(x)' <=> Held(x)
  BY DEF TypeOK, Held, Tracked, Node
<1>a. \A x \in Blocks, u \in Clients : Allocates(u, x)' <=> Allocates(u, x)
  BY DEF TypeOK, Allocates
<1>12. HandsOK'
  BY <1>h, <1>a DEF TypeOK, HandsOK, Placed
<1>13. QuarantineOK'
  BY DEF TypeOK, QuarantineOK
<1>14. RefusedOK'
  BY DEF TypeOK, RefusedOK, Foreign
<1> QED
  BY <1>1, <1>2, <1>3, <1>4, <1>5, <1>6, <1>7, <1>8, <1>9, <1>10, <1>11, <1>12,
     <1>13, <1>14 DEF RegionInv

\* The block moves from the client to the user's allocator.
LEMMA AllocGiveBackKeeps ==
  ASSUME Careful, RegionInv, NEW t \in Clients, AllocGiveBack(t)
  PROVE  RegionInv'
<1> USE BoundsAssumption, BlocksAssumption, NullAssumption
    DEF RegionInv, AllocGiveBack, Return, Goto, nodeVars, accessVars, memoryVars, blockVars,
        localVars
<1>p. /\ blk[t] \in Blocks /\ Allocates(t, blk[t])
      /\ node[t] = Null /\ idx[t] = Null
  BY DEF TypeOK, LocalsOK, Allocates, PlacePoints, UsePoints, AlivePoints, GonePoints
<1>n. node' = node /\ idx' = idx
  BY <1>p DEF TypeOK
<1>1. TypeOK'
  BY <1>p DEF TypeOK, ControlPoints, Kinds
<1>2. NodesOK' /\ OneTracked' /\ GenerationsOK'
  BY DEF NodesOK, Given, OneTracked, Tracked, GenerationsOK
<1>3. LocalsOK'
  BY DEF TypeOK, LocalsOK, Given, PlacePoints, LockPoints, RetirePoints,
         AlivePoints, GonePoints, UsePoints
<1>4. Exclusive'
  BY DEF TypeOK, Exclusive
<1>5. ObjectsOK'
  BY DEF TypeOK, ObjectsOK, AlivePoints, GonePoints
<1>6. LockOK'
  BY DEF TypeOK, LockOK, RetirePoints, LockPoints
<1>c. \A m \in Node : Counted(m)' = Counted(m)
  BY DEF TypeOK, Counted, Uses, Given, Node, Element
<1>7. CountOK'
  BY <1>c DEF TypeOK, CountOK, Given
<1>8. AccessOK'
  BY DEF TypeOK, AccessOK, Given
<1>9. InsertedOK'
  BY DEF TypeOK, InsertedOK
<1>10. PayloadShadow'
  BY DEF TypeOK, PayloadShadow, Payload
<1>11. HandsShadow'
  BY DEF TypeOK, HandsShadow, AlivePoints
<1>12. RestShadow'
  BY <1>n DEF TypeOK, RestShadow, Marks, Given, Tracked, Untouched, Uses
<1>h. \A x \in Blocks : Held(x)' <=> Held(x)
  BY DEF TypeOK, Held, Tracked, Node
<1>a. \A x \in Blocks, u \in Clients : Allocates(u, x)' <=> Allocates(u, x) /\ u # t
  BY DEF TypeOK, Allocates
<1>y. \A u \in Clients : Allocates(u, blk[t]) => u = t
  BY <1>p DEF HandsOK
<1>z. \A x \in Blocks : Allocates(t, x) => x = blk[t]
  BY DEF Allocates
<1>b. \A x \in Blocks : Placed(x)' <=> Placed(x) /\ x # blk[t]
  BY <1>a, <1>y, <1>z DEF Placed
<1>f. ~ Held(blk[t]) /\ blk[t] \notin free /\ blk[t] # flushed
  BY <1>p DEF HandsOK, Placed
<1>13. HandsOK'
  BY <1>h, <1>a, <1>b, <1>f, <1>p DEF HandsOK
<1>14. QuarantineOK'
  BY DEF TypeOK, QuarantineOK
<1>15. RefusedOK'
  BY DEF TypeOK, RefusedOK, Foreign
<1> QED
  BY <1>1, <1>2, <1>3, <1>4, <1>5, <1>6, <1>7, <1>8, <1>9, <1>10, <1>11, <1>12,
     <1>13, <1>14, <1>15 DEF RegionInv

\* The handle is the one of the node just inserted; all its elements are raw and
\* counted, and their shadow bits are set.
LEMMA AllocReturnKeeps ==
  ASSUME Careful, RegionInv, NEW t \in Clients, AllocReturn(t)
  PROVE  RegionInv'
<1> USE BoundsAssumption, BlocksAssumption, NullAssumption
    DEF RegionInv, AllocReturn, Return, Goto, nodeVars, accessVars, memoryVars, blockVars,
        localVars
<1>n. PICK n \in Node : n = Find(blk[t])
  BY InsertedFound
<1>p. /\ blockBase[n] = blk[t] /\ state[n] = "Live" /\ threadID[n] = t
      /\ liveCount[n] = len[t] /\ size[n] = 0 /\ n < nodeCursor
      /\ \A u \in Clients : node[u] # n
  BY <1>n, InsertedFound
<1>l. len[t] \in 1 .. MaxObjects /\ Payload(t) \subseteq Element /\ blk[t] \in Blocks
  BY DEF TypeOK, LocalsOK, Payload, Element
<1>e. \A i \in Element : ~ Given(n, i)
  BY <1>p DEF Given, Element, TypeOK
<1>o. /\ size' = [size EXCEPT ![n] = len[t]]
      /\ accessGen' = [accessGen EXCEPT ![n] = generation[n]]
      /\ object' = [object EXCEPT ![n] =
           [i \in Element |-> IF i \in Payload(t) THEN "raw" ELSE "none"]]
  BY <1>n
<1>m. \A u \in Clients : pc[u] \in UsePoints => node[u] \in Node /\ node[u] # n
  BY <1>p DEF LocalsOK
<1>r. \A u \in Clients :
        IF u = t THEN pc'[u] = "idle" /\ node'[u] = Null /\ idx'[u] = Null
                 ELSE pc'[u] = pc[u] /\ node'[u] = node[u] /\ idx'[u] = idx[u]
  BY DEF TypeOK
<1>t. /\ object' \in [Node -> [Element -> {"none", "raw", "alive", "gone"}]]
      /\ size' \in [Node -> 0 .. MaxObjects]
      /\ accessGen' \in [Node -> Nat]
  <2>1. /\ object \in [Node -> [Element -> {"none", "raw", "alive", "gone"}]]
        /\ size \in [Node -> 0 .. MaxObjects]
        /\ accessGen \in [Node -> Nat] /\ generation \in [Node -> Nat]
    BY DEF TypeOK
  <2> HIDE DEF RegionInv, AllocReturn
  <2>2. object' \in [Node -> [Element -> {"none", "raw", "alive", "gone"}]]
    BY <1>o, <2>1
  <2>3. size' \in [Node -> 0 .. MaxObjects] /\ accessGen' \in [Node -> Nat]
    BY <1>o, <1>l, <2>1
  <2> QED
    BY <2>2, <2>3
<1>k. \A m \in Node : size'[m] = IF m = n THEN len[t] ELSE size[m]
  BY <1>o DEF TypeOK
<1>w. \A m \in Node, i \in Element :
        object'[m][i] = IF m # n THEN object[m][i]
                        ELSE IF i \in 0 .. len[t] - 1 THEN "raw" ELSE "none"
  BY <1>p, <1>o DEF TypeOK, Payload
<1>1. TypeOK'
  BY <1>t DEF TypeOK, ControlPoints, Kinds
<1>2. OneTracked' /\ GenerationsOK'
  BY DEF OneTracked, Tracked, GenerationsOK
<1>3. NodesOK'
  <2>1. ASSUME NEW m \in Node, NEW i \in Element
        PROVE  object'[m][i] # "none" <=> Given(m, i)'
    BY <1>l, <1>k, <1>w DEF NodesOK, Given, Element
  <2>2. ASSUME NEW m \in Node, m >= nodeCursor
        PROVE  dtorLock[m] = Null /\ size'[m] = 0
    BY <1>p, <1>k, <2>2 DEF NodesOK, TypeOK, Node
  <2>3. \A m \in Node :
          /\ m < nodeCursor <=> state[m] # "Empty"
          /\ m < nodeCursor <=> blockBase[m] # Null
          /\ m < nodeCursor => generation[m] > 0
    BY DEF NodesOK
  <2> QED
    BY <2>1, <2>2, <2>3 DEF NodesOK
<1>4. LocalsOK'
  BY <1>p, <1>l, <1>m, <1>o
     DEF TypeOK, LocalsOK, Given, PlacePoints, LockPoints, RetirePoints,
         AlivePoints, GonePoints, UsePoints
<1>5. Exclusive'
  BY DEF TypeOK, Exclusive
<1>6. ObjectsOK'
  BY <1>m, <1>o DEF TypeOK, ObjectsOK, AlivePoints, GonePoints, UsePoints, LocalsOK
<1>7. LockOK'
  BY DEF TypeOK, LockOK, RetirePoints, LockPoints
<1>c. \A m \in Node : m # n => Counted(m)' = Counted(m)
  BY <1>o DEF TypeOK, Counted, Uses, Node, Element
<1>v. \A u \in Clients : node'[u] # n
  BY <1>p, <1>r DEF Node
<1>d. Counted(n)' = 0 .. len[t] - 1
  <2>1. ASSUME NEW i \in Element PROVE i \in Counted(n)' <=> i \in 0 .. len[t] - 1
    BY <1>p, <1>v, <1>w, <2>1 DEF Counted, Uses
  <2> QED
    BY <2>1, <1>l DEF Counted, Element
<1>i. Cardinality(0 .. len[t] - 1) = len[t]
  BY <1>l, FS_Interval
<1>x. ASSUME NEW m \in Node, Given(m, 0)' PROVE liveCount'[m] = Cardinality(Counted(m)')
  <2>1. CASE m = n
    BY <2>1, <1>d, <1>i, <1>p
  <2>2. CASE m # n
    BY <2>2, <1>x, <1>c, <1>k DEF CountOK, Given
  <2> QED
    BY <2>1, <2>2
<1>8. CountOK'
  BY <1>x, <1>p, <1>r DEF CountOK
<1>9. AccessOK'
  BY <1>p, <1>l, <1>o DEF TypeOK, AccessOK, Given
<1>10. InsertedOK'
  BY <1>p, <1>o DEF TypeOK, Node, Element, InsertedOK
<1>11. PayloadShadow'
  BY <1>l DEF TypeOK, PayloadShadow, Payload
<1>12. HandsShadow'
  BY <1>r DEF TypeOK, HandsShadow, AlivePoints
<1>y. \A i \in Payload(t) : shadow[blk[t]][i] = "set"
  BY DEF PayloadShadow
<1>z. ASSUME NEW m \in Node, NEW i \in Element, Given(m, i)', Tracked(m)', Untouched(m, i)'
      PROVE  shadow[blockBase[m]][i] \in Marks(m, i)'
  <2>1. CASE m = n
    <3>1. i \in Payload(t)
      BY <2>1, <1>z, <1>k, <1>l DEF Given, Payload, Element
    <3>2. object'[m][i] = "raw"
      BY <2>1, <3>1, <1>w DEF Payload
    <3> QED
      BY <2>1, <3>1, <3>2, <1>y, <1>p DEF Marks
  <2>2. CASE m # n
    <3>1. Given(m, i) /\ Tracked(m) /\ object'[m][i] = object[m][i]
      BY <2>2, <1>z, <1>k, <1>w DEF Given, Tracked
    <3>2. Untouched(m, i)
      BY <1>z, <1>r DEF Untouched, Uses, LocalsOK, UsePoints, AlivePoints, GonePoints, Node
    <3> QED
      BY <3>1, <3>2 DEF RestShadow, Marks
  <2> QED
    BY <2>1, <2>2
<1>13. RestShadow'
  BY <1>z DEF RestShadow
<1>h. \A x \in Blocks : Held(x)' <=> Held(x)
  BY DEF TypeOK, Held, Tracked, Node
<1>a. \A x \in Blocks, u \in Clients : Allocates(u, x)' <=> Allocates(u, x)
  BY DEF TypeOK, Allocates
<1>14. HandsOK'
  BY <1>h, <1>a DEF TypeOK, HandsOK, Placed
<1>15. QuarantineOK'
  BY DEF TypeOK, QuarantineOK
<1>16. RefusedOK'
  BY <1>m, <1>o DEF TypeOK, RefusedOK, Foreign, UsePoints, AlivePoints
<1> QED
  BY <1>1, <1>2, <1>3, <1>4, <1>5, <1>6, <1>7, <1>8, <1>9, <1>10, <1>11, <1>12,
     <1>13, <1>14, <1>15, <1>16 DEF RegionInv

\* A raw element is counted, so its node is tracked, and the shadow bits cleared
\* are those of its own payload.
LEMMA ConstructKeeps ==
  ASSUME Careful, RegionInv, NEW t \in Clients, NEW n \in Node, NEW i \in Element,
         Construct(t, n, i)
  PROVE  RegionInv'
<1> USE BoundsAssumption, BlocksAssumption, NullAssumption
    DEF RegionInv, Construct, Call, Goto, nodeVars, accessVars, memoryVars, blockVars,
        localVars
<1>p. i \in Counted(n) /\ node[t] = Null /\ idx[t] = Null
  BY DEF Counted, Untouched, LocalsOK, UsePoints, AlivePoints, GonePoints
<1>q. Tracked(n) /\ n < nodeCursor /\ blockBase[n] \in Blocks
  BY <1>p, CountedInUse DEF Tracked, NodesOK, TypeOK
<1>b. \A u \in Clients : pc[u] \in {"insert", "access"} => blk[u] # blockBase[n]
  <2>1. ASSUME NEW u \in Clients, pc[u] = "insert" PROVE blk[u] # blockBase[n]
    BY <1>q, <2>1 DEF HandsOK, Placed, Held, Allocates
  <2>2. ASSUME NEW u \in Clients, pc[u] = "access" PROVE blk[u] # blockBase[n]
    <3>1. Find(blockBase[n]) = n
      BY <1>q, FindTracked
    <3>2. ~ Given(Find(blk[u]), i)
      BY <2>2, InsertedFound DEF Given, Element
    <3> QED
      BY <3>1, <3>2
  <2> QED
    BY <2>1, <2>2
<1>u. \A u \in Clients : pc[u] \in UsePoints =>
        /\ Tracked(node[u]) /\ node[u] \in Node /\ node[u] # Null
        /\ ~ (node[u] = n /\ idx[u] = i)
  BY HandsTracked DEF Untouched, Uses, Node
<1>z. /\ \A x \in Blocks, k \in Element :
           ~ (x = blockBase[n] /\ k = i) => shadow'[x][k] = shadow[x][k]
      /\ shadow'[blockBase[n]][i] \in {"clear", "unsure"}
  BY <1>q DEF TypeOK
<1>t. shadow' \in [Blocks -> [Element -> Bits]]
  BY <1>q DEF TypeOK, Bits
<1>1. TypeOK'
  BY <1>t DEF TypeOK, ControlPoints, Kinds
<1>2. NodesOK' /\ OneTracked' /\ GenerationsOK'
  BY DEF NodesOK, Given, OneTracked, Tracked, GenerationsOK
<1>3. LocalsOK'
  BY DEF TypeOK, LocalsOK, Given, PlacePoints, LockPoints, RetirePoints,
         AlivePoints, GonePoints, UsePoints
<1>4. Exclusive'
  BY <1>p DEF TypeOK, Exclusive, Untouched, Uses
<1>5. ObjectsOK'
  BY DEF TypeOK, ObjectsOK, AlivePoints, GonePoints
<1>6. LockOK'
  BY DEF TypeOK, LockOK, RetirePoints, LockPoints
<1>c. \A m \in Node : Counted(m)' = Counted(m)
  BY DEF TypeOK, Counted, Uses, Given, Node, Element
<1>7. CountOK'
  BY <1>c DEF TypeOK, CountOK, Given
<1>8. AccessOK'
  BY DEF TypeOK, AccessOK, Given
<1>9. InsertedOK'
  BY DEF TypeOK, InsertedOK
<1>10. PayloadShadow'
  BY <1>p, <1>q, <1>b, <1>z DEF TypeOK, PayloadShadow, Payload
<1>11. HandsShadow'
  BY <1>p, <1>q, <1>u, <1>z
     DEF TypeOK, HandsShadow, AlivePoints, OneTracked, UsePoints, GonePoints,
         LocalsOK
<1>12. RestShadow'
  <2> SUFFICES ASSUME NEW m \in Node, NEW k \in Element,
                      Given(m, k)', Tracked(m)', Untouched(m, k)'
               PROVE  (shadow[blockBase[m]][k] \in Marks(m, k))'
    BY DEF RestShadow
  <2>1. /\ node'[t] = n /\ idx'[t] = i
        /\ \A u \in Clients : u # t => node'[u] = node[u] /\ idx'[u] = idx[u]
    BY DEF TypeOK
  <2>2. Given(m, k) /\ Tracked(m) /\ blockBase[m] \in Blocks
    BY DEF Given, Tracked, TypeOK
  <2>3. Untouched(m, k) /\ ~ (m = n /\ k = i)
    BY <1>p, <2>1 DEF Untouched, Uses, Node
  <2>4. ~ (blockBase[m] = blockBase[n] /\ k = i)
    BY <1>q, <2>2, <2>3 DEF OneTracked
  <2>5. Marks(m, k)' = Marks(m, k) /\ shadow'[blockBase[m]][k] = shadow[blockBase[m]][k]
    BY <1>z, <2>2, <2>4 DEF Marks
  <2> QED
    BY <2>2, <2>3, <2>5 DEF RestShadow
<1>h. \A x \in Blocks : Held(x)' <=> Held(x)
  BY DEF TypeOK, Held, Tracked, Node
<1>a. \A x \in Blocks, u \in Clients : Allocates(u, x)' <=> Allocates(u, x)
  BY DEF TypeOK, Allocates
<1>13. HandsOK'
  BY <1>h, <1>a DEF TypeOK, HandsOK, Placed
<1>14. QuarantineOK'
  BY DEF TypeOK, QuarantineOK
<1>15. RefusedOK'
  BY DEF TypeOK, RefusedOK, Foreign
<1> QED
  BY <1>1, <1>2, <1>3, <1>4, <1>5, <1>6, <1>7, <1>8, <1>9, <1>10, <1>11, <1>12,
     <1>13, <1>14, <1>15 DEF RegionInv

\* A raw element in one thread's hands comes to life, and stays counted.
LEMMA ConstructNewKeeps ==
  ASSUME Careful, RegionInv, NEW t \in Clients, ConstructNew(t)
  PROVE  RegionInv'
<1> USE BoundsAssumption, BlocksAssumption, NullAssumption
    DEF RegionInv, ConstructNew, Return, Goto, nodeVars, accessVars, memoryVars, blockVars,
        localVars
<1>p. /\ node[t] \in Node /\ idx[t] \in Element /\ node[t] # Null
      /\ Given(node[t], idx[t]) /\ Tracked(node[t])
  BY HandsTracked DEF UsePoints, Node
<1>e. \A u \in Clients : u # t /\ pc[u] \in UsePoints =>
        node[u] \in Node /\ idx[u] \in Element /\ ~ (node[u] = node[t] /\ idx[u] = idx[t])
  BY <1>p DEF Exclusive, LocalsOK
<1>o. \A m \in Node, i \in Element :
        object'[m][i] = IF m = node[t] /\ i = idx[t] THEN "alive" ELSE object[m][i]
  BY <1>p DEF TypeOK
<1>t. object' \in [Node -> [Element -> {"none", "raw", "alive", "gone"}]]
  BY <1>p DEF TypeOK
<1>r. \A u \in Clients :
        IF u = t THEN pc'[u] = "idle" /\ node'[u] = Null /\ idx'[u] = Null
                 ELSE pc'[u] = pc[u] /\ node'[u] = node[u] /\ idx'[u] = idx[u]
  BY DEF TypeOK
<1>1. TypeOK'
  BY <1>p, <1>t DEF TypeOK, ControlPoints, Kinds
<1>2. OneTracked' /\ GenerationsOK'
  BY DEF OneTracked, Tracked, GenerationsOK
<1>3. NodesOK'
  BY <1>p, <1>o DEF TypeOK, NodesOK, Given
<1>4. LocalsOK'
  BY <1>p, <1>o
     DEF TypeOK, LocalsOK, Given, PlacePoints, LockPoints, RetirePoints,
         AlivePoints, GonePoints, UsePoints
<1>5. Exclusive'
  BY DEF TypeOK, Exclusive
<1>6. ObjectsOK'
  BY <1>p, <1>e, <1>o DEF TypeOK, ObjectsOK, AlivePoints, GonePoints, UsePoints
<1>7. LockOK'
  BY DEF TypeOK, LockOK, RetirePoints, LockPoints
<1>c. ASSUME NEW m \in Node, NEW i \in Element
      PROVE  i \in Counted(m)' <=> i \in Counted(m)
  BY <1>p, <1>e, <1>o, <1>r DEF Counted, Uses, ObjectsOK
<1>d. \A m \in Node : Counted(m)' = Counted(m)
  BY <1>c DEF Counted
<1>g. \A m \in Node : Given(m, 0)' <=> Given(m, 0)
  BY <1>p, <1>o DEF Given, Element
<1>8. CountOK'
  BY <1>d, <1>g DEF TypeOK, CountOK
<1>9. AccessOK'
  BY <1>p, <1>o DEF TypeOK, AccessOK, Given
<1>10. InsertedOK'
  BY DEF TypeOK, Node, Element, InsertedOK
<1>11. PayloadShadow'
  BY DEF TypeOK, PayloadShadow, Payload
<1>12. HandsShadow'
  BY <1>p, <1>r DEF TypeOK, HandsShadow, AlivePoints
<1>13. RestShadow'
  <2> SUFFICES ASSUME NEW m \in Node, NEW k \in Element,
                      Given(m, k)', Tracked(m)', Untouched(m, k)'
               PROVE  (shadow[blockBase[m]][k] \in Marks(m, k))'
    BY DEF RestShadow
  <2>1. Given(m, k) /\ Tracked(m)
    BY DEF Given, Tracked
  <2>2. CASE m = node[t] /\ k = idx[t]
    BY <1>p, <1>o, <2>2 DEF HandsShadow, Marks
  <2>3. CASE ~ (m = node[t] /\ k = idx[t])
    <3>1. Untouched(m, k)
      BY <1>r, <2>3 DEF Untouched, Uses
    <3>2. Marks(m, k)' = Marks(m, k)
      BY <1>o, <2>3 DEF Marks
    <3> QED
      BY <2>1, <3>1, <3>2 DEF RestShadow
  <2> QED
    BY <2>2, <2>3
<1>h. \A x \in Blocks : Held(x)' <=> Held(x)
  BY DEF TypeOK, Held, Tracked, Node
<1>a. \A x \in Blocks, u \in Clients : Allocates(u, x)' <=> Allocates(u, x)
  BY DEF TypeOK, Allocates
<1>14. HandsOK'
  BY <1>h, <1>a DEF TypeOK, HandsOK, Placed
<1>15. QuarantineOK'
  BY DEF TypeOK, QuarantineOK
<1>16. RefusedOK'
  BY DEF TypeOK, RefusedOK, Foreign
<1> QED
  BY <1>1, <1>2, <1>3, <1>4, <1>5, <1>6, <1>7, <1>8, <1>9, <1>10, <1>11, <1>12,
     <1>13, <1>14, <1>15, <1>16 DEF RegionInv

\* A call that only reports a violation changes no more than its thread's point.
LEMMA RejectKeeps ==
  ASSUME Careful, RegionInv, NEW t \in Clients, Reject(t)
  PROVE  RegionInv'
<1> USE BoundsAssumption, BlocksAssumption, NullAssumption
    DEF RegionInv, Reject, Goto, nodeVars, accessVars, memoryVars, blockVars, localVars
<1>1. TypeOK'
  BY DEF TypeOK, ControlPoints, Kinds
<1>2. NodesOK' /\ OneTracked' /\ GenerationsOK' /\ Exclusive' /\ RestShadow'
  BY DEF NodesOK, Given, OneTracked, Tracked, GenerationsOK, Exclusive, RestShadow, Marks,
         Untouched, Uses
<1>3. LocalsOK'
  BY DEF TypeOK, LocalsOK, Given, PlacePoints, LockPoints, RetirePoints,
         AlivePoints, GonePoints, UsePoints
<1>4. ObjectsOK'
  BY DEF TypeOK, ObjectsOK, AlivePoints, GonePoints
<1>5. LockOK'
  BY DEF TypeOK, LockOK, RetirePoints, LockPoints
<1>c. \A m \in Node : Counted(m)' = Counted(m)
  BY DEF TypeOK, Counted, Uses, Given, Node, Element
<1>6. CountOK'
  BY <1>c DEF TypeOK, CountOK, Given
<1>7. AccessOK'
  BY DEF TypeOK, AccessOK, Given
<1>8. InsertedOK'
  BY DEF TypeOK, InsertedOK
<1>9. PayloadShadow'
  BY DEF TypeOK, PayloadShadow, Payload
<1>10. HandsShadow'
  BY DEF TypeOK, HandsShadow, AlivePoints
<1>h. \A x \in Blocks : Held(x)' <=> Held(x)
  BY DEF TypeOK, Held, Tracked, Node
<1>a. \A x \in Blocks, u \in Clients : Allocates(u, x)' <=> Allocates(u, x)
  BY DEF TypeOK, Allocates
<1>11. HandsOK'
  BY <1>h, <1>a DEF TypeOK, HandsOK, Placed
<1>12. QuarantineOK'
  BY DEF TypeOK, QuarantineOK
<1>13. RefusedOK'
  BY DEF TypeOK, RefusedOK, Foreign
<1> QED
  BY <1>1, <1>2, <1>3, <1>4, <1>5, <1>6, <1>7, <1>8, <1>9, <1>10, <1>11, <1>12,
     <1>13 DEF RegionInv

\* It returns with nothing in its hands.
LEMMA RejectedKeeps ==
  ASSUME Careful, RegionInv, NEW t \in Clients, Rejected(t)
  PROVE  RegionInv'
<1> USE BoundsAssumption, BlocksAssumption, NullAssumption
    DEF RegionInv, Rejected, Return, Goto, nodeVars, accessVars, memoryVars, blockVars,
        localVars
<1>p. node[t] = Null /\ idx[t] = Null
  BY DEF LocalsOK, UsePoints, AlivePoints, GonePoints
<1>n. node' = node /\ idx' = idx
  BY <1>p DEF TypeOK
<1>1. TypeOK'
  BY <1>p DEF TypeOK, ControlPoints, Kinds
<1>2. NodesOK' /\ OneTracked' /\ GenerationsOK'
  BY DEF NodesOK, Given, OneTracked, Tracked, GenerationsOK
<1>3. LocalsOK'
  BY DEF TypeOK, LocalsOK, Given, PlacePoints, LockPoints, RetirePoints,
         AlivePoints, GonePoints, UsePoints
<1>4. Exclusive'
  BY DEF TypeOK, Exclusive
<1>5. ObjectsOK'
  BY DEF TypeOK, ObjectsOK, AlivePoints, GonePoints
<1>6. LockOK'
  BY DEF TypeOK, LockOK, RetirePoints, LockPoints
<1>c. \A m \in Node : Counted(m)' = Counted(m)
  BY DEF TypeOK, Counted, Uses, Given, Node, Element
<1>7. CountOK'
  BY <1>c DEF TypeOK, CountOK, Given
<1>8. AccessOK'
  BY DEF TypeOK, AccessOK, Given
<1>9. InsertedOK'
  BY DEF TypeOK, InsertedOK
<1>10. PayloadShadow'
  BY DEF TypeOK, PayloadShadow, Payload
<1>11. HandsShadow'
  BY DEF TypeOK, HandsShadow, AlivePoints
<1>12. RestShadow'
  <2>1. \A m \in Node, i \in Element : Marks(m, i)' = Marks(m, i)
    BY DEF Marks
  <2> QED
    BY <1>n, <2>1 DEF RestShadow, Given, Tracked, Untouched, Uses
<1>h. \A x \in Blocks : Held(x)' <=> Held(x)
  BY DEF TypeOK, Held, Tracked, Node
<1>a. \A x \in Blocks, u \in Clients : Allocates(u, x)' <=> Allocates(u, x)
  BY DEF TypeOK, Allocates
<1>13. HandsOK'
  BY <1>h, <1>a DEF TypeOK, HandsOK, Placed
<1>14. QuarantineOK'
  BY DEF TypeOK, QuarantineOK
<1>15. RefusedOK'
  BY DEF TypeOK, RefusedOK, Foreign
<1> QED
  BY <1>1, <1>2, <1>3, <1>4, <1>5, <1>6, <1>7, <1>8, <1>9, <1>10, <1>11, <1>12,
     <1>13, <1>14, <1>15 DEF RegionInv

\* The shadow bits of a living element that nobody touches are not set.
LEMMA DestroyKeeps ==
  ASSUME Careful, RegionInv, NEW t \in Clients, NEW n \in Node, NEW i \in Element,
         Destroy(t, n, i)
  PROVE  RegionInv'
<1> USE BoundsAssumption, BlocksAssumption, NullAssumption
    DEF RegionInv, Destroy, Call, Goto, nodeVars, accessVars, memoryVars, blockVars, localVars
<1>p. i \in Counted(n) /\ node[t] = Null /\ idx[t] = Null
  BY DEF Counted, Untouched, LocalsOK, UsePoints, AlivePoints, GonePoints
<1>q. Tracked(n) /\ n < nodeCursor /\ blockBase[n] \in Blocks
  BY <1>p, CountedInUse DEF Tracked, NodesOK, TypeOK
<1>1. TypeOK'
  BY DEF TypeOK, ControlPoints, Kinds
<1>2. NodesOK' /\ OneTracked' /\ GenerationsOK'
  BY DEF NodesOK, Given, OneTracked, Tracked, GenerationsOK
<1>3. LocalsOK'
  BY DEF TypeOK, LocalsOK, Given, PlacePoints, LockPoints, RetirePoints,
         AlivePoints, GonePoints, UsePoints
<1>4. Exclusive'
  BY <1>p DEF TypeOK, Exclusive, Untouched, Uses
<1>5. ObjectsOK'
  BY DEF TypeOK, ObjectsOK, AlivePoints, GonePoints
<1>6. LockOK'
  BY DEF TypeOK, LockOK, RetirePoints, LockPoints
<1>c. \A m \in Node : Counted(m)' = Counted(m)
  BY DEF TypeOK, Counted, Uses, Given, Node, Element
<1>7. CountOK'
  BY <1>c DEF TypeOK, CountOK, Given
<1>8. AccessOK'
  BY DEF TypeOK, AccessOK, Given
<1>9. InsertedOK'
  BY DEF TypeOK, InsertedOK
<1>10. PayloadShadow'
  BY DEF TypeOK, PayloadShadow, Payload
<1>11. HandsShadow'
  BY <1>p, <1>q DEF TypeOK, HandsShadow, RestShadow, Marks, AlivePoints
<1>12. RestShadow'
  <2>1. ASSUME NEW m \in Node, NEW k \in Element, Untouched(m, k)' PROVE Untouched(m, k)
    BY <1>p, <2>1 DEF TypeOK, Untouched, Uses, Node
  <2>2. \A m \in Node, k \in Element : Marks(m, k)' = Marks(m, k)
    BY DEF Marks
  <2> QED
    BY <2>1, <2>2 DEF RestShadow, Given, Tracked
<1>h. \A x \in Blocks : Held(x)' <=> Held(x)
  BY DEF TypeOK, Held, Tracked, Node
<1>a. \A x \in Blocks, u \in Clients : Allocates(u, x)' <=> Allocates(u, x)
  BY DEF TypeOK, Allocates
<1>13. HandsOK'
  BY <1>h, <1>a DEF TypeOK, HandsOK, Placed
<1>14. QuarantineOK'
  BY DEF TypeOK, QuarantineOK
<1>15. RefusedOK'
  BY DEF TypeOK, RefusedOK, Foreign
<1> QED
  BY <1>1, <1>2, <1>3, <1>4, <1>5, <1>6, <1>7, <1>8, <1>9, <1>10, <1>11, <1>12,
     <1>13, <1>14, <1>15 DEF RegionInv

\* Whoever is refused a block with one object is a foreign thread: if the node
\* were locked, the other thread would have the same object in its hands.
LEMMA BeginRefusedKeeps ==
  ASSUME Careful, RegionInv, NEW t \in Clients, BeginRefused(t)
  PROVE  RegionInv'
<1> USE BoundsAssumption, BlocksAssumption, NullAssumption
    DEF RegionInv, BeginRefused, Goto, nodeVars, accessVars, memoryVars, blockVars, localVars
<1>p. /\ node[t] \in Node /\ idx[t] \in Element /\ node[t] # Null
      /\ Given(node[t], idx[t]) /\ Tracked(node[t])
  BY HandsTracked DEF UsePoints, AlivePoints, GonePoints, Node
<1>q. Target(t) = node[t]
  BY TargetIsNode DEF UsePoints, AlivePoints
<1>r. liveCount[node[t]] > 0 /\ state[node[t]] \in {"Live", "Retiring"}
  BY <1>p, HandsCounted, CountedInUse
<1>f. size[node[t]] = 1 => Foreign(t, node[t])
  <2> SUFFICES ASSUME size[node[t]] = 1, ~ Foreign(t, node[t]) PROVE FALSE
    OBVIOUS
  <2> DEFINE u == dtorLock[node[t]]
  <2>1. u # Null
    BY <1>p, <1>q, <1>r DEF Refuses, LockOK
  <2>2. u \in Clients /\ node[u] = node[t] /\ pc[u] \in LockPoints
    BY <1>p, <2>1 DEF LockOK, TypeOK
  <2>3. idx[u] \in Element /\ Given(node[t], idx[u])
    BY <2>2 DEF LocalsOK, UsePoints, LockPoints, RetirePoints, AlivePoints, GonePoints
  <2>4. idx[u] = 0 /\ idx[t] = 0
    BY <1>p, <2>3 DEF Given, Element
  <2>5. u = t
    BY <1>p, <2>2, <2>4 DEF Exclusive
  <2> QED
    BY <2>2, <2>5 DEF LockPoints, RetirePoints
<1>1. TypeOK'
  BY DEF TypeOK, ControlPoints, Kinds
<1>2. NodesOK' /\ OneTracked' /\ GenerationsOK' /\ Exclusive' /\ RestShadow'
  BY DEF NodesOK, Given, OneTracked, Tracked, GenerationsOK, Exclusive, RestShadow, Marks,
         Untouched, Uses
<1>3. LocalsOK'
  BY DEF TypeOK, LocalsOK, Given, PlacePoints, LockPoints, RetirePoints,
         AlivePoints, GonePoints, UsePoints
<1>4. ObjectsOK'
  BY DEF TypeOK, ObjectsOK, AlivePoints, GonePoints
<1>5. LockOK'
  BY DEF TypeOK, LockOK, RetirePoints, LockPoints
<1>c. \A m \in Node : Counted(m)' = Counted(m)
  BY DEF TypeOK, Counted, Uses, Given, Node, Element
<1>6. CountOK'
  BY <1>c DEF TypeOK, CountOK, Given
<1>7. AccessOK'
  BY DEF TypeOK, AccessOK, Given
<1>8. InsertedOK'
  BY DEF TypeOK, InsertedOK
<1>9. PayloadShadow'
  BY DEF TypeOK, PayloadShadow, Payload
<1>10. HandsShadow'
  BY DEF TypeOK, HandsShadow, AlivePoints
<1>h. \A x \in Blocks : Held(x)' <=> Held(x)
  BY DEF TypeOK, Held, Tracked, Node
<1>a. \A x \in Blocks, u \in Clients : Allocates(u, x)' <=> Allocates(u, x)
  BY DEF TypeOK, Allocates
<1>11. HandsOK'
  BY <1>h, <1>a DEF TypeOK, HandsOK, Placed
<1>12. QuarantineOK'
  BY DEF TypeOK, QuarantineOK
<1>13. RefusedOK'
  BY <1>p, <1>f DEF TypeOK, RefusedOK, Foreign
<1> QED
  BY <1>1, <1>2, <1>3, <1>4, <1>5, <1>6, <1>7, <1>8, <1>9, <1>10, <1>11, <1>12,
     <1>13 DEF RegionInv

\* The lookup returns the node of the handle; it is now locked and Retiring.
LEMMA BeginKeeps ==
  ASSUME Careful, RegionInv, NEW t \in Clients, Begin(t)
  PROVE  RegionInv'
<1> USE BoundsAssumption, BlocksAssumption, NullAssumption
    DEF RegionInv, Begin, Goto, nodeVars, accessVars, memoryVars, blockVars, localVars
<1>p. /\ node[t] \in Node /\ idx[t] \in Element /\ node[t] # Null
      /\ Given(node[t], idx[t]) /\ Tracked(node[t])
  BY HandsTracked DEF UsePoints, AlivePoints, GonePoints, Node
<1> DEFINE n == Target(t)
<1>q. n = node[t] /\ n \in Node /\ ~ Foreign(t, n) /\ dtorLock[n] = Null /\ state[n] = "Live"
  BY <1>p, TargetIsNode DEF UsePoints, AlivePoints, Refuses
<1> HIDE DEF n
<1>o. /\ dtorLock' = [dtorLock EXCEPT ![n] = t]
      /\ state'    = [state EXCEPT ![n] = "Retiring"]
      /\ retiring' = [retiring EXCEPT ![t] = n]
  BY DEF n
<1>s. Tracked(n) /\ \A m \in Node : Tracked(m)' <=> Tracked(m)
  BY <1>p, <1>q, <1>o DEF TypeOK, Tracked
<1>l. \A u \in Clients : u # t /\ pc[u] \in LockPoints => node[u] # n /\ node[u] \in Node
  BY <1>q, <1>p DEF LockOK, LocalsOK, LockPoints, RetirePoints, UsePoints, AlivePoints,
                    GonePoints
<1>1. TypeOK'
  BY <1>p, <1>q, <1>o DEF TypeOK, ControlPoints, Kinds
<1>2. GenerationsOK' /\ Exclusive'
  BY DEF GenerationsOK, Exclusive
<1>3. NodesOK'
  BY <1>p, <1>q, <1>o DEF TypeOK, Node, Element, NodesOK, Given
<1>4. OneTracked'
  BY <1>s DEF OneTracked
<1>5. LocalsOK'
  BY <1>p, <1>q, <1>o
     DEF TypeOK, LocalsOK, Given, PlacePoints, LockPoints, RetirePoints,
         AlivePoints, GonePoints, UsePoints
<1>6. ObjectsOK'
  BY DEF TypeOK, ObjectsOK, AlivePoints, GonePoints
<1>7. LockOK'
  BY <1>p, <1>q, <1>o, <1>l DEF TypeOK, LockOK, RetirePoints, LockPoints
<1>c. \A m \in Node : Counted(m)' = Counted(m)
  BY DEF TypeOK, Counted, Uses, Given, Node, Element
<1>8. CountOK'
  BY <1>c, <1>q, <1>o DEF TypeOK, CountOK, Given, Node, Element
<1>9. AccessOK'
  BY DEF TypeOK, AccessOK, Given
<1>i. \A u \in Clients : pc[u] = "access" => size[n] # 0
  BY <1>p, <1>q DEF NodesOK, TypeOK, Element, Given
<1>10. InsertedOK'
  BY <1>q, <1>o, <1>i DEF TypeOK, InsertedOK
<1>11. PayloadShadow'
  BY DEF TypeOK, PayloadShadow, Payload
<1>12. HandsShadow'
  BY DEF TypeOK, HandsShadow, AlivePoints
<1>13. RestShadow'
  BY <1>s DEF TypeOK, RestShadow, Marks, Given, Untouched, Uses
<1>h. \A x \in Blocks : Held(x)' <=> Held(x)
  BY <1>s DEF Held
<1>a. \A x \in Blocks, u \in Clients : Allocates(u, x)' <=> Allocates(u, x)
  BY DEF TypeOK, Allocates
<1>14. HandsOK'
  BY <1>h, <1>a DEF TypeOK, HandsOK, Placed
<1>15. QuarantineOK'
  BY <1>q, <1>o, <1>l DEF TypeOK, QuarantineOK, LockPoints
<1>16. RefusedOK'
  BY DEF TypeOK, RefusedOK, Foreign
<1> QED
  BY <1>1, <1>2, <1>3, <1>4, <1>5, <1>6, <1>7, <1>8, <1>9, <1>10, <1>11, <1>12,
     <1>13, <1>14, <1>15, <1>16 DEF RegionInv

\* Nothing but the kind of the violation changes.
LEMMA ClassifyKeeps ==
  ASSUME Careful, RegionInv, NEW t \in Clients, Classify(t)
  PROVE  RegionInv'
<1> USE BoundsAssumption, BlocksAssumption, NullAssumption
    DEF RegionInv, Classify, Goto, nodeVars, accessVars, memoryVars, blockVars, localVars
<1>1. TypeOK'
  BY DEF TypeOK, ControlPoints, Kinds
<1>2. NodesOK' /\ OneTracked' /\ GenerationsOK' /\ Exclusive' /\ RestShadow'
  BY DEF NodesOK, Given, OneTracked, Tracked, GenerationsOK, Exclusive, RestShadow, Marks,
         Untouched, Uses
<1>3. LocalsOK'
  BY DEF TypeOK, LocalsOK, Given, PlacePoints, LockPoints, RetirePoints,
         AlivePoints, GonePoints, UsePoints
<1>4. ObjectsOK'
  BY DEF TypeOK, ObjectsOK, AlivePoints, GonePoints
<1>5. LockOK'
  BY DEF TypeOK, LockOK, RetirePoints, LockPoints
<1>c. \A m \in Node : Counted(m)' = Counted(m)
  BY DEF TypeOK, Counted, Uses, Given, Node, Element
<1>6. CountOK'
  BY <1>c DEF TypeOK, CountOK, Given
<1>7. AccessOK'
  BY DEF TypeOK, AccessOK, Given
<1>8. InsertedOK'
  BY DEF TypeOK, InsertedOK
<1>9. PayloadShadow'
  BY DEF TypeOK, PayloadShadow, Payload
<1>10. HandsShadow'
  BY DEF TypeOK, HandsShadow, AlivePoints
<1>h. \A x \in Blocks : Held(x)' <=> Held(x)
  BY DEF TypeOK, Held, Tracked, Node
<1>a. \A x \in Blocks, u \in Clients : Allocates(u, x)' <=> Allocates(u, x)
  BY DEF TypeOK, Allocates
<1>11. HandsOK'
  BY <1>h, <1>a DEF TypeOK, HandsOK, Placed
<1>12. QuarantineOK'
  BY DEF TypeOK, QuarantineOK
<1>13. RefusedOK'
  BY DEF TypeOK, RefusedOK, Foreign
<1> QED
  BY <1>1, <1>2, <1>3, <1>4, <1>5, <1>6, <1>7, <1>8, <1>9, <1>10, <1>11, <1>12,
     <1>13 DEF RegionInv

\* The element is given up alive, with shadow bits that are not set.
LEMMA ReportKeeps ==
  ASSUME Careful, RegionInv, NEW t \in Clients, Report(t)
  PROVE  RegionInv'
<1> USE BoundsAssumption, BlocksAssumption, NullAssumption
    DEF RegionInv, Report, Return, Goto, nodeVars, accessVars, memoryVars, blockVars, localVars
<1>p. /\ node[t] \in Node /\ idx[t] \in Element /\ node[t] # Null
      /\ Given(node[t], idx[t]) /\ Tracked(node[t])
  BY HandsTracked DEF UsePoints, AlivePoints, GonePoints, Node
<1>1. TypeOK'
  BY DEF TypeOK, ControlPoints, Kinds
<1>2. NodesOK' /\ OneTracked' /\ GenerationsOK'
  BY DEF NodesOK, Given, OneTracked, Tracked, GenerationsOK
<1>3. LocalsOK'
  BY DEF TypeOK, LocalsOK, Given, PlacePoints, LockPoints, RetirePoints,
         AlivePoints, GonePoints, UsePoints
<1>4. Exclusive'
  BY DEF TypeOK, Exclusive
<1>5. ObjectsOK'
  BY DEF TypeOK, ObjectsOK, AlivePoints, GonePoints
<1>6. LockOK'
  BY DEF TypeOK, LockOK, RetirePoints, LockPoints
<1>c. \A m \in Node : Counted(m)' = Counted(m)
  BY DEF TypeOK, Counted, Uses, Given, Node, Element
<1>7. CountOK'
  BY <1>c DEF TypeOK, CountOK, Given
<1>8. AccessOK'
  BY DEF TypeOK, AccessOK, Given
<1>9. InsertedOK'
  BY DEF TypeOK, InsertedOK
<1>10. PayloadShadow'
  BY DEF TypeOK, PayloadShadow, Payload
<1>11. HandsShadow'
  BY DEF TypeOK, HandsShadow, AlivePoints
<1>12. RestShadow'
  BY <1>p
     DEF TypeOK, RestShadow, Marks, Given, Tracked, Untouched, Uses, ObjectsOK,
         HandsShadow, AlivePoints
<1>h. \A x \in Blocks : Held(x)' <=> Held(x)
  BY DEF TypeOK, Held, Tracked, Node
<1>a. \A x \in Blocks, u \in Clients : Allocates(u, x)' <=> Allocates(u, x)
  BY DEF TypeOK, Allocates
<1>13. HandsOK'
  BY <1>h, <1>a DEF TypeOK, HandsOK, Placed
<1>14. QuarantineOK'
  BY DEF TypeOK, QuarantineOK
<1>15. RefusedOK'
  BY DEF TypeOK, RefusedOK, Foreign
<1> QED
  BY <1>1, <1>2, <1>3, <1>4, <1>5, <1>6, <1>7, <1>8, <1>9, <1>10, <1>11, <1>12,
     <1>13, <1>14, <1>15 DEF RegionInv

\* One element leaves the counted ones and the live count goes down by one; it
\* was not zero, as the element of the thread itself was counted.
LEMMA UncountKeeps ==
  ASSUME Careful, RegionInv, NEW t \in Clients, Uncount(t)
  PROVE  RegionInv'
<1> USE BoundsAssumption, BlocksAssumption, NullAssumption
    DEF RegionInv, Uncount, Goto, nodeVars, accessVars, memoryVars, blockVars, localVars
<1>p. /\ node[t] \in Node /\ idx[t] \in Element /\ node[t] # Null
      /\ Given(node[t], idx[t]) /\ Tracked(node[t])
  BY HandsTracked DEF UsePoints, AlivePoints, GonePoints, Node
<1>n. PICK n \in Node : n = retiring[t]
  BY <1>p DEF LocalsOK, LockPoints, RetirePoints
<1>q. n = node[t] /\ dtorLock[n] = t /\ state[n] = "Retiring"
  BY <1>n, <1>p DEF LocalsOK, LockOK, LockPoints, RetirePoints
<1>r. idx[t] \in Counted(n) /\ liveCount[n] \in 1 .. MaxObjects
  BY <1>p, <1>q, HandsCounted, CountedInUse DEF TypeOK
<1>o. /\ liveCount' = [liveCount EXCEPT ![n] = @ - 1]
      /\ pc' = [pc EXCEPT ![t] = IF liveCount[n] = 1 THEN "invalidate" ELSE "destruct"]
  BY <1>n
<1>l. \A u \in Clients : u # t /\ pc[u] \in LockPoints => node[u] # n
  BY <1>q, <1>p DEF LockOK
<1>e. \A u \in Clients : u # t => ~ (node[u] = n /\ idx[u] = idx[t])
  BY <1>q, <1>p DEF Exclusive
<1>w. /\ \A u \in Clients : u # t => pc'[u] = pc[u]
      /\ pc'[t] \in {"invalidate", "destruct"}
      /\ \A m \in Node : liveCount'[m] = IF m = n THEN liveCount[n] - 1 ELSE liveCount[m]
  BY <1>q, <1>o DEF TypeOK
<1>t. liveCount' \in [Node -> 0 .. MaxObjects] /\ pc' \in [Clients -> ControlPoints]
  BY SMTT(40), <1>q, <1>r, <1>o DEF TypeOK, ControlPoints
<1>1. TypeOK'
  BY <1>t DEF TypeOK, ControlPoints, Kinds
<1>2. NodesOK' /\ OneTracked' /\ GenerationsOK' /\ Exclusive' /\ RestShadow'
  BY DEF NodesOK, Given, OneTracked, Tracked, GenerationsOK, Exclusive, RestShadow, Marks,
         Untouched, Uses
<1>3. LocalsOK'
  BY DEF TypeOK, LocalsOK, Given, PlacePoints, LockPoints, RetirePoints,
         AlivePoints, GonePoints, UsePoints
<1>4. ObjectsOK'
  BY DEF TypeOK, ObjectsOK, AlivePoints, GonePoints
<1>5. LockOK'
  BY DEF TypeOK, LockOK, RetirePoints, LockPoints
<1>c. ASSUME NEW m \in Node, NEW i \in Element, m # n \/ i # idx[t]
      PROVE  i \in Counted(m)' <=> i \in Counted(m)
  BY <1>c, <1>q, <1>w DEF Counted, Uses
<1>d. idx[t] \notin Counted(n)'
  BY <1>q, <1>w DEF Counted, Uses
<1>k. \A m \in Node : Counted(m)' = IF m = n THEN Counted(n) \ {idx[t]} ELSE Counted(m)
  BY <1>c, <1>d, <1>q DEF Counted
<1>i. Cardinality(Counted(n) \ {idx[t]}) = Cardinality(Counted(n)) - 1
  BY <1>r, CountedFinite, FS_RemoveElement
<1>x. ASSUME NEW m \in Node, Given(m, 0) PROVE liveCount'[m] = Cardinality(Counted(m)')
  <2>1. liveCount[m] = Cardinality(Counted(m))
    BY <1>x DEF CountOK
  <2>2. CASE m = n
    BY <2>1, <2>2, <1>k, <1>i, <1>w
  <2>3. CASE m # n
    BY <2>1, <2>3, <1>k, <1>w
  <2> QED
    BY <2>2, <2>3
<1>6. CountOK'
  BY <1>x, <1>q, <1>r, <1>o, <1>l, <1>w
     DEF TypeOK, CountOK, Given, LockPoints, RetirePoints
<1>z. \A u \in Clients : pc[u] = "invalidate" => node[u] # n
  BY <1>q, <1>l DEF LockPoints, RetirePoints
<1>7. AccessOK'
  BY <1>q, <1>r, <1>o, <1>w, <1>z DEF AccessOK, Given
<1>8. InsertedOK'
  BY <1>q, <1>r, <1>o DEF TypeOK, InsertedOK
<1>9. PayloadShadow'
  BY DEF TypeOK, PayloadShadow, Payload
<1>10. HandsShadow'
  BY DEF TypeOK, HandsShadow, AlivePoints
<1>h. \A x \in Blocks : Held(x)' <=> Held(x)
  BY DEF TypeOK, Held, Tracked, Node
<1>a. \A x \in Blocks, u \in Clients : Allocates(u, x)' <=> Allocates(u, x)
  BY DEF TypeOK, Allocates
<1>11. HandsOK'
  BY <1>h, <1>a DEF TypeOK, HandsOK, Placed
<1>12. QuarantineOK'
  BY DEF TypeOK, QuarantineOK
<1>13. RefusedOK'
  BY DEF TypeOK, RefusedOK, Foreign
<1> QED
  BY <1>1, <1>2, <1>3, <1>4, <1>5, <1>6, <1>7, <1>8, <1>9, <1>10, <1>11, <1>12,
     <1>13 DEF RegionInv

\* The live count is zero and stays so: the thread has the node locked.
LEMMA InvalidateKeeps ==
  ASSUME Careful, RegionInv, NEW t \in Clients, Invalidate(t)
  PROVE  RegionInv'
<1> USE BoundsAssumption, BlocksAssumption, NullAssumption
    DEF RegionInv, Invalidate, Goto, nodeVars, accessVars, memoryVars, blockVars, localVars
<1>p. /\ node[t] \in Node /\ idx[t] \in Element /\ node[t] # Null
      /\ Given(node[t], idx[t]) /\ Tracked(node[t])
  BY HandsTracked DEF UsePoints, AlivePoints, GonePoints, Node
<1>q. /\ dtorLock[node[t]] = t /\ liveCount[node[t]] = 0
      /\ \A u \in Clients : u # t /\ pc[u] = "invalidate" => node[u] # node[t]
  BY <1>p DEF LockOK, CountOK, LockPoints, RetirePoints
<1>1. TypeOK'
  BY DEF TypeOK, ControlPoints, Kinds
<1>2. NodesOK' /\ OneTracked' /\ GenerationsOK' /\ Exclusive' /\ RestShadow'
  BY DEF NodesOK, Given, OneTracked, Tracked, GenerationsOK, Exclusive, RestShadow, Marks,
         Untouched, Uses
<1>3. LocalsOK'
  BY DEF TypeOK, LocalsOK, Given, PlacePoints, LockPoints, RetirePoints,
         AlivePoints, GonePoints, UsePoints
<1>4. ObjectsOK'
  BY DEF TypeOK, ObjectsOK, AlivePoints, GonePoints
<1>5. LockOK'
  BY DEF TypeOK, LockOK, RetirePoints, LockPoints
<1>c. \A m \in Node : Counted(m)' = Counted(m)
  BY DEF TypeOK, Counted, Uses, Given, Node, Element
<1>6. CountOK'
  BY <1>c DEF TypeOK, CountOK, Given
<1>7. AccessOK'
  BY <1>p, <1>q DEF TypeOK, AccessOK, Given
<1>8. InsertedOK'
  BY DEF TypeOK, InsertedOK
<1>9. PayloadShadow'
  BY DEF TypeOK, PayloadShadow, Payload
<1>10. HandsShadow'
  BY DEF TypeOK, HandsShadow, AlivePoints
<1>h. \A x \in Blocks : Held(x)' <=> Held(x)
  BY DEF TypeOK, Held, Tracked, Node
<1>a. \A x \in Blocks, u \in Clients : Allocates(u, x)' <=> Allocates(u, x)
  BY DEF TypeOK, Allocates
<1>11. HandsOK'
  BY <1>h, <1>a DEF TypeOK, HandsOK, Placed
<1>12. QuarantineOK'
  BY DEF TypeOK, QuarantineOK
<1>13. RefusedOK'
  BY DEF TypeOK, RefusedOK, Foreign
<1> QED
  BY <1>1, <1>2, <1>3, <1>4, <1>5, <1>6, <1>7, <1>8, <1>9, <1>10, <1>11, <1>12,
     <1>13 DEF RegionInv

\* An element that is not counted any more is gone.
LEMMA DestructKeeps ==
  ASSUME Careful, RegionInv, NEW t \in Clients, Destruct(t)
  PROVE  RegionInv'
<1> USE BoundsAssumption, BlocksAssumption, NullAssumption
    DEF RegionInv, Destruct, Goto, nodeVars, accessVars, memoryVars, blockVars, localVars
<1>p. /\ node[t] \in Node /\ idx[t] \in Element /\ node[t] # Null
      /\ Given(node[t], idx[t]) /\ Tracked(node[t])
  BY HandsTracked DEF UsePoints, AlivePoints, GonePoints, Node
<1>q. retiring[t] = node[t]
  BY DEF LocalsOK, LockPoints, RetirePoints
<1>e. \A u \in Clients : u # t /\ pc[u] \in UsePoints =>
        node[u] \in Node /\ idx[u] \in Element /\ ~ (node[u] = node[t] /\ idx[u] = idx[t])
  BY <1>p DEF Exclusive, LocalsOK
<1>o. /\ object' \in [Node -> [Element -> {"none", "raw", "alive", "gone"}]]
      /\ \A m \in Node, i \in Element :
           object'[m][i] = IF m = node[t] /\ i = idx[t] THEN "gone" ELSE object[m][i]
  <2>1. object[node[t]][idx[t]] # "none"
    BY <1>p DEF NodesOK
  <2>2. object' = [object EXCEPT ![node[t]][idx[t]] = "gone"]
    BY <1>q, <2>1
  <2>3. object \in [Node -> [Element -> {"none", "raw", "alive", "gone"}]]
    BY DEF TypeOK
  <2> HIDE DEF RegionInv, Destruct
  <2> QED
    BY <1>p, <2>2, <2>3
<1>w. \A u \in Clients : u # t => pc'[u] = pc[u]
  BY DEF TypeOK
<1>1. TypeOK'
  BY <1>o DEF TypeOK, ControlPoints, Kinds
<1>2. OneTracked' /\ GenerationsOK' /\ Exclusive'
  BY DEF OneTracked, Tracked, GenerationsOK, Exclusive
<1>3. NodesOK'
  BY <1>p, <1>o DEF TypeOK, NodesOK, Given
<1>4. LocalsOK'
  BY <1>p, <1>o
     DEF TypeOK, LocalsOK, Given, PlacePoints, LockPoints, RetirePoints,
         AlivePoints, GonePoints, UsePoints
<1>5. ObjectsOK'
  BY <1>p, <1>e, <1>o DEF TypeOK, ObjectsOK, AlivePoints, GonePoints, UsePoints
<1>6. LockOK'
  BY DEF TypeOK, LockOK, RetirePoints, LockPoints
<1>c. ASSUME NEW m \in Node, NEW i \in Element
      PROVE  i \in Counted(m)' <=> i \in Counted(m)
  BY <1>p, <1>e, <1>o DEF TypeOK, Counted, Uses
<1>d. \A m \in Node : Counted(m)' = Counted(m)
  BY <1>c DEF Counted
<1>g. \A m \in Node : Given(m, 0)' <=> Given(m, 0)
  BY <1>p, <1>o DEF Given, Element
<1>7. CountOK'
  BY <1>d, <1>g DEF TypeOK, CountOK
<1>8. AccessOK'
  BY <1>p, <1>o DEF TypeOK, AccessOK, Given
<1>9. InsertedOK'
  BY DEF TypeOK, InsertedOK
<1>10. PayloadShadow'
  BY DEF TypeOK, PayloadShadow, Payload
<1>11. HandsShadow'
  BY DEF TypeOK, HandsShadow, AlivePoints
<1>12. RestShadow'
  <2>1. \A m \in Node, k \in Element : Untouched(m, k) => ~ (m = node[t] /\ k = idx[t])
    BY DEF Untouched, Uses
  <2>2. ASSUME NEW m \in Node, NEW k \in Element, Untouched(m, k)
        PROVE  Marks(m, k)' = Marks(m, k)
    <3>1. object'[m][k] = object[m][k]
      BY <1>o, <2>1, <2>2
    <3> QED
      BY <3>1 DEF Marks
  <2> QED
    BY <2>2 DEF RestShadow, Given, Tracked, Untouched, Uses
<1>h. \A x \in Blocks : Held(x)' <=> Held(x)
  BY DEF TypeOK, Held, Tracked, Node
<1>a. \A x \in Blocks, u \in Clients : Allocates(u, x)' <=> Allocates(u, x)
  BY DEF TypeOK, Allocates
<1>13. HandsOK'
  BY <1>h, <1>a DEF TypeOK, HandsOK, Placed
<1>14. QuarantineOK'
  BY DEF TypeOK, QuarantineOK
<1>15. RefusedOK'
  BY DEF TypeOK, RefusedOK, Foreign
<1> QED
  BY <1>1, <1>2, <1>3, <1>4, <1>5, <1>6, <1>7, <1>8, <1>9, <1>10, <1>11, <1>12,
     <1>13, <1>14, <1>15 DEF RegionInv

\* The shadow bits set are those of the element in the thread's hands.
LEMMA PoisonKeeps ==
  ASSUME Careful, RegionInv, NEW t \in Clients, Poison(t)
  PROVE  RegionInv'
<1> USE BoundsAssumption, BlocksAssumption, NullAssumption
    DEF RegionInv, Poison, Goto, nodeVars, accessVars, memoryVars, blockVars, localVars
<1>p. /\ node[t] \in Node /\ idx[t] \in Element /\ node[t] # Null
      /\ Given(node[t], idx[t]) /\ Tracked(node[t])
  BY HandsTracked DEF UsePoints, AlivePoints, GonePoints, Node
<1>q. blockBase[node[t]] \in Blocks
  BY <1>p DEF Tracked, TypeOK
<1>e. \A u \in Clients : u # t /\ pc[u] \in UsePoints =>
        /\ node[u] \in Node /\ idx[u] \in Element /\ ~ (node[u] = node[t] /\ idx[u] = idx[t])
        /\ Tracked(node[u])
  BY <1>p, HandsTracked DEF Exclusive, LocalsOK
<1>w. /\ \A u \in Clients : u # t => pc'[u] = pc[u]
      /\ \A x \in Blocks, i \in Element :
           ~ (x = blockBase[node[t]] /\ i = idx[t]) => shadow'[x][i] = shadow[x][i]
      /\ shadow'[blockBase[node[t]]][idx[t]] \in {"set", "unsure"}
      /\ shadow' \in [Blocks -> [Element -> Bits]]
  <2>1. PICK bits \in {"set", "unsure"} :
          shadow' = [shadow EXCEPT ![blockBase[node[t]]][idx[t]] = bits]
    OBVIOUS
  <2>2. bits \in Bits
    BY DEF Bits
  <2> QED
    BY <1>p, <1>q, <2>1, <2>2 DEF TypeOK
<1>k. \A m \in Node : Tracked(m) /\ m # node[t] => blockBase[m] # blockBase[node[t]]
  BY <1>p DEF OneTracked
<1>b. \A u \in Clients : pc[u] \in {"insert", "access"} => blk[u] # blockBase[node[t]]
  <2>1. ASSUME NEW u \in Clients, pc[u] = "insert" PROVE blk[u] # blockBase[node[t]]
    BY <1>p, <1>q, <2>1 DEF HandsOK, Placed, Held, Allocates
  <2>2. ASSUME NEW u \in Clients, pc[u] = "access" PROVE blk[u] # blockBase[node[t]]
    <3>1. Find(blockBase[node[t]]) = node[t]
      BY <1>p, <1>q, FindTracked
    <3>2. ~ Given(Find(blk[u]), idx[t])
      BY <1>p, <2>2, InsertedFound DEF Given, Element
    <3> QED
      BY <1>p, <3>1, <3>2
  <2> QED
    BY <2>1, <2>2
<1>1. TypeOK'
  BY <1>w DEF TypeOK, ControlPoints, Kinds
<1>2. NodesOK' /\ OneTracked' /\ GenerationsOK' /\ Exclusive'
  BY DEF NodesOK, Given, OneTracked, Tracked, GenerationsOK, Exclusive
<1>3. LocalsOK'
  BY DEF TypeOK, LocalsOK, Given, PlacePoints, LockPoints, RetirePoints,
         AlivePoints, GonePoints, UsePoints
<1>4. ObjectsOK'
  BY DEF TypeOK, ObjectsOK, AlivePoints, GonePoints
<1>5. LockOK'
  BY DEF TypeOK, LockOK, RetirePoints, LockPoints
<1>c. \A m \in Node : Counted(m)' = Counted(m)
  BY DEF TypeOK, Counted, Uses, Given, Node, Element
<1>6. CountOK'
  BY <1>c DEF TypeOK, CountOK, Given
<1>7. AccessOK'
  BY DEF TypeOK, AccessOK, Given
<1>8. InsertedOK'
  BY DEF TypeOK, InsertedOK
<1>9. PayloadShadow'
  <2> SUFFICES ASSUME NEW u \in Clients, pc'[u] \in {"insert", "access"},
                      NEW i \in Payload(u)'
               PROVE  shadow'[blk'[u]][i] = "set"
    BY DEF PayloadShadow
  <2>1. /\ pc[u] \in {"insert", "access"} /\ blk'[u] = blk[u] /\ blk[u] \in Blocks
        /\ i \in Payload(u) /\ i \in Element
    BY DEF TypeOK, LocalsOK, PlacePoints, Payload, Element
  <2>2. shadow'[blk[u]][i] = shadow[blk[u]][i]
    BY <2>1, <1>b, <1>w
  <2> QED
    BY <2>1, <2>2 DEF PayloadShadow
<1>10. HandsShadow'
  BY <1>p, <1>q, <1>e, <1>w, <1>k
     DEF TypeOK, HandsShadow, AlivePoints, Tracked, UsePoints, GonePoints
<1>11. RestShadow'
  <2> SUFFICES ASSUME NEW m \in Node, NEW k \in Element,
                      Given(m, k)', Tracked(m)', Untouched(m, k)'
               PROVE  (shadow[blockBase[m]][k] \in Marks(m, k))'
    BY DEF RestShadow
  <2>1. /\ Given(m, k) /\ Tracked(m) /\ blockBase[m] \in Blocks
        /\ Untouched(m, k) /\ ~ (m = node[t] /\ k = idx[t])
    BY DEF Given, Tracked, TypeOK, Untouched, Uses
  <2>2. Marks(m, k)' = Marks(m, k) /\ shadow'[blockBase[m]][k] = shadow[blockBase[m]][k]
    BY <1>w, <1>k, <2>1 DEF Marks
  <2> QED
    BY <2>1, <2>2 DEF RestShadow
<1>h. \A x \in Blocks : Held(x)' <=> Held(x)
  BY DEF TypeOK, Held, Tracked, Node
<1>a. \A x \in Blocks, u \in Clients : Allocates(u, x)' <=> Allocates(u, x)
  BY DEF TypeOK, Allocates
<1>12. HandsOK'
  BY <1>h, <1>a DEF TypeOK, HandsOK, Placed
<1>13. QuarantineOK'
  BY DEF TypeOK, QuarantineOK
<1>14. RefusedOK'
  BY DEF TypeOK, RefusedOK, Foreign
<1> QED
  BY <1>1, <1>2, <1>3, <1>4, <1>5, <1>6, <1>7, <1>8, <1>9, <1>10, <1>11, <1>12,
     <1>13, <1>14 DEF RegionInv

\* The node leaves Retiring, for Quarantine exactly when no element is counted.
LEMMA EndKeeps ==
  ASSUME Careful, RegionInv, NEW t \in Clients, End(t)
  PROVE  RegionInv'
<1> USE BoundsAssumption, BlocksAssumption, NullAssumption
    DEF RegionInv, End, Goto, nodeVars, accessVars, memoryVars, blockVars, localVars
<1>p. /\ node[t] \in Node /\ idx[t] \in Element /\ node[t] # Null
      /\ Given(node[t], idx[t]) /\ Tracked(node[t])
  BY HandsTracked DEF UsePoints, AlivePoints, GonePoints, Node
<1> DEFINE n == Target(t)
<1>q. n = node[t] /\ n \in Node /\ dtorLock[n] = t /\ state[n] = "Retiring"
  BY <1>p, TargetIsNode DEF UsePoints, GonePoints, LockOK, LockPoints, RetirePoints
<1> HIDE DEF n
<1>o. /\ state' = [state EXCEPT ![n] = IF liveCount[n] = 0 THEN "Quarantine" ELSE "Live"]
      /\ pc' = [pc EXCEPT ![t] = IF liveCount[n] = 0 THEN "unlockLast" ELSE "unlock"]
  BY <1>q DEF n, TypeOK
<1>s. Tracked(n) /\ \A m \in Node : Tracked(m)' <=> Tracked(m)
  BY <1>p, <1>q, <1>o DEF TypeOK, Tracked
<1>l. \A u \in Clients : u # t /\ pc[u] \in LockPoints => node[u] # n
  BY <1>q, <1>p DEF LockOK
<1>1. TypeOK'
  BY <1>q, <1>o DEF TypeOK, ControlPoints, Kinds
<1>2. GenerationsOK' /\ Exclusive'
  BY DEF GenerationsOK, Exclusive
<1>3. NodesOK'
  BY <1>q, <1>o DEF TypeOK, NodesOK, Given
<1>4. OneTracked'
  BY <1>s DEF OneTracked
<1>5. LocalsOK'
  BY <1>q, <1>o
     DEF TypeOK, LocalsOK, Given, PlacePoints, LockPoints, RetirePoints,
         AlivePoints, GonePoints, UsePoints
<1>6. ObjectsOK'
  BY <1>o DEF TypeOK, ObjectsOK, AlivePoints, GonePoints
<1>7. LockOK'
  BY <1>q, <1>o, <1>l DEF TypeOK, LockOK, RetirePoints, LockPoints
<1>c. \A m \in Node : Counted(m)' = Counted(m)
  BY <1>o DEF TypeOK, Counted, Uses, Given, Node, Element
<1>8. CountOK'
  BY <1>c, <1>q, <1>o DEF TypeOK, CountOK, Given
<1>9. AccessOK'
  BY DEF TypeOK, AccessOK, Given
<1>10. InsertedOK'
  BY DEF TypeOK, InsertedOK
<1>11. PayloadShadow'
  BY DEF TypeOK, PayloadShadow, Payload
<1>12. HandsShadow'
  BY DEF TypeOK, HandsShadow, AlivePoints
<1>13. RestShadow'
  BY <1>s DEF TypeOK, RestShadow, Marks, Given, Untouched, Uses
<1>h. \A x \in Blocks : Held(x)' <=> Held(x)
  BY <1>s DEF Held
<1>a. \A x \in Blocks, u \in Clients : Allocates(u, x)' <=> Allocates(u, x)
  BY <1>o DEF TypeOK, Allocates
<1>14. HandsOK'
  BY <1>h, <1>a DEF TypeOK, HandsOK, Placed
<1>15. QuarantineOK'
  BY <1>q, <1>o, <1>l, <1>s DEF QuarantineOK, LockPoints, OneTracked, Tracked
<1>16. RefusedOK'
  BY DEF TypeOK, RefusedOK, Foreign
<1> QED
  BY <1>1, <1>2, <1>3, <1>4, <1>5, <1>6, <1>7, <1>8, <1>9, <1>10, <1>11, <1>12,
     <1>13, <1>14, <1>15, <1>16 DEF RegionInv

\* The node is Live, and free for the next destroy.
LEMMA UnlockKeeps ==
  ASSUME Careful, RegionInv, NEW t \in Clients, Unlock(t)
  PROVE  RegionInv'
<1> USE BoundsAssumption, BlocksAssumption, NullAssumption
    DEF RegionInv, Unlock, Return, Goto, nodeVars, accessVars, memoryVars, blockVars, localVars
<1>p. /\ node[t] \in Node /\ idx[t] \in Element /\ node[t] # Null
      /\ Given(node[t], idx[t]) /\ Tracked(node[t])
  BY HandsTracked DEF UsePoints, AlivePoints, GonePoints, Node
<1>q. retiring[t] = node[t] /\ dtorLock[node[t]] = t
  BY DEF LocalsOK, LockOK, LockPoints, RetirePoints
<1>l. \A u \in Clients : u # t /\ pc[u] \in LockPoints => node[u] # node[t]
  BY <1>q, <1>p DEF LockOK
<1>r. \A u \in Clients : u # t => node'[u] = node[u] /\ idx'[u] = idx[u]
  BY DEF TypeOK
<1>1. TypeOK'
  BY <1>p, <1>q DEF TypeOK, ControlPoints, Kinds
<1>2. OneTracked' /\ GenerationsOK'
  BY DEF OneTracked, Tracked, GenerationsOK
<1>3. NodesOK'
  BY DEF TypeOK, NodesOK, Given
<1>4. LocalsOK'
  BY DEF TypeOK, LocalsOK, Given, PlacePoints, LockPoints, RetirePoints,
         AlivePoints, GonePoints, UsePoints
<1>5. Exclusive'
  BY DEF TypeOK, Exclusive
<1>6. ObjectsOK'
  BY DEF TypeOK, ObjectsOK, AlivePoints, GonePoints
<1>7. LockOK'
  BY <1>p, <1>q, <1>l DEF TypeOK, LockOK, RetirePoints, LockPoints
<1>c. \A m \in Node : Counted(m)' = Counted(m)
  BY DEF TypeOK, Counted, Uses, Given, Node, Element
<1>8. CountOK'
  BY <1>c DEF TypeOK, CountOK, Given
<1>9. AccessOK'
  BY DEF TypeOK, AccessOK, Given
<1>10. InsertedOK'
  BY DEF TypeOK, Node, Element, InsertedOK
<1>11. PayloadShadow'
  BY DEF TypeOK, PayloadShadow, Payload
<1>12. HandsShadow'
  BY DEF TypeOK, HandsShadow, AlivePoints
<1>13. RestShadow'
  <2> SUFFICES ASSUME NEW m \in Node, NEW k \in Element,
                      Given(m, k)', Tracked(m)', Untouched(m, k)'
               PROVE  (shadow[blockBase[m]][k] \in Marks(m, k))'
    BY DEF RestShadow
  <2>1. Given(m, k) /\ Tracked(m)
    BY DEF Given, Tracked
  <2>2. CASE m = node[t] /\ k = idx[t]
    BY <1>p, <2>2 DEF HandsShadow, GonePoints, ObjectsOK, Marks
  <2>3. CASE ~ (m = node[t] /\ k = idx[t])
    <3>1. Untouched(m, k)
      BY <1>r, <2>3 DEF Untouched, Uses
    <3>2. Marks(m, k)' = Marks(m, k)
      BY DEF Marks
    <3> QED
      BY <2>1, <3>1, <3>2 DEF RestShadow
  <2> QED
    BY <2>2, <2>3
<1>h. \A x \in Blocks : Held(x)' <=> Held(x)
  BY DEF TypeOK, Held, Tracked, Node
<1>a. \A x \in Blocks, u \in Clients : Allocates(u, x)' <=> Allocates(u, x)
  BY DEF TypeOK, Allocates
<1>14. HandsOK'
  BY <1>h, <1>a DEF TypeOK, HandsOK, Placed
<1>15. QuarantineOK'
  BY DEF TypeOK, QuarantineOK
<1>16. RefusedOK'
  BY DEF TypeOK, RefusedOK, Foreign
<1> QED
  BY <1>1, <1>2, <1>3, <1>4, <1>5, <1>6, <1>7, <1>8, <1>9, <1>10, <1>11, <1>12,
     <1>13, <1>14, <1>15, <1>16 DEF RegionInv

\* The block enters the quarantine, where no other thread has put it.
LEMMA UnlockLastKeeps ==
  ASSUME Careful, RegionInv, NEW t \in Clients, UnlockLast(t)
  PROVE  RegionInv'
<1> USE BoundsAssumption, BlocksAssumption, NullAssumption
    DEF RegionInv, UnlockLast, Return, Goto, nodeVars, accessVars, memoryVars, blockVars,
        localVars
<1>p. /\ node[t] \in Node /\ idx[t] \in Element /\ node[t] # Null
      /\ Given(node[t], idx[t]) /\ Tracked(node[t])
  BY HandsTracked DEF UsePoints, AlivePoints, GonePoints, Node
<1>q. retiring[t] = node[t] /\ dtorLock[node[t]] = t
  BY DEF LocalsOK, LockOK, LockPoints, RetirePoints
<1>l. \A u \in Clients : u # t /\ pc[u] \in LockPoints => node[u] # node[t]
  BY <1>q, <1>p DEF LockOK
<1>s. state[node[t]] = "Quarantine" /\ blockBase[node[t]] \in Blocks
  BY <1>p DEF LockOK, Tracked, TypeOK
<1>r. \A u \in Clients : u # t => node'[u] = node[u] /\ idx'[u] = idx[u]
  BY DEF TypeOK
<1>1. TypeOK'
  BY <1>p, <1>q, <1>s DEF TypeOK, ControlPoints, Kinds
<1>2. OneTracked' /\ GenerationsOK'
  BY DEF OneTracked, Tracked, GenerationsOK
<1>3. NodesOK'
  BY DEF TypeOK, NodesOK, Given
<1>4. LocalsOK'
  BY DEF TypeOK, LocalsOK, Given, PlacePoints, LockPoints, RetirePoints,
         AlivePoints, GonePoints, UsePoints
<1>5. Exclusive'
  BY DEF TypeOK, Exclusive
<1>6. ObjectsOK'
  BY DEF TypeOK, ObjectsOK, AlivePoints, GonePoints
<1>7. LockOK'
  BY <1>p, <1>q, <1>l, <1>s DEF TypeOK, LockOK, RetirePoints, LockPoints
<1>c. \A m \in Node : Counted(m)' = Counted(m)
  BY DEF TypeOK, Counted, Uses, Given, Node, Element
<1>8. CountOK'
  BY <1>c DEF TypeOK, CountOK, Given
<1>9. AccessOK'
  BY DEF TypeOK, AccessOK, Given
<1>10. InsertedOK'
  BY DEF TypeOK, Node, Element, InsertedOK
<1>11. PayloadShadow'
  BY DEF TypeOK, PayloadShadow, Payload
<1>12. HandsShadow'
  BY DEF TypeOK, HandsShadow, AlivePoints
<1>13. RestShadow'
  <2> SUFFICES ASSUME NEW m \in Node, NEW k \in Element,
                      Given(m, k)', Tracked(m)', Untouched(m, k)'
               PROVE  (shadow[blockBase[m]][k] \in Marks(m, k))'
    BY DEF RestShadow
  <2>1. Given(m, k) /\ Tracked(m)
    BY DEF Given, Tracked
  <2>2. CASE m = node[t] /\ k = idx[t]
    BY <1>p, <2>2 DEF HandsShadow, GonePoints, ObjectsOK, Marks
  <2>3. CASE ~ (m = node[t] /\ k = idx[t])
    <3>1. Untouched(m, k)
      BY <1>r, <2>3 DEF Untouched, Uses
    <3>2. Marks(m, k)' = Marks(m, k)
      BY DEF Marks
    <3> QED
      BY <2>1, <3>1, <3>2 DEF RestShadow
  <2> QED
    BY <2>2, <2>3
<1>h. \A x \in Blocks : Held(x)' <=> Held(x)
  BY DEF TypeOK, Held, Tracked, Node
<1>a. \A x \in Blocks, u \in Clients : Allocates(u, x)' <=> Allocates(u, x)
  BY DEF TypeOK, Allocates
<1>14. HandsOK'
  BY <1>h, <1>a DEF TypeOK, HandsOK, Placed
<1>u. \A u \in Clients : u # t /\ pc[u] = "unlockLast" =>
        blockBase[node[u]] # blockBase[node[t]]
  BY <1>p, <1>l, HandsTracked DEF OneTracked, LockPoints, UsePoints, GonePoints
<1>15. QuarantineOK'
  BY <1>p, <1>s, <1>u DEF TypeOK, QuarantineOK
<1>16. RefusedOK'
  BY DEF TypeOK, RefusedOK, Foreign
<1> QED
  BY <1>1, <1>2, <1>3, <1>4, <1>5, <1>6, <1>7, <1>8, <1>9, <1>10, <1>11, <1>12,
     <1>13, <1>14, <1>15, <1>16 DEF RegionInv

\* The node of a block in the quarantine is in nobody's hands; the block moves
\* from the node to the flush.
LEMMA FlushKeeps ==
  ASSUME Careful, RegionInv, NEW b \in Blocks, Flush(b)
  PROVE  RegionInv'
<1> USE BoundsAssumption, BlocksAssumption, NullAssumption
    DEF RegionInv, Flush, Goto, nodeVars, accessVars, memoryVars, blockVars, localVars
<1>p. PICK n \in Node : blockBase[n] = b /\ state[n] = "Quarantine"
  BY DEF QuarantineOK
<1>q. Tracked(n) /\ Find(b) = n
  BY <1>p, FindTracked DEF Tracked
<1>o. state' = [state EXCEPT ![n] = "Dead"]
  BY <1>p, <1>q DEF TypeOK
<1>s. \A m \in Node : Tracked(m)' <=> Tracked(m) /\ m # n
  BY <1>p, <1>o DEF TypeOK, Tracked
<1>v. \A u \in Clients : pc[u] \in LockPoints => node[u] \in Node /\ node[u] # n
  BY <1>p DEF QuarantineOK, LockOK, LocalsOK, LockPoints, RetirePoints, UsePoints,
              AlivePoints, GonePoints
<1>1. TypeOK'
  BY <1>p, <1>o DEF TypeOK, ControlPoints, Kinds
<1>2. /\ GenerationsOK' /\ LocalsOK' /\ Exclusive' /\ ObjectsOK'
      /\ AccessOK' /\ PayloadShadow' /\ HandsShadow' /\ RefusedOK'
  BY DEF GenerationsOK, LocalsOK, Given, Exclusive, ObjectsOK, AccessOK, PayloadShadow,
         Payload, HandsShadow, RefusedOK, Foreign
<1>3. NodesOK'
  BY <1>p, <1>o DEF TypeOK, NodesOK, Given
<1>4. OneTracked'
  BY <1>s DEF OneTracked
<1>5. LockOK'
  BY <1>p, <1>o, <1>v DEF TypeOK, LockOK, RetirePoints, LockPoints
<1>c. \A m \in Node : Counted(m)' = Counted(m)
  BY DEF Counted, Uses
<1>6. CountOK'
  BY <1>c, <1>p, <1>o DEF TypeOK, CountOK, Given
<1>7. InsertedOK'
  BY <1>p, <1>o DEF TypeOK, InsertedOK
<1>8. RestShadow'
  BY <1>s DEF RestShadow, Marks, Given, Untouched, Uses
<1>h. \A x \in Blocks : Held(x)' <=> Held(x) /\ x # b
  BY <1>p, <1>q, <1>s DEF Held, OneTracked
<1>b. Held(b)
  BY <1>p, <1>q DEF Held
<1>a. \A x \in Blocks, u \in Clients : Allocates(u, x)' <=> Allocates(u, x)
  BY DEF Allocates
<1>9. HandsOK'
  BY <1>h, <1>a, <1>b DEF HandsOK, Placed
<1>10. QuarantineOK'
  BY <1>p, <1>o DEF TypeOK, QuarantineOK
<1> QED
  BY <1>1, <1>2, <1>3, <1>4, <1>5, <1>6, <1>7, <1>8, <1>9, <1>10 DEF RegionInv

\* The block moves from the flush to the user's allocator.
LEMMA FlushReleaseKeeps ==
  ASSUME Careful, RegionInv, FlushRelease
  PROVE  RegionInv'
<1> USE BoundsAssumption, BlocksAssumption, NullAssumption
    DEF RegionInv, FlushRelease, Goto, nodeVars, accessVars, memoryVars, blockVars, localVars
<1>1. TypeOK'
  BY DEF TypeOK, ControlPoints, Kinds
<1>2. /\ NodesOK' /\ OneTracked' /\ GenerationsOK' /\ LocalsOK'
      /\ Exclusive' /\ ObjectsOK' /\ LockOK' /\ CountOK' /\ AccessOK' /\ InsertedOK'
      /\ QuarantineOK' /\ RefusedOK'
  BY SMTT(40)
     DEF NodesOK, Given, OneTracked, Tracked, GenerationsOK, LocalsOK, Exclusive,
         ObjectsOK, LockOK, CountOK, Counted, Uses, AccessOK, InsertedOK, QuarantineOK,
         RefusedOK, Foreign
<1>4. PayloadShadow' /\ HandsShadow' /\ RestShadow'
  BY DEF PayloadShadow, Payload, HandsShadow, RestShadow, Marks, Given, Tracked, Untouched,
         Uses
<1>h. \A x \in Blocks : Held(x)' <=> Held(x)
  BY DEF TypeOK, Held, Tracked, Node
<1>a. \A x \in Blocks, u \in Clients : Allocates(u, x)' <=> Allocates(u, x)
  BY DEF TypeOK, Allocates
<1>3. HandsOK'
  BY <1>h, <1>a DEF TypeOK, HandsOK, Placed
<1> QED
  BY <1>1, <1>2, <1>3, <1>4 DEF RegionInv

-----------------------------------------------------------------------------
(* The theorems. *)

\* A region without allocations.
LEMMA InitInv == Init => RegionInv
<1> SUFFICES ASSUME Init PROVE RegionInv
  OBVIOUS
<1> USE BoundsAssumption, BlocksAssumption, NullAssumption DEF Init
<1>1. TypeOK
  BY DEF TypeOK, ControlPoints, Bits
<1>2. NodesOK /\ OneTracked /\ GenerationsOK
  BY DEF NodesOK, OneTracked, GenerationsOK, Tracked, Given, Node, Element
<1>3. LocalsOK /\ Exclusive /\ ObjectsOK /\ LockOK
  BY DEF LocalsOK, Exclusive, ObjectsOK, LockOK, PlacePoints, LockPoints, RetirePoints,
         AlivePoints, GonePoints, UsePoints
<1>4. \A n \in Node, i \in Element : ~ Given(n, i)
  BY DEF Given, Element
<1>5. CountOK /\ AccessOK /\ InsertedOK
  BY <1>4 DEF CountOK, AccessOK, InsertedOK, Element
<1>6. PayloadShadow /\ HandsShadow /\ RestShadow
  BY <1>4 DEF PayloadShadow, HandsShadow, RestShadow, Marks, AlivePoints
<1>7. HandsOK /\ QuarantineOK /\ RefusedOK
  BY DEF HandsOK, QuarantineOK, RefusedOK, Placed, Held, Tracked, Allocates, Node
<1> QED
  BY <1>1, <1>2, <1>3, <1>5, <1>6, <1>7 DEF RegionInv

\* A step of the region, or one that leaves it alone, keeps the invariant.
LEMMA NextKeeps ==
  ASSUME Careful, RegionInv, [Next]_vars
  PROVE  RegionInv'
<1>1. CASE Next
  BY <1>1, AllocateKeeps, ConstructKeeps, DestroyKeeps, AllocPoisonKeeps, AllocWildKeeps,
     AllocInsertKeeps, AllocRefusedKeeps, AllocGiveBackKeeps, AllocReturnKeeps,
     ConstructNewKeeps, RejectKeeps, RejectedKeeps, BeginRefusedKeeps, BeginKeeps,
     ClassifyKeeps, ReportKeeps,
     UncountKeeps, InvalidateKeeps, DestructKeeps, PoisonKeeps, EndKeeps, UnlockKeeps,
     UnlockLastKeeps, FlushKeeps, FlushReleaseKeeps
  DEF Next, ClientCall, ClientStep, FlushStep, AllocTooLarge, Overflow, EmptyHandle,
      ConstructMisaligned
<1>2. CASE UNCHANGED vars
  <2> USE <1>2 DEF RegionInv, vars, nodeVars, accessVars, memoryVars, blockVars, localVars
  <2>1. TypeOK' /\ NodesOK' /\ OneTracked' /\ GenerationsOK'
    BY DEF TypeOK, NodesOK, OneTracked, GenerationsOK, Tracked, Given
  <2>2. LocalsOK' /\ Exclusive' /\ ObjectsOK' /\ LockOK'
    BY DEF LocalsOK, Exclusive, ObjectsOK, LockOK, Given
  <2>3. \A n \in Node : Counted(n)' = Counted(n)
    BY DEF Counted, Uses
  <2>4. CountOK' /\ AccessOK' /\ InsertedOK'
    BY <2>3 DEF CountOK, AccessOK, InsertedOK, Given
  <2>5. PayloadShadow' /\ HandsShadow' /\ RestShadow'
    BY DEF PayloadShadow, HandsShadow, RestShadow, Marks, Payload, Given, Tracked,
           Untouched, Uses
  <2>6. HandsOK' /\ QuarantineOK' /\ RefusedOK'
    BY DEF HandsOK, QuarantineOK, RefusedOK, Placed, Held, Tracked, Allocates, Foreign
  <2> QED
    BY <2>1, <2>2, <2>4, <2>5, <2>6
<1> QED
  BY <1>1, <1>2

\* For careful clients RegionInv holds in every state the region can be in.
THEOREM RegionInductive == Careful => (Spec => []RegionInv)
<1> SUFFICES ASSUME Careful PROVE Spec => []RegionInv
  OBVIOUS
<1>1. Init => RegionInv
  BY InitInv
<1>2. RegionInv /\ [Next]_vars => RegionInv'
  BY NextKeeps
<1> QED
  BY <1>1, <1>2, PTL DEF Spec

\* Every variable keeps its type; in particular m_LiveCount never wraps below zero.
THEOREM RegionTypes == Careful => (Spec => []TypeOK)
<1>1. RegionInv => TypeOK
  BY DEF RegionInv
<1> QED
  BY <1>1, RegionInductive, PTL

\* A handle whose generation matches has an object left, or is just losing the last.
LEMMA SoundChecks == RegionInv => CheckSound
<1> SUFFICES ASSUME RegionInv, NEW n \in Node, Given(n, 0), CheckPasses(n)
             PROVE  state[n] \in {"Live", "Retiring"}
  BY DEF CheckSound
<1>1. n < nodeCursor /\ generation[n] > 0
  BY BoundsAssumption DEF RegionInv, NodesOK, TypeOK, Node, Element, Given
<1>2. accessGen[n] # 0
  BY <1>1 DEF CheckPasses
<1>3. CASE liveCount[n] > 0
  <2>1. state[n] \notin {"Empty", "Quarantine", "Dead"}
    BY <1>1, <1>3 DEF RegionInv, NodesOK, CountOK
  <2> QED
    BY <2>1 DEF RegionInv, TypeOK
<1>4. ASSUME NEW t \in Clients, node[t] = n, pc[t] = "invalidate"
      PROVE  state[n] = "Retiring"
  BY <1>4 DEF RegionInv, LockOK, RetirePoints
<1> QED
  BY <1>2, <1>3, <1>4 DEF RegionInv, AccessOK

\* A living object is counted, and a counted one keeps its node and access record.
LEMMA UsableAlive == RegionInv => AliveUsable
<1> SUFFICES ASSUME RegionInv, NEW n \in Node, NEW i \in Element, object[n][i] = "alive",
                    \A t \in Clients : Uses(t, n, i) => pc[t] = "begin"
             PROVE  CheckPasses(n) /\ state[n] \in {"Live", "Retiring"}
  BY DEF AliveUsable
<1>1. i \in Counted(n)
  BY DEF Counted
<1>2. liveCount[n] > 0 /\ state[n] \in {"Live", "Retiring"}
  BY <1>1, CountedInUse
<1>3. Given(n, 0)
  BY BoundsAssumption DEF RegionInv, NodesOK, TypeOK, Given, Element
<1> QED
  BY <1>2, <1>3 DEF RegionInv, AccessOK, CheckPasses

\* The nodes that Region can find are the tracked ones.
LEMMA MatchingShadow == RegionInv => ShadowMatches
<1> SUFFICES ASSUME RegionInv, NEW n \in Node, NEW i \in Element,
                    Given(n, i), n \in TrackedAt(blockBase[n]), Untouched(n, i)
             PROVE  shadow[blockBase[n]][i] \in Marks(n, i)
  BY DEF ShadowMatches
<1>1. n < nodeCursor
  BY BoundsAssumption DEF RegionInv, NodesOK, TypeOK, Node, Element, Given
<1>2. Tracked(n)
  BY <1>1 DEF RegionInv, NodesOK, Tracked, TrackedAt
<1> QED
  BY <1>2 DEF RegionInv, RestShadow

\* Each of the four sets has one member when the block is in that hand, else none.
LEMMA OneHand == RegionInv => BlockInOneHand
<1> SUFFICES ASSUME RegionInv, NEW b \in Blocks
             PROVE  1 = Cardinality({t \in Clients : Allocates(t, b)})
                        + Cardinality(TrackedAt(b))
                        + Cardinality({b} \intersect free)
                        + Cardinality({b} \intersect {flushed})
  BY DEF BlockInOneHand
<1> DEFINE A == {t \in Clients : Allocates(t, b)}
           T == TrackedAt(b)
           F == {b} \intersect free
           X == {b} \intersect {flushed}
<1>1. Cardinality(A) = IF Placed(b) THEN 1 ELSE 0
  <2>1. CASE Placed(b)
    <3>1. PICK t \in Clients : Allocates(t, b)
      BY <2>1 DEF Placed
    <3>2. A = {t}
      BY <3>1 DEF RegionInv, HandsOK
    <3> QED
      BY <2>1, <3>2, FS_Singleton
  <2>2. CASE ~ Placed(b)
    <3>1. A = {}
      BY <2>2 DEF Placed
    <3> QED
      BY <2>2, <3>1, FS_EmptySet
  <2> QED
    BY <2>1, <2>2
<1>2. Cardinality(T) = IF Held(b) THEN 1 ELSE 0
  <2>1. CASE Held(b)
    <3>1. PICK n \in Node : Tracked(n) /\ blockBase[n] = b
      BY <2>1 DEF Held
    <3>2. T = {n}
      BY <3>1 DEF RegionInv, OneTracked, TrackedAt, Tracked
    <3> QED
      BY <2>1, <3>2, FS_Singleton
  <2>2. CASE ~ Held(b)
    <3>1. T = {}
      BY <2>2, BlocksAssumption DEF Held, TrackedAt, Tracked
    <3> QED
      BY <2>2, <3>1, FS_EmptySet
  <2> QED
    BY <2>1, <2>2
<1>3. Cardinality(F) = IF b \in free THEN 1 ELSE 0
  <2>1. CASE b \in free
    <3>1. F = {b}
      BY <2>1
    <3> QED
      BY <2>1, <3>1, FS_Singleton
  <2>2. CASE b \notin free
    <3>1. F = {}
      BY <2>2
    <3> QED
      BY <2>2, <3>1, FS_EmptySet
  <2> QED
    BY <2>1, <2>2
<1>4. Cardinality(X) = IF b = flushed THEN 1 ELSE 0
  <2>1. CASE b = flushed
    <3>1. X = {b}
      BY <2>1
    <3> QED
      BY <2>1, <3>1, FS_Singleton
  <2>2. CASE b # flushed
    <3>1. X = {}
      BY <2>2
    <3> QED
      BY <2>2, <3>1, FS_EmptySet
  <2> QED
    BY <2>1, <2>2
<1> HIDE DEF A, T, F, X
<1>5. 1 = Cardinality(A) + Cardinality(T) + Cardinality(F) + Cardinality(X)
  BY <1>1, <1>2, <1>3, <1>4 DEF RegionInv, HandsOK
<1> QED
  BY <1>5 DEF A, T, F, X

\* What RefusedOK keeps of a refused thread.
LEMMA OnlyForeignRefused == RegionInv => SingleObjectDestroyed
  BY DEF RegionInv, SingleObjectDestroyed, RefusedOK, Foreign

\* A handle passes its check only while its block belongs to it.
THEOREM ChecksAreSound == Careful => (Spec => []CheckSound)
  BY RegionInductive, SoundChecks, PTL

\* A living object can be used, whoever destroys the other ones of its block.
THEOREM AliveIsUsable == Careful => (Spec => []AliveUsable)
  BY RegionInductive, UsableAlive, PTL

\* The shadow bits of every element are those that its own last call left: the
\* pages that cannot be committed or are not resident are the only exception.
THEOREM ShadowBitsMatch == Careful => (Spec => []ShadowMatches)
  BY RegionInductive, MatchingShadow, PTL

\* No block is lost, given out twice or given back twice.
THEOREM BlocksInOneHand == Careful => (Spec => []BlockInOneHand)
  BY RegionInductive, OneHand, PTL

\* The destroy of an object that is alone in its block fails on a foreign thread
\* only.  (That of an element of an array also fails while m_DtorLock is taken.)
THEOREM OnlyForeignFail == Careful => (Spec => []SingleObjectDestroyed)
  BY RegionInductive, OnlyForeignRefused, PTL

-----------------------------------------------------------------------------
(* The registry's view of a base is a BlockLifecycle. *)

\* What a node that tracks a base says is the status of the base.
LEMMA StatusIs ==
  RegionInv => \A b \in Blocks :
    /\ ~ Held(b) => StatusOf(b) = "Absent"
    /\ \A n \in Node : Tracked(n) /\ blockBase[n] = b => StatusOf(b) = state[n]
<1> SUFFICES ASSUME RegionInv, NEW b \in Blocks
             PROVE  /\ ~ Held(b) => StatusOf(b) = "Absent"
                    /\ \A n \in Node : Tracked(n) /\ blockBase[n] = b => StatusOf(b) = state[n]
  OBVIOUS
<1>1. ~ Held(b) => StatusOf(b) = "Absent"
  BY FindHeld DEF StatusOf
<1>2. ASSUME NEW n \in Node, Tracked(n), blockBase[n] = b PROVE StatusOf(b) = state[n]
  <2>1. Find(b) = n
    BY <1>2, FindTracked DEF RegionInv
  <2>2. n # Null
    BY BoundsAssumption, NullAssumption DEF Node
  <2> QED
    BY <2>1, <2>2 DEF StatusOf
<1> QED
  BY <1>1, <1>2

\* The same after a step.
LEMMA StatusIsAfter ==
  RegionInv' => \A b \in Blocks :
    /\ ~ Held(b)' => StatusOf(b)' = "Absent"
    /\ \A n \in Node : Tracked(n)' /\ blockBase'[n] = b => StatusOf(b)' = state'[n]
<1>1. (RegionInv => \A b \in Blocks :
         /\ ~ Held(b) => StatusOf(b) = "Absent"
         /\ \A n \in Node : Tracked(n) /\ blockBase[n] = b => StatusOf(b) = state[n])'
  BY StatusIs, PTL
<1> QED
  BY <1>1

\* A base keeps its status in a step that leaves its nodes alone.
LEMMA StatusKept ==
  ASSUME RegionInv, RegionInv', NEW b \in Blocks,
         \A n \in Node : blockBase[n] = b \/ blockBase'[n] = b =>
           blockBase'[n] = blockBase[n] /\ state'[n] = state[n]
  PROVE  StatusOf(b)' = StatusOf(b)
<1>1. CASE Held(b)
  <2>1. PICK n \in Node : Tracked(n) /\ blockBase[n] = b
    BY <1>1 DEF Held
  <2>2. Tracked(n)' /\ blockBase'[n] = b /\ state'[n] = state[n]
    BY <2>1 DEF Tracked
  <2> QED
    BY <2>1, <2>2, StatusIs, StatusIsAfter
<1>2. CASE ~ Held(b)
  <2>1. ~ Held(b)'
    BY <1>2 DEF Held, Tracked
  <2> QED
    BY <1>2, <2>1, StatusIs, StatusIsAfter
<1> QED
  BY <1>1, <1>2

\* Its last generation changes only with its nodes.
LEMMA GenerationKept ==
  ASSUME NEW b,
         \A n \in Node : blockBase[n] = b \/ blockBase'[n] = b =>
           blockBase'[n] = blockBase[n] /\ generation'[n] = generation[n]
  PROVE  LastGeneration(b)' = LastGeneration(b)
<1> DEFINE older == {generation[n] : n \in {m \in Node : blockBase[m] = b}}
           newer == {generation'[n] : n \in {m \in Node : blockBase'[m] = b}}
<1>1. {m \in Node : blockBase'[m] = b} = {m \in Node : blockBase[m] = b}
  OBVIOUS
<1>2. newer = older
  BY <1>1
<1>3. LastGeneration(b) = IF older = {} THEN 0
                          ELSE CHOOSE g \in older : \A h \in older : h <= g
  BY DEF LastGeneration
<1>4. LastGeneration(b)' = IF newer = {} THEN 0
                           ELSE CHOOSE g \in newer : \A h \in newer : h <= g
  BY DEF LastGeneration
<1> HIDE DEF older, newer
<1> QED
  BY <1>2, <1>3, <1>4

\* What the last generation is, after a step.
LEMMA LastGenerationAfter ==
  TypeOK' /\ GenerationsOK' => \A b \in Blocks :
    /\ LastGeneration(b)' \in Nat
    /\ \A n \in Node : blockBase'[n] = b => generation'[n] <= LastGeneration(b)'
    /\ ~ (\A n \in Node : blockBase'[n] # b) =>
         \E n \in Node : blockBase'[n] = b /\ generation'[n] = LastGeneration(b)'
<1>1. TypeOK /\ GenerationsOK => \A b \in Blocks :
        /\ LastGeneration(b) \in Nat
        /\ \A n \in Node : blockBase[n] = b => generation[n] <= LastGeneration(b)
        /\ ~ (\A n \in Node : blockBase[n] # b) =>
             \E n \in Node : blockBase[n] = b /\ generation[n] = LastGeneration(b)
  BY LastGenerationIsGreatest
<1>2. (TypeOK /\ GenerationsOK => \A b \in Blocks :
        /\ LastGeneration(b) \in Nat
        /\ \A n \in Node : blockBase[n] = b => generation[n] <= LastGeneration(b)
        /\ ~ (\A n \in Node : blockBase[n] # b) =>
             \E n \in Node : blockBase[n] = b /\ generation[n] = LastGeneration(b))'
  BY <1>1, PTL
<1> QED
  BY <1>2

\* The abstract variables.
Status  == [b \in Blocks |-> StatusOf(b)]
LastGen == [b \in Blocks |-> LastGeneration(b)]

\* A step that changes no node's state is a stutter of the life cycle.
LEMMA LifecycleStutters ==
  ASSUME RegionInv, RegionInv', UNCHANGED <<state, blockBase, generation>>
  PROVE  UNCHANGED <<Status, LastGen>>
<1>1. \A b \in Blocks : StatusOf(b)' = StatusOf(b)
  BY StatusKept
<1>2. \A b \in Blocks : LastGeneration(b)' = LastGeneration(b)
  BY GenerationKept
<1> QED
  BY <1>1, <1>2 DEF Status, LastGen

\* A step that changes the state of one tracked node moves its base.
LEMMA NodeMoves ==
  ASSUME RegionInv, RegionInv', NEW n \in Node, Tracked(n), NEW b \in Blocks,
         b = blockBase[n], NEW s, state' = [state EXCEPT ![n] = s],
         UNCHANGED <<blockBase, generation>>
  PROVE  /\ Status[b] = state[n]
         /\ Status' = [Status EXCEPT ![b] = IF s = "Dead" THEN "Absent" ELSE s]
         /\ LastGen' = LastGen
<1>1. Status[b] = state[n]
  BY StatusIs DEF Status
<1>2. ASSUME NEW x \in Blocks, x # b PROVE StatusOf(x)' = StatusOf(x)
  BY <1>2, StatusKept DEF RegionInv, TypeOK
<1>3. StatusOf(b)' = IF s = "Dead" THEN "Absent" ELSE s
  <2>1. CASE s = "Dead"
    <3>1. ~ Held(b)'
      BY <2>1 DEF Held, Tracked, RegionInv, OneTracked, TypeOK
    <3> QED
      BY <2>1, <3>1, StatusIsAfter
  <2>2. CASE s # "Dead"
    <3>1. Tracked(n)' /\ blockBase'[n] = b /\ state'[n] = s
      BY <2>2 DEF Tracked, RegionInv, TypeOK
    <3> QED
      BY <2>2, <3>1, StatusIsAfter
  <2> QED
    BY <2>1, <2>2
<1>4. \A x \in Blocks : LastGeneration(x)' = LastGeneration(x)
  BY GenerationKept
<1> QED
  BY <1>1, <1>2, <1>3, <1>4 DEF Status, LastGen

\* AllocInsert is an Insert at its base.
LEMMA InsertImplements ==
  ASSUME RegionInv, RegionInv', NEW t \in Clients, AllocInsert(t)
  PROVE  Lifecycle!Next
<1> DEFINE b == blk[t]
<1>n. PICK n \in Node : n = nodeCursor
  BY BoundsAssumption DEF AllocInsert, RegionInv, TypeOK, Node
<1>p. /\ b \in Blocks /\ blockBase[n] = Null /\ ~ Held(b) /\ pc[t] = "insert"
      /\ state' = [state EXCEPT ![n] = "Live"]
      /\ blockBase' = [blockBase EXCEPT ![n] = b]
      /\ generation' = [generation EXCEPT ![n] = LastGeneration(b) + 1]
  <2>1. b \in Blocks /\ blockBase[n] = Null
    BY <1>n DEF AllocInsert, RegionInv, LocalsOK, NodesOK, TypeOK, PlacePoints, Node
  <2> QED
    BY <1>n, <2>1, FindHeld DEF AllocInsert, NextGeneration
<1> HIDE DEF b
<1>c. b \in Blocks
  BY <1>p
<1>b. PICK x \in Blocks : x = b
  BY <1>c
<1>t. /\ state \in [Node -> {"Empty", "Live", "Retiring", "Quarantine", "Dead"}]
      /\ blockBase \in [Node -> Blocks \union {Null}] /\ generation \in [Node -> Nat]
  BY DEF RegionInv, TypeOK
<1>1. StatusOf(x) = "Absent"
  BY <1>p, <1>b, StatusIs
<1>2. StatusOf(x)' = "Live"
  <2>1. Tracked(n)' /\ blockBase'[n] = x /\ state'[n] = "Live"
    BY <1>p, <1>b, <1>t, BlocksAssumption DEF Tracked
  <2> QED
    BY <2>1, StatusIsAfter
<1>3. ASSUME NEW y \in Blocks, y # x
      PROVE  StatusOf(y)' = StatusOf(y) /\ LastGeneration(y)' = LastGeneration(y)
  <2>1. \A m \in Node : blockBase[m] = y \/ blockBase'[m] = y =>
          /\ blockBase'[m] = blockBase[m] /\ state'[m] = state[m]
          /\ generation'[m] = generation[m]
    BY <1>3, <1>p, <1>b, <1>t, BlocksAssumption
  <2> QED
    BY <2>1, StatusKept, GenerationKept
<1>4. LastGeneration(x)' = LastGeneration(x) + 1
  <2>1. /\ LastGeneration(x) \in Nat
        /\ \A m \in Node : blockBase[m] = x => generation[m] <= LastGeneration(x)
    BY LastGenerationIsGreatest DEF RegionInv
  <2>2. blockBase'[n] = x /\ generation'[n] = LastGeneration(x) + 1
    BY <1>p, <1>b, <1>t
  <2>3. \A m \in Node : blockBase'[m] = x => generation'[m] <= LastGeneration(x) + 1
    BY <1>p, <1>b, <1>t, <2>1
  <2>4. /\ LastGeneration(x)' \in Nat /\ generation'[n] <= LastGeneration(x)'
        /\ \E m \in Node : blockBase'[m] = x /\ generation'[m] = LastGeneration(x)'
    BY <2>2, LastGenerationAfter DEF RegionInv
  <2> QED
    BY <2>1, <2>2, <2>3, <2>4
<1>5. /\ Status[x] = "Absent"
      /\ Status' = [Status EXCEPT ![x] = "Live"]
      /\ LastGen' = [LastGen EXCEPT ![x] = @ + 1]
  BY <1>1, <1>2, <1>3, <1>4 DEF Status, LastGen
<1> QED
  BY <1>5 DEF Lifecycle!Next, Lifecycle!Insert, Status, LastGen

\* Begin moves the base from Live to Retiring.
LEMMA BeginImplements ==
  ASSUME RegionInv, RegionInv', NEW t \in Clients, Begin(t)
  PROVE  Lifecycle!Next
<1>n. PICK n \in Node : n = Target(t)
  BY HandsTracked, TargetIsNode DEF Begin, UsePoints, AlivePoints
<1>1. n = node[t] /\ Tracked(n) /\ blockBase[n] \in Blocks
  BY <1>n, HandsTracked, TargetIsNode DEF Begin, UsePoints, AlivePoints
<1>b. PICK b \in Blocks : b = blockBase[n]
  BY <1>1
<1>2. /\ state[n] = "Live" /\ state' = [state EXCEPT ![n] = "Retiring"]
      /\ UNCHANGED <<blockBase, generation>>
  BY <1>n, BoundsAssumption, NullAssumption DEF Begin, Refuses, Node
<1>3. /\ Status[b] = "Live" /\ Status' = [Status EXCEPT ![b] = "Retiring"]
      /\ LastGen' = LastGen
  BY ZenonT(40), <1>1, <1>b, <1>2, NodeMoves
<1> QED
  BY <1>3 DEF Lifecycle!Next, Lifecycle!BeginRetiring, Lifecycle!Move, Status, LastGen

\* End moves it back, or on to Quarantine.
LEMMA EndImplements ==
  ASSUME RegionInv, RegionInv', NEW t \in Clients, End(t)
  PROVE  Lifecycle!Next
<1>n. PICK n \in Node : n = Target(t)
  BY HandsTracked, TargetIsNode DEF End, UsePoints, GonePoints
<1>1. n = node[t] /\ Tracked(n) /\ blockBase[n] \in Blocks
  BY <1>n, HandsTracked, TargetIsNode DEF End, UsePoints, GonePoints
<1>b. PICK b \in Blocks : b = blockBase[n]
  BY <1>1
<1>s. PICK s \in {"Live", "Quarantine"} : s = IF liveCount[n] = 0 THEN "Quarantine" ELSE "Live"
  OBVIOUS
<1>2. /\ state[n] = "Retiring" /\ state' = [state EXCEPT ![n] = s]
      /\ UNCHANGED <<blockBase, generation>>
  <2>1. state[n] = "Retiring"
    BY <1>1 DEF End, RegionInv, LockOK, RetirePoints
  <2> QED
    BY <1>n, <1>s, <2>1 DEF End, RegionInv, TypeOK
<1>3. /\ Status[b] = "Retiring" /\ Status' = [Status EXCEPT ![b] = s] /\ LastGen' = LastGen
  <2>1. /\ Status[b] = "Retiring" /\ LastGen' = LastGen
        /\ Status' = [Status EXCEPT ![b] = IF s = "Dead" THEN "Absent" ELSE s]
    BY <1>1, <1>b, <1>2, NodeMoves DEF Status, LastGen
  <2> QED
    BY <2>1, <1>s
<1> QED
  BY <1>3 DEF Lifecycle!Next, Lifecycle!KeepLive, Lifecycle!Quarantine, Lifecycle!Move,
              Status, LastGen

\* Flush retires it.
LEMMA FlushImplements ==
  ASSUME RegionInv, RegionInv', NEW b \in Blocks, Flush(b)
  PROVE  Lifecycle!Next
<1>n. PICK n \in Node : blockBase[n] = b /\ state[n] = "Quarantine"
  BY DEF Flush, RegionInv, QuarantineOK
<1>1. Tracked(n) /\ Find(b) = n
  BY <1>n, BlocksAssumption, FindTracked DEF Tracked, RegionInv
<1>2. state' = [state EXCEPT ![n] = "Dead"] /\ UNCHANGED <<blockBase, generation>>
  <2>1. state' = [m \in Node |->
                    IF m = n /\ state[m] = "Quarantine" THEN "Dead" ELSE state[m]]
    BY <1>1 DEF Flush
  <2>2. state \in [Node -> {"Empty", "Live", "Retiring", "Quarantine", "Dead"}]
    BY DEF RegionInv, TypeOK
  <2> QED
    BY <1>n, <2>1, <2>2 DEF Flush
<1>3. /\ Status[b] = "Quarantine" /\ Status' = [Status EXCEPT ![b] = "Absent"]
      /\ LastGen' = LastGen
  BY <1>n, <1>1, <1>2, NodeMoves
<1> QED
  BY <1>3 DEF Lifecycle!Next, Lifecycle!Retire, Lifecycle!Move, Status, LastGen

\* Every other step is a stutter of the life cycle.
LEMMA LifecycleStep ==
  ASSUME RegionInv, RegionInv', [Next]_vars
  PROVE  [Lifecycle!Next]_<<Status, LastGen>>
<1>1. ASSUME NEW t \in Clients, AllocInsert(t) PROVE Lifecycle!Next
  BY <1>1, InsertImplements
<1>2. ASSUME NEW t \in Clients, Begin(t) PROVE Lifecycle!Next
  BY <1>2, BeginImplements
<1>3. ASSUME NEW t \in Clients, End(t) PROVE Lifecycle!Next
  BY <1>3, EndImplements
<1>4. ASSUME NEW b \in Blocks, Flush(b) PROVE Lifecycle!Next
  BY <1>4, FlushImplements
<1>5. ASSUME UNCHANGED <<state, blockBase, generation>> PROVE UNCHANGED <<Status, LastGen>>
  BY <1>5, LifecycleStutters
<1>6. CASE Next
  <2>1. ASSUME NEW t \in Clients, ClientCall(t)
        PROVE  UNCHANGED <<state, blockBase, generation>>
    BY <2>1 DEF ClientCall, Allocate, Construct, Destroy, Reject, AllocTooLarge, Overflow,
               EmptyHandle, ConstructMisaligned, nodeVars
  <2>2. ASSUME NEW t \in Clients, ClientStep(t)
        PROVE  \/ AllocInsert(t) \/ Begin(t) \/ End(t)
               \/ UNCHANGED <<state, blockBase, generation>>
    BY <2>2 DEF ClientStep, AllocPoison, AllocWild, AllocRefused, AllocGiveBack, AllocReturn,
       ConstructNew, Rejected, BeginRefused, Classify, Report, Uncount, Invalidate,
       Destruct, Poison,
       Unlock, UnlockLast, nodeVars
  <2>3. FlushRelease => UNCHANGED <<state, blockBase, generation>>
    BY DEF FlushRelease, nodeVars
  <2> QED
    BY <1>1, <1>2, <1>3, <1>4, <1>5, <1>6, <2>1, <2>2, <2>3 DEF Next, FlushStep
<1>7. CASE UNCHANGED vars
  BY <1>5, <1>7 DEF vars, nodeVars
<1> QED
  BY <1>6, <1>7

\* Region uses the registry as what AllocationRegistry is shown to be: an atomic
\* life cycle of every base.
THEOREM RegionRefinesLifecycle == Careful => (Spec => RefinesLifecycle)
<1> SUFFICES ASSUME Careful PROVE Spec => RefinesLifecycle
  OBVIOUS
<1>1. Init => Lifecycle!Init
  <2> SUFFICES ASSUME Init PROVE Lifecycle!Init
    OBVIOUS
  <2>1. ASSUME NEW b \in Blocks PROVE StatusOf(b) = "Absent" /\ LastGeneration(b) = 0
    <3>1. \A n \in Node : blockBase[n] # b
      BY BlocksAssumption DEF Init
    <3>2. RegionInv /\ ~ Held(b)
      BY <3>1, InitInv DEF Held
    <3> QED
      BY <3>1, <3>2, StatusIs, LastGenerationIsGreatest DEF RegionInv
  <2> QED
    BY <2>1 DEF Lifecycle!Init
<1>2. RegionInv /\ RegionInv' /\ [Next]_vars
        => [Lifecycle!Next]_<<[b \in Blocks |-> StatusOf(b)],
                              [b \in Blocks |-> LastGeneration(b)]>>
  BY LifecycleStep DEF Status, LastGen
<1>3. Spec => []RegionInv
  BY RegionInductive
<1> QED
  BY <1>1, <1>2, <1>3, PTL DEF Spec, RefinesLifecycle, Lifecycle!Spec, Lifecycle!lifecycleVars
=============================================================================

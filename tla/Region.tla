------------------------------- MODULE Region -------------------------------
(***************************************************************************)
(* Region::allocate, construct and destroy and the handles they work on    *)
(* (Region.h, ShadowedMemory.h), over a registry whose lookups and inserts *)
(* are atomic, as BlockLifecycle allows, and a quarantine that retires its *)
(* blocks in any order at any time.                                        *)
(*                                                                         *)
(* A node of the registry, the access record of the same index and the     *)
(* handle given out for it are one number n: nodes are never reused.  A    *)
(* handle of element i is n and i.  Elements take 8 bytes or more, so no   *)
(* two of them have bits in one byte of the shadow map.  What _setShadow   *)
(* makes of an element's bits depends on the pages of the map: it gives up *)
(* at one that cannot be committed when it sets bits, and passes over one  *)
(* that is not resident when it clears them.                               *)
(***************************************************************************)
EXTENDS Integers, FiniteSets

CONSTANTS
  Clients,        \* threads that use the region
  Blocks,         \* blocks the user's allocator gives out
  Outside,        \* those of them that are outside the region's range
  NodeCapacity,   \* v_AllocationRegistryCapacity
  MaxObjects,     \* largest v_Count of an allocate
  Policies,       \* values of ThreadPolicyT to consider
  Careful,        \* clients construct an object and destroy it once; otherwise
                  \* they may do either through any handle they were given
  Null

ASSUME BoundsAssumption  == NodeCapacity \in Nat /\ MaxObjects \in Nat \ {0}
ASSUME BlocksAssumption  == Outside \subseteq Blocks /\ Null \notin Blocks \union Clients
ASSUME PolicyAssumption  == Policies \subseteq {"Strict", "Flexible"}
ASSUME CarefulAssumption == Careful \in BOOLEAN
ASSUME NullAssumption    == Null \notin Nat

Node    == 0 .. NodeCapacity - 1
Element == 0 .. MaxObjects - 1

\* All bits of an element are set or all are clear, or _setShadow did not reach
\* all of them the last time: it returned early, or passed over some.
Bits == {"set", "clear", "unsure"}

VARIABLES
  policy,         \* ThreadPolicyT
  nodeCursor,     \* nodes inserted
  state,          \* state[n] ... generation[n]: the node, as in AllocationRegistry
  blockBase,
  liveCount,
  threadID,
  dtorLock,
  generation,
  size,           \* size[n]: m_UserSize of the access record, in elements
  accessGen,      \* accessGen[n]: m_Generation of the access record
  shadow,         \* shadow[b][i]: bits of element i of b, see Bits
  object,         \* object[n][i]: what the clients keep in element i
  free,           \* blocks the user's allocator may give out
  quarantine,     \* blocks in the quarantine queue
  flushed,        \* the block a flush has retired and not deallocated yet
  pc,             \* control point of each client
  blk,            \* blk[t] ... kind[t]: locals of its operation
  len,
  node,
  idx,
  retiring,
  kind            \* of the violation that a refused allocate or destroy reports

nodeVars == <<nodeCursor, state, blockBase, liveCount, threadID, dtorLock, generation>>
accessVars == <<size, accessGen>>
memoryVars == <<shadow, object>>
blockVars == <<free, quarantine, flushed>>
localVars == <<blk, len, node, idx, retiring, kind>>
vars == <<policy, nodeVars, accessVars, memoryVars, blockVars, pc, localVars>>

Init ==
  /\ policy     \in Policies
  /\ nodeCursor = 0
  /\ state      = [n \in Node |-> "Empty"]
  /\ blockBase  = [n \in Node |-> Null]
  /\ liveCount  = [n \in Node |-> 0]
  /\ threadID   = [n \in Node |-> Null]
  /\ dtorLock   = [n \in Node |-> Null]
  /\ generation = [n \in Node |-> 0]
  /\ size       = [n \in Node |-> 0]
  /\ accessGen  = [n \in Node |-> 0]
  /\ shadow     = [b \in Blocks |-> [i \in Element |-> "clear"]]
  /\ object     = [n \in Node |-> [i \in Element |-> "none"]]
  /\ free       = Blocks
  /\ quarantine = {}
  /\ flushed    = Null
  /\ pc         = [t \in Clients |-> "idle"]
  /\ blk        = [t \in Clients |-> Null]
  /\ len        = [t \in Clients |-> 0]
  /\ node       = [t \in Clients |-> Null]
  /\ idx        = [t \in Clients |-> Null]
  /\ retiring   = [t \in Clients |-> Null]
  /\ kind       = [t \in Clients |-> Null]

Goto(t, label) == pc' = [pc EXCEPT ![t] = label]

Return(t) ==
  /\ Goto(t, "idle")
  /\ blk'      = [blk EXCEPT ![t] = Null]
  /\ len'      = [len EXCEPT ![t] = 0]
  /\ node'     = [node EXCEPT ![t] = Null]
  /\ idx'      = [idx EXCEPT ![t] = Null]
  /\ retiring' = [retiring EXCEPT ![t] = Null]
  /\ kind'     = [kind EXCEPT ![t] = Null]

TrackedAt(b) == {n \in Node : blockBase[n] = b /\ state[n] # "Dead"}

\* AllocationRegistry::find.
Find(b) == IF TrackedAt(b) = {} THEN Null ELSE CHOOSE n \in TrackedAt(b) : TRUE

\* The greatest generation of the nodes, dead or not, that base b ever had.
LastGeneration(b) ==
  LET older == {generation[n] : n \in {m \in Node : blockBase[m] = b}}
  IN IF older = {} THEN 0 ELSE CHOOSE g \in older : \A h \in older : h <= g

\* Mutant: insert does not carry the generation forward.
FirstGeneration(b) == 1

\* insert carries it forward.
NextGeneration(b) == LastGeneration(b) + 1

-----------------------------------------------------------------------------
(* allocate *)

\* The user's allocator gives out a block for count objects.
Allocate(t, b, count) ==
  /\ pc[t] = "idle"
  /\ b \in free
  /\ free' = free \ {b}
  /\ blk'  = [blk EXCEPT ![t] = b]
  /\ len'  = [len EXCEPT ![t] = count]
  /\ Goto(t, "place")
  /\ UNCHANGED <<policy, nodeVars, accessVars, memoryVars, quarantine, flushed,
                 node, idx, retiring, kind>>

Payload(t) == 0 .. len[t] - 1

\* The bits of the elements of blk[t] become those that bits gives.
SetShadow(t, bits) == shadow' = [shadow EXCEPT ![blk[t]] = bits]

\* The payload is inside the region and all pages of its shadow bits commit.
AllocPoison(t) ==
  /\ pc[t] = "place"
  /\ blk[t] \notin Outside
  /\ SetShadow(t, [i \in Element |->
       IF i \in Payload(t) THEN "set" ELSE shadow[blk[t]][i]])
  /\ Goto(t, "insert")
  /\ UNCHANGED <<policy, nodeVars, accessVars, object, blockVars, localVars>>

\* It is not inside, or a page fails to commit: the bits set so far stay set.
AllocWild(t) ==
  /\ pc[t] = "place"
  /\ \/ blk[t] \in Outside /\ UNCHANGED shadow
     \/ /\ blk[t] \notin Outside
        /\ \E failed \in Payload(t) : SetShadow(t, [i \in Element |->
             IF i < failed THEN "set"
             ELSE IF i = failed THEN "unsure" ELSE shadow[blk[t]][i]])
  /\ kind' = [kind EXCEPT ![t] = "WildPointer"]
  /\ Goto(t, "giveBack")
  /\ UNCHANGED <<policy, nodeVars, accessVars, object, blockVars,
                 blk, len, node, idx, retiring>>

AllocInsert(t) ==
  LET n == nodeCursor
  IN /\ pc[t] = "insert"
     /\ Find(blk[t]) = Null
     /\ n < NodeCapacity
     /\ nodeCursor' = n + 1
     /\ state'      = [state EXCEPT ![n] = "Live"]
     /\ blockBase'  = [blockBase EXCEPT ![n] = blk[t]]
     /\ liveCount'  = [liveCount EXCEPT ![n] = len[t]]
     /\ threadID'   = [threadID EXCEPT ![n] = t]
     /\ generation' = [generation EXCEPT ![n] = NextGeneration(blk[t])]
     /\ Goto(t, "access")
     /\ UNCHANGED <<policy, dtorLock, accessVars, memoryVars, blockVars, localVars>>

\* insert returns false, because the base is tracked or the pool is exhausted
\* (the cursor, which moves on, is not followed beyond the pool).  The bits are
\* cleared, save those on pages that are not resident.
AllocRefused(t) ==
  /\ pc[t] = "insert"
  /\ Find(blk[t]) # Null \/ nodeCursor >= NodeCapacity
  /\ \E skipped \in SUBSET Payload(t) : SetShadow(t, [i \in Element |->
       IF i \in skipped THEN "unsure"
       ELSE IF i \in Payload(t) THEN "clear" ELSE shadow[blk[t]][i]])
  /\ kind' = [kind EXCEPT ![t] = "OverlapDetected"]
  /\ Goto(t, "giveBack")
  /\ UNCHANGED <<policy, nodeVars, accessVars, object, blockVars,
                 blk, len, node, idx, retiring>>

\* m_AllocatorSupport.deallocate, and an empty handle is returned.
AllocGiveBack(t) ==
  /\ pc[t] = "giveBack"
  /\ free' = free \union {blk[t]}
  /\ Return(t)
  /\ UNCHANGED <<policy, nodeVars, accessVars, memoryVars, quarantine, flushed>>

\* Mutant: the bound of the handle's arithmetic is too large by one element.
AllocReturnTooLarge(t) ==
  LET n == Find(blk[t])
  IN /\ pc[t] = "access"
     /\ n # Null
     /\ size' = [size EXCEPT ![n] = len[t] + 1]
     /\ accessGen' = [accessGen EXCEPT ![n] = generation[n]]
     /\ object' = [object EXCEPT ![n] =
          [i \in Element |-> IF i \in Payload(t) THEN "raw" ELSE "none"]]
     /\ Return(t)
     /\ UNCHANGED <<policy, nodeVars, shadow, blockVars>>

\* find the node again, fill in its access record and return the handle.  A
\* lookup that missed would fault; none does unless clients destroy twice.
AllocReturn(t) ==
  LET n == Find(blk[t])
  IN /\ pc[t] = "access"
     /\ n # Null
     /\ size' = [size EXCEPT ![n] = len[t]]
     /\ accessGen' = [accessGen EXCEPT ![n] = generation[n]]
     /\ object' = [object EXCEPT ![n] =
          [i \in Element |-> IF i \in Payload(t) THEN "raw" ELSE "none"]]
     /\ Return(t)
     /\ UNCHANGED <<policy, nodeVars, shadow, blockVars>>

-----------------------------------------------------------------------------
(* construct *)

\* operator+ gives out a handle of element i: the element ends within the bound
\* m_UserSize of the access record.
Given(n, i) == i < size[n]

Uses(t, n, i) == node[t] = n /\ idx[t] = i

Untouched(n, i) == \A t \in Clients : ~ Uses(t, n, i)

Call(t, n, i) ==
  /\ pc[t] = "idle"
  /\ Given(n, i)
  /\ node' = [node EXCEPT ![t] = n]
  /\ idx'  = [idx EXCEPT ![t] = i]

\* The shadow bits are cleared first, save those on pages that are not resident
\* (the call goes on all the same) ...
Construct(t, n, i) ==
  /\ Call(t, n, i)
  /\ Careful => object[n][i] = "raw" /\ Untouched(n, i)
  /\ \E bits \in {"clear", "unsure"} : shadow' = [shadow EXCEPT ![blockBase[n]][i] = bits]
  /\ Goto(t, "new")
  /\ UNCHANGED <<policy, nodeVars, accessVars, object, blockVars,
                 blk, len, retiring, kind>>

\* ... and the object is built.
ConstructNew(t) ==
  /\ pc[t] = "new"
  /\ object' = [object EXCEPT ![node[t]][idx[t]] = "alive"]
  /\ Return(t)
  /\ UNCHANGED <<policy, nodeVars, accessVars, shadow, blockVars>>

-----------------------------------------------------------------------------
(* Calls that report a violation and do nothing else *)

Reject(t) ==
  /\ pc[t] = "idle"
  /\ Goto(t, "reject")
  /\ UNCHANGED <<policy, nodeVars, accessVars, memoryVars, blockVars, localVars>>

\* SizeOverflow: the bytes of the payload, or of the block, do not fit a size_t.
AllocTooLarge(t) == Reject(t)

\* BufferOverflow: element i is past the bound; the handle returned is empty.
Overflow(t, n, i) == size[n] > 0 /\ ~ Given(n, i) /\ Reject(t)

\* WildPointer or DoubleFree: an empty handle has no access record, so _nodeFor
\* finds no node for it.
EmptyHandle(t) == Reject(t)

\* AlignmentViolation: addresses are not modelled, any payload may be misaligned.
ConstructMisaligned(t, n, i) == Given(n, i) /\ Reject(t)

Rejected(t) ==
  /\ pc[t] = "reject"
  /\ Return(t)
  /\ UNCHANGED <<policy, nodeVars, accessVars, memoryVars, blockVars>>

-----------------------------------------------------------------------------
(* destroy *)

Destroy(t, n, i) ==
  /\ Call(t, n, i)
  /\ Careful => object[n][i] = "alive" /\ Untouched(n, i)
  /\ Goto(t, "begin")
  /\ UNCHANGED <<policy, nodeVars, accessVars, memoryVars, blockVars,
                 blk, len, retiring, kind>>

\* What destroy looks up is the base of the handle's node, not the node.
Target(t) == Find(blockBase[node[t]])

\* Mutant: the thread of the caller matters in every region.
ForeignAlways(t, n) == threadID[n] # t

Foreign(t, n) == policy = "Strict" /\ threadID[n] # t

\* beginRetiring finds nothing, a foreign node, a locked one or one not Live.
Refuses(t, n) ==
  \/ n = Null
  \/ n # Null /\ (Foreign(t, n) \/ dtorLock[n] # Null \/ state[n] # "Live")

BeginRefused(t) ==
  /\ pc[t] = "begin"
  /\ Refuses(t, Target(t))
  /\ Goto(t, "classify")
  /\ UNCHANGED <<policy, nodeVars, accessVars, memoryVars, blockVars, localVars>>

\* Mutant: beginRetiring does not try m_DtorLock.
BeginUnlocked(t) ==
  LET n == Target(t)
  IN /\ pc[t] = "begin"
     /\ n # Null
     /\ ~ Foreign(t, n)
     /\ dtorLock' = [dtorLock EXCEPT ![n] = t]
     /\ state'    = [state EXCEPT ![n] = "Retiring"]
     /\ retiring' = [retiring EXCEPT ![t] = n]
     /\ Goto(t, "uncount")
     /\ UNCHANGED <<policy, nodeCursor, blockBase, liveCount, threadID, generation,
                    accessVars, memoryVars, blockVars, blk, len, node, idx, kind>>

\* It takes m_DtorLock and moves the node from Live to Retiring.
Begin(t) ==
  LET n == Target(t)
  IN /\ pc[t] = "begin"
     /\ ~ Refuses(t, n)
     /\ dtorLock' = [dtorLock EXCEPT ![n] = t]
     /\ state'    = [state EXCEPT ![n] = "Retiring"]
     /\ retiring' = [retiring EXCEPT ![t] = n]
     /\ Goto(t, "uncount")
     /\ UNCHANGED <<policy, nodeCursor, blockBase, liveCount, threadID, generation,
                    accessVars, memoryVars, blockVars, blk, len, node, idx, kind>>

\* Why was it refused?  The answer looks at the node of the handle, later.
Classify(t) ==
  LET n == node[t]
  IN /\ pc[t] = "classify"
     /\ kind' = [kind EXCEPT ![t] =
          IF Foreign(t, n) THEN "ThreadOwnership"
          ELSE IF state[n] = "Retiring" THEN "RetiredBoundaryViolation"
          ELSE "DoubleFree"]
     /\ Goto(t, "report")
     /\ UNCHANGED <<policy, nodeVars, accessVars, memoryVars, blockVars,
                    blk, len, node, idx, retiring>>

\* The violation is on the thread's stack, destroy returns false.
Report(t) ==
  /\ pc[t] = "report"
  /\ Return(t)
  /\ UNCHANGED <<policy, nodeVars, accessVars, memoryVars, blockVars>>

\* Mutant: off by one, the last object is not recognised as the final one.
UncountNeverFinal(t) ==
  LET n == retiring[t]
  IN /\ pc[t] = "uncount"
     /\ liveCount' = [liveCount EXCEPT ![n] = @ - 1]
     /\ Goto(t, IF liveCount[n] = 0 THEN "invalidate" ELSE "destruct")
     /\ UNCHANGED <<policy, nodeCursor, state, blockBase, threadID, dtorLock,
                    generation, accessVars, memoryVars, blockVars, localVars>>

\* Mutant: every object destroyed invalidates the handles of its block.
UncountAlwaysFinal(t) ==
  LET n == retiring[t]
  IN /\ pc[t] = "uncount"
     /\ liveCount' = [liveCount EXCEPT ![n] = @ - 1]
     /\ Goto(t, "invalidate")
     /\ UNCHANGED <<policy, nodeCursor, state, blockBase, threadID, dtorLock,
                    generation, accessVars, memoryVars, blockVars, localVars>>

\* m_LiveCount.fetch_sub: whoever takes the last object invalidates the handles.
Uncount(t) ==
  LET n == retiring[t]
  IN /\ pc[t] = "uncount"
     /\ liveCount' = [liveCount EXCEPT ![n] = @ - 1]
     /\ Goto(t, IF liveCount[n] = 1 THEN "invalidate" ELSE "destruct")
     /\ UNCHANGED <<policy, nodeCursor, state, blockBase, threadID, dtorLock,
                    generation, accessVars, memoryVars, blockVars, localVars>>

\* The access record is the one of the handle.
Invalidate(t) ==
  /\ pc[t] = "invalidate"
  /\ accessGen' = [accessGen EXCEPT ![node[t]] = 0]
  /\ Goto(t, "destruct")
  /\ UNCHANGED <<policy, nodeVars, size, memoryVars, blockVars, localVars>>

\* The destructor runs and the payload is filled with TOMBSTONE.
Destruct(t) ==
  LET n == retiring[t]
  IN /\ pc[t] = "destruct"
     /\ object' = [object EXCEPT ![n][idx[t]] = IF @ = "none" THEN @ ELSE "gone"]
     /\ Goto(t, "poison")
     /\ UNCHANGED <<policy, nodeVars, accessVars, shadow, blockVars, localVars>>

\* Mutant: the shadow bits are cleared, as construct does.
PoisonClears(t) ==
  /\ pc[t] = "poison"
  /\ shadow' = [shadow EXCEPT ![blockBase[node[t]]][idx[t]] = "clear"]
  /\ Goto(t, "end")
  /\ UNCHANGED <<policy, nodeVars, accessVars, object, blockVars, localVars>>

\* All bits are set, or a page fails to commit, which destroy does not notice.
Poison(t) ==
  /\ pc[t] = "poison"
  /\ \E bits \in {"set", "unsure"} :
       shadow' = [shadow EXCEPT ![blockBase[node[t]]][idx[t]] = bits]
  /\ Goto(t, "end")
  /\ UNCHANGED <<policy, nodeVars, accessVars, object, blockVars, localVars>>

\* endRetiring, up to its unlock: Live again, or Quarantine.
End(t) ==
  LET n == Target(t)
      last == liveCount[n] = 0
  IN /\ pc[t] = "end"
     /\ n # Null
     /\ state' = [state EXCEPT ![n] =
          IF @ # "Retiring" THEN @ ELSE IF last THEN "Quarantine" ELSE "Live"]
     /\ Goto(t, IF last /\ state[n] = "Retiring" THEN "unlockLast" ELSE "unlock")
     /\ UNCHANGED <<policy, nodeCursor, blockBase, liveCount, threadID, dtorLock,
                    generation, accessVars, memoryVars, blockVars, localVars>>

Unlock(t) ==
  /\ pc[t] = "unlock"
  /\ dtorLock' = [dtorLock EXCEPT ![retiring[t]] = Null]
  /\ Return(t)
  /\ UNCHANGED <<policy, nodeCursor, state, blockBase, liveCount, threadID,
                 generation, accessVars, memoryVars, blockVars>>

\* Unlock, and enqueue the block.
UnlockLast(t) ==
  /\ pc[t] = "unlockLast"
  /\ dtorLock' = [dtorLock EXCEPT ![retiring[t]] = Null]
  /\ quarantine' = quarantine \union {blockBase[node[t]]}
  /\ Return(t)
  /\ UNCHANGED <<policy, nodeCursor, state, blockBase, liveCount, threadID,
                 generation, accessVars, memoryVars, free, flushed>>

-----------------------------------------------------------------------------
(* _retireSlot *)

\* Mutant: the block is deallocated before its node is retired.
FlushEarly(b) ==
  /\ flushed = Null
  /\ b \in quarantine
  /\ quarantine' = quarantine \ {b}
  /\ flushed' = b
  /\ free' = free \union {b}
  /\ UNCHANGED <<policy, nodeVars, accessVars, memoryVars, pc, localVars>>

\* AllocationRegistry::retire on a block of the queue ...
Flush(b) ==
  /\ flushed = Null
  /\ b \in quarantine
  /\ quarantine' = quarantine \ {b}
  /\ flushed' = b
  /\ state' = [n \in Node |->
       IF n = Find(b) /\ state[n] = "Quarantine" THEN "Dead" ELSE state[n]]
  /\ UNCHANGED <<policy, nodeCursor, blockBase, liveCount, threadID, dtorLock,
                 generation, accessVars, memoryVars, free, pc, localVars>>

\* ... and MemorySupport::thunk, which gives it back to the user's allocator.
FlushRelease ==
  /\ flushed # Null
  /\ free' = free \union {flushed}
  /\ flushed' = Null
  /\ UNCHANGED <<policy, nodeVars, accessVars, memoryVars, quarantine, pc, localVars>>

-----------------------------------------------------------------------------
ClientCall(t) ==
  \/ \E b \in Blocks, count \in 1 .. MaxObjects : Allocate(t, b, count)
  \/ \E n \in Node, i \in Element :
       Construct(t, n, i) \/ ConstructMisaligned(t, n, i) \/ Destroy(t, n, i)
  \/ \E n \in Node, i \in 0 .. MaxObjects : Overflow(t, n, i)
  \/ AllocTooLarge(t)
  \/ EmptyHandle(t)

\* The steps of an operation a client has begun.
ClientStep(t) ==
  \/ AllocPoison(t)
  \/ AllocWild(t)
  \/ AllocInsert(t)
  \/ AllocRefused(t)
  \/ AllocGiveBack(t)
  \/ AllocReturn(t)
  \/ ConstructNew(t)
  \/ Rejected(t)
  \/ BeginRefused(t)
  \/ Begin(t)
  \/ Classify(t)
  \/ Report(t)
  \/ Uncount(t)
  \/ Invalidate(t)
  \/ Destruct(t)
  \/ Poison(t)
  \/ End(t)
  \/ Unlock(t)
  \/ UnlockLast(t)

FlushStep == FlushRelease \/ \E b \in Blocks : Flush(b)

Next == (\E t \in Clients : ClientCall(t) \/ ClientStep(t)) \/ FlushStep

\* A client inside an operation keeps running, the drain thread keeps flushing.
Fairness == (\A t \in Clients : WF_vars(ClientStep(t))) /\ WF_vars(FlushStep)

Spec     == Init /\ [][Next]_vars
FairSpec == Spec /\ Fairness

-----------------------------------------------------------------------------
(* Properties *)

ControlPoints ==
  {"idle", "place", "insert", "giveBack", "access", "new", "reject", "begin",
   "classify", "report", "uncount", "invalidate", "destruct", "poison", "end",
   "unlock", "unlockLast"}

Kinds ==
  {"WildPointer", "OverlapDetected", "ThreadOwnership", "DoubleFree",
   "RetiredBoundaryViolation"}

\* Every variable has its type; m_LiveCount, an unsigned counter, never wraps
\* below zero although nothing in destroy() looks at it first (Region.h:156).
TypeOK ==
  /\ policy     \in Policies
  /\ nodeCursor \in 0 .. NodeCapacity
  /\ state      \in [Node -> {"Empty", "Live", "Retiring", "Quarantine", "Dead"}]
  /\ blockBase  \in [Node -> Blocks \union {Null}]
  /\ liveCount  \in [Node -> 0 .. MaxObjects]
  /\ threadID   \in [Node -> Clients \union {Null}]
  /\ dtorLock   \in [Node -> Clients \union {Null}]
  /\ generation \in [Node -> Nat]
  /\ size       \in [Node -> 0 .. MaxObjects]
  /\ accessGen  \in [Node -> Nat]
  /\ shadow     \in [Blocks -> [Element -> Bits]]
  /\ object     \in [Node -> [Element -> {"none", "raw", "alive", "gone"}]]
  /\ free       \subseteq Blocks
  /\ quarantine \subseteq Blocks
  /\ flushed    \in Blocks \union {Null}
  /\ pc         \in [Clients -> ControlPoints]
  /\ blk        \in [Clients -> Blocks \union {Null}]
  /\ len        \in [Clients -> 0 .. MaxObjects]
  /\ node       \in [Clients -> Node \union {Null}]
  /\ idx        \in [Clients -> Element \union {Null}]
  /\ retiring   \in [Clients -> Node \union {Null}]
  /\ kind       \in [Clients -> Kinds \union {Null}]

\* ShadowedMemory::_check of a handle of node n does not trap.
CheckPasses(n) == accessGen[n] = generation[n]

\* A handle passes its check only as long as its block belongs to it: once the
\* block is in quarantine, and for ever after, every access is reported as
\* UseAfterFree (README.md:155, AllocationRegistry.cpp:87).
CheckSound ==
  \A n \in Node :
    Given(n, 0) /\ CheckPasses(n) => state[n] \in {"Live", "Retiring"}

\* Conversely a living object can be used: its handle passes the check and its
\* block is not in quarantine, whoever destroys other elements of the block.
AliveUsable ==
  \A n \in Node, i \in Element :
    object[n][i] = "alive" /\ (\A t \in Clients : Uses(t, n, i) => pc[t] = "begin")
      => CheckPasses(n) /\ state[n] \in {"Live", "Retiring"}

\* What the shadow bits of an element may be: those of memory that waits for its
\* object are set, all of them.  Those of a living object are not set unless its
\* construct passed over a page that is not resident, those of a destroyed one not
\* clear unless its destroy could not commit a page.
Marks(n, i) ==
  CASE object[n][i] = "raw"   -> {"set"}
    [] object[n][i] = "alive" -> {"clear", "unsure"}
    [] object[n][i] = "gone"  -> {"set", "unsure"}
    [] OTHER                  -> Bits

\* Every element of a block in use has such bits, except in the hands of the
\* thread that constructs or destroys it: no other element's calls, no earlier
\* use of the block and no allocate that failed half way has touched them
\* (Region.h:185-207).
ShadowMatches ==
  \A n \in Node, i \in Element :
    Given(n, i) /\ n \in TrackedAt(blockBase[n]) /\ Untouched(n, i) =>
      shadow[blockBase[n]][i] \in Marks(n, i)

Allocates(t, b) == pc[t] \in {"place", "insert", "giveBack"} /\ blk[t] = b

\* A block is in exactly one hand: the user's allocator, a client that is
\* placing it, a node of the registry, or the flush that has retired the node.
\* So an allocator that gives no block out twice never meets a base that is
\* still tracked, and no block is given back twice or lost.
BlockInOneHand ==
  \A b \in Blocks :
    1 = Cardinality({t \in Clients : Allocates(t, b)})
        + Cardinality(TrackedAt(b))
        + Cardinality({b} \intersect free)
        + Cardinality({b} \intersect {flushed})

\* A careful client's destroy of a block with one object fails only on a foreign
\* thread of a Strict region, and is then reported as that (README.md:164).
SingleObjectDestroyed ==
  \A t \in Clients : pc[t] = "report" /\ size[node[t]] = 1 =>
    kind[t] = "ThreadOwnership" /\ policy = "Strict" /\ threadID[node[t]] # t

StatusOf(b) == IF Find(b) = Null THEN "Absent" ELSE state[Find(b)]

Lifecycle == INSTANCE BlockLifecycle
  WITH Bases   <- Blocks,
       status  <- [b \in Blocks |-> StatusOf(b)],
       lastGen <- [b \in Blocks |-> LastGeneration(b)]

\* What Region asks of the registry is what the registry promises: its view of
\* every base is the one that AllocationRegistry is shown to implement.
RefinesLifecycle == Lifecycle!Spec

Destroyed(n) == Given(n, 0) /\ \A i \in Element : object[n][i] \in {"none", "gone"}

\* When all objects of a block are destroyed, it goes back to the allocator.
DestroyedReleased ==
  \A n \in Node : Destroyed(n) ~> state[n] = "Dead" /\ flushed # blockBase[n]
=============================================================================

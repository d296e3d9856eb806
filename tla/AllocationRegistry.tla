------------------------- MODULE AllocationRegistry -------------------------
(***************************************************************************)
(* AllocationRegistry (AllocationRegistry.h/.cpp, RegistryUtils.h): a hash *)
(* table of RegistryNodes.  insert() works under the lock of one bucket;   *)
(* find() walks a bucket chain without any lock while nodes change state;  *)
(* beginRetiring() and endRetiring() bracket the destruction of one object *)
(* under the node's m_DtorLock; retire() is called by whoever flushes the  *)
(* quarantine queue.  Every access to shared memory that another thread    *)
(* can observe is a step of its own.                                       *)
(*                                                                         *)
(* Clients call in any order with any base: the allocator that hands out   *)
(* block bases belongs to the user and may hand one out twice.  Drainer is *)
(* the holder of the queue's flush lock.                                   *)
(***************************************************************************)
EXTENDS Integers, FiniteSets

CONSTANTS
  Clients,        \* threads that allocate and destroy
  Drainer,        \* the thread that flushes the quarantine queue
  Bases,          \* block addresses
  Buckets,        \* m_Buckets
  BucketOf,       \* _index: the bucket of a base
  NodeCapacity,   \* m_NodeCapacity
  MaxObjects,     \* largest v_ObjectCount of an insert
  Policies,       \* thread policies a beginRetiring may be called with
  CursorBound,    \* bound of the model: no insert starts beyond this cursor
  Null

Threads == Clients \union {Drainer}
Node    == 0 .. NodeCapacity - 1

ASSUME ThreadsAssumption == Drainer \notin Clients /\ Null \notin Threads
ASSUME BucketsAssumption == BucketOf \in [Bases -> Buckets] /\ Null \notin Bases
ASSUME BoundsAssumption  ==
  NodeCapacity \in Nat /\ MaxObjects \in Nat /\ CursorBound \in Nat
ASSUME NullAssumption    == Null \notin Nat
ASSUME PolicyAssumption  == Policies \subseteq {"Strict", "Flexible"}

VARIABLES
  head,           \* head[k]: m_Head of bucket k
  bucketLock,     \* bucketLock[k]: holder of m_Lock of bucket k
  nodeCursor,     \* m_NodeCursor
  count,          \* m_Count
  state,          \* state[n] ... generation[n]: the fields of node n
  blockBase,
  next,
  liveCount,
  threadID,
  dtorLock,       \* holder of m_DtorLock
  generation,
  quarantine,     \* bases the quarantine queue holds
  pc,             \* control point of each thread
  base,           \* base[t] ... goal[t]: the locals of thread t
  cur,
  mine,
  gen,
  goal

nodeVars == <<state, blockBase, next, liveCount, threadID, dtorLock, generation>>
sharedVars == <<head, bucketLock, nodeCursor, count, nodeVars, quarantine>>

\* Locals: the argument p_BlockBase, the walk's node, the node this operation
\* created or locked, nextGeneration, and where find() returns to.
localVars == <<base, cur, mine, gen, goal>>
vars == <<sharedVars, pc, localVars>>

Goto(t, label) == pc' = [pc EXCEPT ![t] = label]

Return(t) ==
  /\ Goto(t, "idle")
  /\ base' = [base EXCEPT ![t] = Null]
  /\ cur'  = [cur EXCEPT ![t] = Null]
  /\ mine' = [mine EXCEPT ![t] = Null]
  /\ gen'  = [gen EXCEPT ![t] = 0]
  /\ goal' = [goal EXCEPT ![t] = "idle"]

Init ==
  /\ head       = [k \in Buckets |-> Null]
  /\ bucketLock = [k \in Buckets |-> Null]
  /\ nodeCursor = 0
  /\ count      = 0
  /\ state      = [n \in Node |-> "Empty"]
  /\ blockBase  = [n \in Node |-> Null]
  /\ next       = [n \in Node |-> Null]
  /\ liveCount  = [n \in Node |-> 0]
  /\ threadID   = [n \in Node |-> Null]
  /\ dtorLock   = [n \in Node |-> Null]
  /\ generation = [n \in Node |-> 0]
  /\ quarantine = {}
  /\ pc         = [t \in Threads |-> "idle"]
  /\ base       = [t \in Threads |-> Null]
  /\ cur        = [t \in Threads |-> Null]
  /\ mine       = [t \in Threads |-> Null]
  /\ gen        = [t \in Threads |-> 0]
  /\ goal       = [t \in Threads |-> "idle"]

-----------------------------------------------------------------------------
(* insert *)

BucketFor(t) == BucketOf[base[t]]

Unlock(k) == bucketLock' = [bucketLock EXCEPT ![k] = Null]

\* Mutant: insert does not take the bucket lock.
InsertLockUnlocked(t, b) ==
  /\ pc[t] = "idle"
  /\ nodeCursor < CursorBound
  /\ base' = [base EXCEPT ![t] = b]
  /\ cur'  = [cur EXCEPT ![t] = head[BucketOf[b]]]
  /\ gen'  = [gen EXCEPT ![t] = 1]
  /\ Goto(t, "scan")
  /\ UNCHANGED <<sharedVars, mine, goal>>

\* Take the bucket lock and start the scan at m_Head.
InsertLock(t, b) ==
  /\ pc[t] = "idle"
  /\ nodeCursor < CursorBound
  /\ bucketLock[BucketOf[b]] = Null
  /\ bucketLock' = [bucketLock EXCEPT ![BucketOf[b]] = t]
  /\ base' = [base EXCEPT ![t] = b]
  /\ cur'  = [cur EXCEPT ![t] = head[BucketOf[b]]]
  /\ gen'  = [gen EXCEPT ![t] = 1]
  /\ Goto(t, "scan")
  /\ UNCHANGED <<head, nodeCursor, count, nodeVars, quarantine, mine, goal>>

\* Mutant: any node that is not Live lets insert reuse its base.
InsertScanNotLive(t) ==
  LET n == cur[t]
  IN /\ pc[t] = "scan"
     /\ n # Null
     /\ blockBase[n] = base[t] => state[n] # "Live"
     /\ cur' = [cur EXCEPT ![t] = next[n]]
     /\ gen' = [gen EXCEPT ![t] =
          IF blockBase[n] = base[t] /\ generation[n] + 1 > @
          THEN generation[n] + 1 ELSE @]
     /\ UNCHANGED <<sharedVars, pc, base, mine, goal>>

\* Mutant: the generation follows the last node scanned, not the greatest one.
InsertScanLastGeneration(t) ==
  LET n == cur[t]
  IN /\ pc[t] = "scan"
     /\ n # Null
     /\ blockBase[n] = base[t] => state[n] = "Dead"
     /\ cur' = [cur EXCEPT ![t] = next[n]]
     /\ gen' = [gen EXCEPT ![t] =
          IF blockBase[n] = base[t] THEN generation[n] + 1 ELSE @]
     /\ UNCHANGED <<sharedVars, pc, base, mine, goal>>

\* A node of another base is skipped; a Dead one of this base pushes the
\* generation past its own.
InsertScan(t) ==
  LET n == cur[t]
  IN /\ pc[t] = "scan"
     /\ n # Null
     /\ blockBase[n] = base[t] => state[n] = "Dead"
     /\ cur' = [cur EXCEPT ![t] = next[n]]
     /\ gen' = [gen EXCEPT ![t] =
          IF blockBase[n] = base[t] /\ generation[n] + 1 > @
          THEN generation[n] + 1 ELSE @]
     /\ UNCHANGED <<sharedVars, pc, base, mine, goal>>

\* The base is still tracked: insert returns false.
InsertOverlap(t) ==
  /\ pc[t] = "scan"
  /\ cur[t] # Null
  /\ blockBase[cur[t]] = base[t]
  /\ state[cur[t]] # "Dead"
  /\ Unlock(BucketFor(t))
  /\ Return(t)
  /\ UNCHANGED <<head, nodeCursor, count, nodeVars, quarantine>>

\* _allocateNode past the end of the pool: the cursor moves, insert returns false.
InsertExhausted(t) ==
  /\ pc[t] = "scan"
  /\ cur[t] = Null
  /\ nodeCursor >= NodeCapacity
  /\ nodeCursor' = nodeCursor + 1
  /\ Unlock(BucketFor(t))
  /\ Return(t)
  /\ UNCHANGED <<head, count, nodeVars, quarantine>>

\* Claim a node and fill it in; it is not reachable yet.
InsertNode(t, objects) ==
  LET n == nodeCursor
  IN /\ pc[t] = "scan"
     /\ cur[t] = Null
     /\ n < NodeCapacity
     /\ nodeCursor' = n + 1
     /\ generation' = [generation EXCEPT ![n] = gen[t]]
     /\ blockBase'  = [blockBase EXCEPT ![n] = base[t]]
     /\ threadID'   = [threadID EXCEPT ![n] = t]
     /\ liveCount'  = [liveCount EXCEPT ![n] = objects]
     /\ state'      = [state EXCEPT ![n] = "Live"]
     /\ mine'       = [mine EXCEPT ![t] = n]
     /\ Goto(t, "link")
     /\ UNCHANGED <<head, bucketLock, count, next, dtorLock, quarantine,
                    base, cur, gen, goal>>

\* Publish the node at the front of the chain and leave the bucket lock.
InsertLink(t) ==
  LET k == BucketFor(t)
  IN /\ pc[t] = "link"
     /\ next' = [next EXCEPT ![mine[t]] = head[k]]
     /\ head' = [head EXCEPT ![k] = mine[t]]
     /\ Unlock(k)
     /\ Goto(t, "countUp")
     /\ UNCHANGED <<nodeCursor, count, state, blockBase, liveCount, threadID,
                    dtorLock, generation, quarantine, localVars>>

InsertCount(t) ==
  /\ pc[t] = "countUp"
  /\ count' = count + 1
  /\ Return(t)
  /\ UNCHANGED <<head, bucketLock, nodeCursor, nodeVars, quarantine>>

-----------------------------------------------------------------------------
(* find *)

\* A caller enters find(b): the head is loaded once, later inserts are missed.
FindFrom(t, b, returnTo) ==
  /\ base' = [base EXCEPT ![t] = b]
  /\ cur'  = [cur EXCEPT ![t] = head[BucketOf[b]]]
  /\ goal' = [goal EXCEPT ![t] = returnTo]
  /\ Goto(t, "walk")
  /\ UNCHANGED <<mine, gen>>

\* Mutants: find() sees Live nodes only; find() skips quarantined nodes.
MatchesLive(t) ==
  LET n == cur[t]
  IN state[n] = "Live" /\ blockBase[n] = base[t]

MatchesUsable(t) ==
  LET n == cur[t]
  IN state[n] \in {"Live", "Retiring"} /\ blockBase[n] = base[t]

Matches(t) ==
  LET n == cur[t]
  IN state[n] \notin {"Dead", "Empty"} /\ blockBase[n] = base[t]

FindNext(t) ==
  /\ pc[t] = "walk"
  /\ cur[t] # Null
  /\ ~ Matches(t)
  /\ cur' = [cur EXCEPT ![t] = next[cur[t]]]
  /\ UNCHANGED <<sharedVars, pc, base, mine, gen, goal>>

FindReturn(t) ==
  /\ pc[t] = "walk"
  /\ cur[t] # Null => Matches(t)
  /\ Goto(t, goal[t])
  /\ UNCHANGED <<sharedVars, localVars>>

-----------------------------------------------------------------------------
(* beginRetiring *)

BeginCall(t, b) ==
  /\ pc[t] = "idle"
  /\ FindFrom(t, b, "begin")
  /\ UNCHANGED sharedVars

Refused(t) ==
  /\ pc[t] = "begin"
  /\ Return(t)
  /\ UNCHANGED sharedVars

\* Returns nullptr: the base is not tracked, ...
BeginMiss(t) == cur[t] = Null /\ Refused(t)

\* ... or another thread allocated the block and the policy is Strict, ...
BeginForeign(t) ==
  /\ "Strict" \in Policies
  /\ cur[t] # Null
  /\ threadID[cur[t]] # t
  /\ Refused(t)

\* ... or m_DtorLock is taken.
BeginBusy(t) ==
  /\ cur[t] # Null
  /\ dtorLock[cur[t]] # Null
  /\ Refused(t)

\* Mutant: beginRetiring does not try m_DtorLock, it takes it.
BeginSteals(t, policy) ==
  LET n == cur[t]
  IN /\ pc[t] = "begin"
     /\ n # Null
     /\ policy = "Strict" => threadID[n] = t
     /\ dtorLock' = [dtorLock EXCEPT ![n] = t]
     /\ Goto(t, "beginCAS")
     /\ UNCHANGED <<head, bucketLock, nodeCursor, count, state, blockBase, next,
                    liveCount, threadID, generation, quarantine, localVars>>

BeginTryLock(t, policy) ==
  LET n == cur[t]
  IN /\ pc[t] = "begin"
     /\ n # Null
     /\ policy = "Strict" => threadID[n] = t
     /\ dtorLock[n] = Null
     /\ dtorLock' = [dtorLock EXCEPT ![n] = t]
     /\ Goto(t, "beginCAS")
     /\ UNCHANGED <<head, bucketLock, nodeCursor, count, state, blockBase, next,
                    liveCount, threadID, generation, quarantine, localVars>>

\* Mutant: the expected state of the CAS is what find() saw, Live or not.
BeginRetiresAny(t) ==
  LET n == cur[t]
  IN /\ pc[t] = "beginCAS"
     /\ state[n] # "Dead"
     /\ state' = [state EXCEPT ![n] = "Retiring"]
     /\ mine' = [mine EXCEPT ![t] = n]
     /\ Goto(t, "destroy")
     /\ UNCHANGED <<head, bucketLock, nodeCursor, count, blockBase, next, liveCount,
                    threadID, dtorLock, generation, quarantine,
                    base, cur, gen, goal>>

\* Live -> Retiring, ...
BeginRetires(t) ==
  LET n == cur[t]
  IN /\ pc[t] = "beginCAS"
     /\ state[n] = "Live"
     /\ state' = [state EXCEPT ![n] = "Retiring"]
     /\ mine' = [mine EXCEPT ![t] = n]
     /\ Goto(t, "destroy")
     /\ UNCHANGED <<head, bucketLock, nodeCursor, count, blockBase, next, liveCount,
                    threadID, dtorLock, generation, quarantine,
                    base, cur, gen, goal>>

\* Mutant: the result of the CAS is ignored.
BeginNotLiveProceeds(t) ==
  /\ pc[t] = "beginCAS"
  /\ state[cur[t]] # "Live"
  /\ mine' = [mine EXCEPT ![t] = cur[t]]
  /\ Goto(t, "destroy")
  /\ UNCHANGED <<sharedVars, base, cur, gen, goal>>

\* ... or the node was given up since find() saw it.
BeginNotLive(t) ==
  /\ pc[t] = "beginCAS"
  /\ state[cur[t]] # "Live"
  /\ Goto(t, "unlock")
  /\ UNCHANGED <<sharedVars, localVars>>

\* Region::destroy, between the two calls: one object of the block is gone.
DestroyObject(t) ==
  /\ pc[t] = "destroy"
  /\ liveCount' = [liveCount EXCEPT ![mine[t]] = @ - 1]
  /\ Goto(t, "endCall")
  /\ UNCHANGED <<head, bucketLock, nodeCursor, count, state, blockBase, next,
                 threadID, dtorLock, generation, quarantine, localVars>>

-----------------------------------------------------------------------------
(* endRetiring *)

EndCall(t) ==
  /\ pc[t] = "endCall"
  /\ FindFrom(t, base[t], "end")
  /\ UNCHANGED sharedVars

\* Mutant: off by one, an empty block is kept Live.
EndLoadNonNegative(t) ==
  LET n == cur[t]
  IN /\ pc[t] = "end"
     /\ IF n = Null THEN Return(t)
        ELSE /\ Goto(t, IF liveCount[n] >= 0 THEN "keepLive" ELSE "toQuarantine")
             /\ UNCHANGED localVars
     /\ UNCHANGED sharedVars

\* Returns with the lock still held if find() misses; otherwise the live
\* count decides where the node goes.
EndLoad(t) ==
  LET n == cur[t]
  IN /\ pc[t] = "end"
     /\ IF n = Null THEN Return(t)
        ELSE /\ Goto(t, IF liveCount[n] > 0 THEN "keepLive" ELSE "toQuarantine")
             /\ UNCHANGED localVars
     /\ UNCHANGED sharedVars

\* Mutant: endRetiring unlocks only a block it quarantines.
EndKeepLiveLocked(t) ==
  LET n == cur[t]
  IN /\ pc[t] = "keepLive"
     /\ state' = [state EXCEPT ![n] = IF @ = "Retiring" THEN "Live" ELSE @]
     /\ Return(t)
     /\ UNCHANGED <<head, bucketLock, nodeCursor, count, blockBase, next, liveCount,
                    threadID, dtorLock, generation, quarantine>>

\* Objects are left: Retiring -> Live, the outcome of the CAS is ignored.
EndKeepLive(t) ==
  LET n == cur[t]
  IN /\ pc[t] = "keepLive"
     /\ state' = [state EXCEPT ![n] = IF @ = "Retiring" THEN "Live" ELSE @]
     /\ Goto(t, "unlock")
     /\ UNCHANGED <<head, bucketLock, nodeCursor, count, blockBase, next, liveCount,
                    threadID, dtorLock, generation, quarantine, localVars>>

\* The last object: Retiring -> Quarantine.
EndQuarantine(t) ==
  LET n == cur[t]
  IN /\ pc[t] = "toQuarantine"
     /\ state' = [state EXCEPT ![n] = IF @ = "Retiring" THEN "Quarantine" ELSE @]
     /\ Goto(t, IF state[n] = "Retiring" THEN "unlockLast" ELSE "unlock")
     /\ UNCHANGED <<head, bucketLock, nodeCursor, count, blockBase, next, liveCount,
                    threadID, dtorLock, generation, quarantine, localVars>>

ReleaseDtorLock(n) == dtorLock' = [dtorLock EXCEPT ![n] = Null]

\* m_DtorLock.unlock() on the paths that return right after it.
UnlockReturn(t) ==
  /\ pc[t] = "unlock"
  /\ ReleaseDtorLock(cur[t])
  /\ Return(t)
  /\ UNCHANGED <<head, bucketLock, nodeCursor, count, state, blockBase, next,
                 liveCount, threadID, generation, quarantine>>

\* Mutant: m_Count is not decremented.
UnlockLastUncounted(t) ==
  /\ pc[t] = "unlockLast"
  /\ ReleaseDtorLock(cur[t])
  /\ Goto(t, "enqueue")
  /\ UNCHANGED <<head, bucketLock, nodeCursor, count, state, blockBase, next,
                 liveCount, threadID, generation, quarantine, localVars>>

UnlockLast(t) ==
  /\ pc[t] = "unlockLast"
  /\ ReleaseDtorLock(cur[t])
  /\ Goto(t, "countDown")
  /\ UNCHANGED <<head, bucketLock, nodeCursor, count, state, blockBase, next,
                 liveCount, threadID, generation, quarantine, localVars>>

EndCount(t) ==
  /\ pc[t] = "countDown"
  /\ count' = count - 1
  /\ Goto(t, "enqueue")
  /\ UNCHANGED <<head, bucketLock, nodeCursor, nodeVars, quarantine, localVars>>

\* Mutant: the block is not handed to the queue.
EndEnqueueForgets(t) ==
  /\ pc[t] = "enqueue"
  /\ Return(t)
  /\ UNCHANGED sharedVars

EndEnqueue(t) ==
  /\ pc[t] = "enqueue"
  /\ quarantine' = quarantine \union {base[t]}
  /\ Return(t)
  /\ UNCHANGED <<head, bucketLock, nodeCursor, count, nodeVars>>

-----------------------------------------------------------------------------
(* retire, called from QuarantineQueue::_retireSlot *)

\* Mutant: the slot of the entry is not cleared.
RetireCallKeepsEntry(b) ==
  /\ pc[Drainer] = "idle"
  /\ b \in quarantine
  /\ FindFrom(Drainer, b, "retire")
  /\ UNCHANGED sharedVars

\* The flusher takes the entry of b from the queue and looks the base up.
RetireCall(b) ==
  /\ pc[Drainer] = "idle"
  /\ b \in quarantine
  /\ quarantine' = quarantine \ {b}
  /\ FindFrom(Drainer, b, "retire")
  /\ UNCHANGED <<head, bucketLock, nodeCursor, count, nodeVars>>

\* Quarantine -> Dead; a miss or a failed CAS only makes retire return false.
RetireCAS ==
  LET n == cur[Drainer]
  IN /\ pc[Drainer] = "retire"
     /\ state' = IF n = Null THEN state
                 ELSE [state EXCEPT ![n] = IF @ = "Quarantine" THEN "Dead" ELSE @]
     /\ Return(Drainer)
     /\ UNCHANGED <<head, bucketLock, nodeCursor, count, blockBase, next, liveCount,
                    threadID, dtorLock, generation, quarantine>>

-----------------------------------------------------------------------------
ClientCall(t) == \E b \in Bases : InsertLock(t, b) \/ BeginCall(t, b)

\* The steps of an operation a client has begun.
ClientStep(t) ==
  \/ InsertScan(t)
  \/ InsertOverlap(t)
  \/ InsertExhausted(t)
  \/ \E objects \in 1 .. MaxObjects : InsertNode(t, objects)
  \/ InsertLink(t)
  \/ InsertCount(t)
  \/ FindNext(t)
  \/ FindReturn(t)
  \/ BeginMiss(t)
  \/ BeginForeign(t)
  \/ BeginBusy(t)
  \/ \E policy \in Policies : BeginTryLock(t, policy)
  \/ BeginRetires(t)
  \/ BeginNotLive(t)
  \/ DestroyObject(t)
  \/ EndCall(t)
  \/ EndLoad(t)
  \/ EndKeepLive(t)
  \/ EndQuarantine(t)
  \/ UnlockReturn(t)
  \/ UnlockLast(t)
  \/ EndCount(t)
  \/ EndEnqueue(t)

DrainStep ==
  \/ \E b \in Bases : RetireCall(b)
  \/ FindNext(Drainer)
  \/ FindReturn(Drainer)
  \/ RetireCAS

Next == (\E t \in Clients : ClientCall(t) \/ ClientStep(t)) \/ DrainStep

\* A thread inside the registry keeps running, and the drain thread keeps
\* flushing; nobody has to call.
Fairness == (\A t \in Clients : WF_vars(ClientStep(t))) /\ WF_vars(DrainStep)

Spec     == Init /\ [][Next]_vars
FairSpec == Spec /\ Fairness

-----------------------------------------------------------------------------
(* Properties *)

ControlPoints ==
  {"idle", "scan", "link", "countUp", "walk", "begin", "beginCAS", "destroy",
   "endCall", "end", "keepLive", "toQuarantine", "unlock", "unlockLast",
   "countDown", "enqueue", "retire"}

NodeStates == {"Empty", "Live", "Retiring", "Quarantine", "Dead"}

\* Every variable has the type its C++ field has.  m_LiveCount never wraps below
\* zero (Region.h:156); m_Count may, for as long as CountMatches allows.
TypeOK ==
  /\ head       \in [Buckets -> Node \union {Null}]
  /\ bucketLock \in [Buckets -> Clients \union {Null}]
  /\ nodeCursor \in Nat
  /\ count      \in Int
  /\ state      \in [Node -> NodeStates]
  /\ blockBase  \in [Node -> Bases \union {Null}]
  /\ next       \in [Node -> Node \union {Null}]
  /\ liveCount  \in [Node -> Nat]
  /\ threadID   \in [Node -> Clients \union {Null}]
  /\ dtorLock   \in [Node -> Clients \union {Null}]
  /\ generation \in [Node -> Nat]
  /\ quarantine \subseteq Bases
  /\ pc         \in [Threads -> ControlPoints]
  /\ base       \in [Threads -> Bases \union {Null}]
  /\ cur        \in [Threads -> Node \union {Null}]
  /\ mine       \in [Threads -> Node \union {Null}]
  /\ gen        \in [Threads -> Nat]
  /\ goal       \in [Threads -> {"idle", "begin", "end", "retire"}]

\* A node is linked once insert has published it in m_Head.
Linked(n) ==
  /\ n < nodeCursor
  /\ \A t \in Clients : pc[t] = "link" => mine[t] # n

Tracked(n) == Linked(n) /\ state[n] # "Dead"

\* However inserts of the same base race with each other and with retire, at
\* most one node tracks a base: insert refuses the base under the bucket lock
\* until retire has made the older node Dead (AllocationRegistry.cpp:95-100).
AtMostOneTracked ==
  \A m, n \in Node :
    Tracked(m) /\ Tracked(n) /\ blockBase[m] = blockBase[n] => m = n

\* A base never comes back with a generation it had before, whatever nodes of
\* other bases share its bucket ("stale ShadowedMemory<T> handles never match a
\* recycled address", AllocationRegistry.cpp:87).
GenerationsIncrease ==
  \A m, n \in Node :
    Linked(m) /\ Linked(n) /\ blockBase[m] = blockBase[n] /\ m < n
      => generation[m] < generation[n]

\* The control points between the two CASes of a retirement.
RetiringAt ==
  {"destroy", "endCall", "walk", "end", "keepLive", "toQuarantine"}

Retires(t, n) == pc[t] \in RetiringAt /\ mine[t] = n

\* A node is Retiring exactly while one thread is destroying an object in it,
\* and that thread holds m_DtorLock until it has left the Retiring state.
RetiringIsExclusive ==
  \A n \in Node :
    /\ state[n] = "Retiring" <=> \E t \in Clients : Retires(t, n)
    /\ \A t \in Clients : Retires(t, n) => dtorLock[n] = t

\* endRetiring looks its node up again without the pointer beginRetiring
\* returned; the lookup finds that node, or the lock would leak and the block
\* stay Retiring for ever (AllocationRegistry.cpp:189-191).
EndFindsOwnNode ==
  \A t \in Clients :
    pc[t] = "end" => cur[t] # Null /\ cur[t] = mine[t]

\* A Live node has an object left and a node that was quarantined or retired
\* has none: no object is destroyed after the block was given up.
LiveCountConsistent ==
  \A n \in Node :
    /\ state[n] = "Live" => liveCount[n] > 0
    /\ state[n] \in {"Quarantine", "Dead"} => liveCount[n] = 0

\* Threads that have quarantined the node of base b but not yet enqueued b.
Enqueues(t, b) ==
  pc[t] \in {"unlockLast", "countDown", "enqueue"} /\ base[t] = b

Retirement(b) ==
  pc[Drainer] \in {"walk", "retire"} /\ base[Drainer] = b

\* The base is in the hands of a client, of the queue or of the flusher ...
InCustody(b) ==
  (\E t \in Clients : Enqueues(t, b)) \/ b \in quarantine \/ Retirement(b)

QuarantinedAt(b) == {n \in Node : state[n] = "Quarantine" /\ blockBase[n] = b}

\* ... exactly while a node of it is in state Quarantine, and in one hand only:
\* the queue never holds a base twice, so no block is deallocated twice.
CustodyMatchesState ==
  \A b \in Bases :
    /\ InCustody(b) <=> QuarantinedAt(b) # {}
    /\ \A t \in Clients : Enqueues(t, b) =>
         /\ b \notin quarantine
         /\ ~ Retirement(b)
         /\ \A u \in Clients : Enqueues(u, b) => u = t
    /\ b \in quarantine => ~ Retirement(b)

\* retire, whose result the flusher ignores (QuarantineQueue.cpp:150), never
\* fails on a base it takes from the queue: the block given back to the
\* allocator is always one whose node has just become Dead.
RetireSucceeds ==
  pc[Drainer] = "retire" =>
    /\ cur[Drainer] # Null
    /\ state[cur[Drainer]] = "Quarantine"
    /\ blockBase[cur[Drainer]] = base[Drainer]

\* m_Count, updated after the locks are gone, is off by the operations in
\* flight only: liveCount() is exact whenever no client is inside.
CountMatches ==
  count = Cardinality({n \in Node : Linked(n) /\ state[n] \in {"Live", "Retiring"}})
          - Cardinality({t \in Clients : pc[t] = "countUp"})
          + Cardinality({t \in Clients : pc[t] \in {"unlockLast", "countDown"}})

(* Refinement *)

TrackedAt(b) == {n \in Node : Tracked(n) /\ blockBase[n] = b}
LinkedAt(b)  == {n \in Node : Linked(n) /\ blockBase[n] = b}

StatusOf(b) ==
  IF TrackedAt(b) = {} THEN "Absent" ELSE state[CHOOSE n \in TrackedAt(b) : TRUE]

LastGenOf(b) ==
  IF LinkedAt(b) = {} THEN 0
  ELSE generation[CHOOSE n \in LinkedAt(b) : \A m \in LinkedAt(b) : m <= n]

Lifecycle == INSTANCE BlockLifecycle
  WITH status  <- [b \in Bases |-> StatusOf(b)],
       lastGen <- [b \in Bases |-> LastGenOf(b)]

\* Seen from outside, every interleaving of inserts, retirements and flushes is
\* a sequence of atomic operations on the tracked allocation of each base.
RefinesLifecycle == Lifecycle!Spec

(* Liveness *)

\* A block that has entered quarantine is retired in the end, although the
\* thread that quarantined it still has to enqueue it.
QuarantineEnds ==
  \A n \in Node : state[n] = "Quarantine" ~> state[n] = "Dead"

\* m_DtorLock, a spin flag with no owner, never stays taken.
DtorLockFreed ==
  \A n \in Node : dtorLock[n] # Null ~> dtorLock[n] = Null
=============================================================================

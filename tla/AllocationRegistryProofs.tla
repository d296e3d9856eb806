----------------------- MODULE AllocationRegistryProofs -----------------------
(***************************************************************************)
(* Proofs about the retirements of AllocationRegistry and the theorems:    *)
(* IInv is inductive, the safety properties follow from it for any number  *)
(* of threads, bases, buckets and nodes, m_Count is exact up to operations *)
(* in flight, and the registry implements BlockLifecycle.                  *)
(***************************************************************************)
EXTENDS AllocationRegistryChains, FiniteSetTheorems

\* The block a flusher retires has a node in state Quarantine, and no other
\* node of the base is tracked.
LEMMA QuarantinedNode ==
  ASSUME IInv, NEW b \in Bases, InCustody(b)
  PROVE  \E n \in Node :
           /\ Linked(n) /\ state[n] = "Quarantine" /\ blockBase[n] = b
           /\ \A m \in Node : Tracked(m) /\ blockBase[m] = b => m = n
<1>1. PICK n \in Node : state[n] = "Quarantine" /\ blockBase[n] = b
  BY DEF IInv, CustodyMatchesState, QuarantinedAt
<1>2. Linked(n)
  BY <1>1 DEF IInv, NodesOK
<1> QED
  BY <1>1, <1>2 DEF IInv, AtMostOneTracked, Tracked

\* The thread between the two CASes keeps its node to itself.
LEMMA RetireStep == IInv /\ Next => RetireOK'
<1> SUFFICES ASSUME IInv, Next PROVE RetireOK'
  OBVIOUS
<1> USE ThreadsAssumption, BucketsAssumption, BoundsAssumption, NullAssumption
    DEF IInv, TypeOK, Threads, Goto, Return, FindFrom, Unlock, BucketFor, Refused,
        ReleaseDtorLock, sharedVars, nodeVars, localVars
<1>g. \A n \in Node : Linked(n) =>
        /\ Linked(n)'
        /\ blockBase'[n] = blockBase[n]
        /\ generation'[n] = generation[n]
        /\ state[n] = "Dead" => state'[n] = "Dead"
  BY LinkedGrows
<1>n. Null \notin Node
  BY DEF Node
<1>1. ASSUME NEW t \in Clients, NEW b \in Bases, InsertLock(t, b) PROVE RetireOK'
  BY <1>1, <1>g DEF InsertLock, RetireOK, Retires, RetiringAt, FrameOK
<1>2. ASSUME NEW t \in Clients, InsertScan(t) PROVE RetireOK'
  BY <1>2, <1>g DEF InsertScan, RetireOK, Retires, RetiringAt, FrameOK
<1>3. ASSUME NEW t \in Clients, InsertOverlap(t) PROVE RetireOK'
  BY <1>3, <1>g DEF InsertOverlap, RetireOK, Retires, RetiringAt, FrameOK
<1>4. ASSUME NEW t \in Clients, InsertExhausted(t) PROVE RetireOK'
  BY <1>4, <1>g DEF InsertExhausted, RetireOK, Retires, RetiringAt, FrameOK
<1>5. ASSUME NEW t \in Clients, NEW objects \in 1 .. MaxObjects, InsertNode(t, objects)
      PROVE  RetireOK'
  <2>1. \A n \in Node : state'[n] = "Retiring" => state[n] = "Retiring" /\ n # nodeCursor
    BY <1>5 DEF InsertNode
  <2>2. \A u \in Clients, n \in Node : Retires(u, n)' <=> Retires(u, n)
    BY <1>5 DEF InsertNode, Retires, RetiringAt
  <2>3. \A n \in Node : Linked(n) =>
          Linked(n)' /\ blockBase'[n] = blockBase[n] /\ state'[n] = state[n]
    BY <1>5, InsertNodeEffect
  <2> QED
    BY <1>5, <2>1, <2>2, <2>3, <1>n DEF RetireOK, InsertNode, RetiringAt
<1>6. ASSUME NEW t \in Clients, InsertLink(t) PROVE RetireOK'
  BY <1>6, <1>g DEF InsertLink, RetireOK, Retires, RetiringAt, FrameOK
<1>7. ASSUME NEW t \in Clients, InsertCount(t) PROVE RetireOK'
  BY <1>7, <1>g DEF InsertCount, RetireOK, Retires, RetiringAt, FrameOK
<1>8. ASSUME NEW t \in Threads, FindNext(t) PROVE RetireOK'
  BY <1>8, <1>g DEF FindNext, RetireOK, Retires, RetiringAt, FrameOK
<1>9. ASSUME NEW t \in Threads, FindReturn(t) PROVE RetireOK'
  <2>1. /\ pc' = [pc EXCEPT ![t] = goal[t]] /\ pc[t] = "walk"
        /\ UNCHANGED <<mine, base, cur, goal, state, dtorLock>>
    BY <1>9 DEF FindReturn
  <2>2. t \in Clients /\ goal[t] = "begin" => mine[t] = Null
    BY <2>1 DEF FrameOK
  <2>3. \A u \in Clients, n \in Node : Retires(u, n)' <=> Retires(u, n)
    BY <2>1, <2>2, <1>n DEF Retires, RetiringAt, FrameOK
  <2>4. \A u \in Clients :
          /\ pc'[u] \in RetiringAt /\ (pc'[u] = "walk" => goal'[u] = "end") => mine'[u] # Null
          /\ pc'[u] \in {"beginCAS", "unlock", "unlockLast"} => dtorLock'[cur'[u]] = u
    BY <2>1 DEF RetireOK, RetiringAt, FrameOK
  <2> QED
    BY <2>1, <2>3, <2>4, <1>g DEF RetireOK
<1>10. ASSUME NEW t \in Clients, NEW b \in Bases, BeginCall(t, b) PROVE RetireOK'
  BY <1>10, <1>g, <1>n DEF BeginCall, RetireOK, Retires, RetiringAt, FrameOK
<1>11. ASSUME NEW t \in Clients, Refused(t) PROVE RetireOK'
  BY <1>11, <1>g DEF Refused, RetireOK, Retires, RetiringAt, FrameOK
<1>12. ASSUME NEW t \in Clients, NEW policy \in Policies, BeginTryLock(t, policy)
      PROVE  RetireOK'
  BY <1>12, <1>g DEF BeginTryLock, RetireOK, Retires, RetiringAt, FrameOK, CursorOK
<1>13. ASSUME NEW t \in Clients, BeginRetires(t) PROVE RetireOK'
  BY <1>13, <1>g DEF BeginRetires, RetireOK, Retires, RetiringAt, FrameOK, CursorOK
<1>14. ASSUME NEW t \in Clients, BeginNotLive(t) PROVE RetireOK'
  BY <1>14, <1>g DEF BeginNotLive, RetireOK, Retires, RetiringAt, FrameOK
<1>15. ASSUME NEW t \in Clients, DestroyObject(t) PROVE RetireOK'
  BY <1>15, <1>g DEF DestroyObject, RetireOK, Retires, RetiringAt, FrameOK
<1>16. ASSUME NEW t \in Clients, EndCall(t) PROVE RetireOK'
  BY <1>16, <1>g DEF EndCall, RetireOK, Retires, RetiringAt, FrameOK
<1>17. ASSUME NEW t \in Clients, EndLoad(t) PROVE RetireOK'
  BY <1>17, <1>g DEF EndLoad, RetireOK, Retires, RetiringAt, FrameOK
<1>18. ASSUME NEW t \in Clients, EndKeepLive(t) PROVE RetireOK'
  BY <1>18, <1>g DEF EndKeepLive, RetireOK, Retires, RetiringAt, FrameOK
<1>19. ASSUME NEW t \in Clients, EndQuarantine(t) PROVE RetireOK'
  BY <1>19, <1>g DEF EndQuarantine, RetireOK, Retires, RetiringAt, FrameOK
<1>20. ASSUME NEW t \in Clients, UnlockReturn(t) PROVE RetireOK'
  BY <1>20, <1>g DEF UnlockReturn, RetireOK, Retires, RetiringAt, FrameOK
<1>21. ASSUME NEW t \in Clients, UnlockLast(t) PROVE RetireOK'
  BY <1>21, <1>g DEF UnlockLast, RetireOK, Retires, RetiringAt, FrameOK
<1>22. ASSUME NEW t \in Clients, EndCount(t) PROVE RetireOK'
  BY <1>22, <1>g DEF EndCount, RetireOK, Retires, RetiringAt, FrameOK
<1>23. ASSUME NEW t \in Clients, EndEnqueue(t) PROVE RetireOK'
  BY <1>23, <1>g DEF EndEnqueue, RetireOK, Retires, RetiringAt, FrameOK
<1>24. ASSUME NEW b \in Bases, RetireCall(b) PROVE RetireOK'
  BY <1>24, <1>g DEF RetireCall, RetireOK, Retires, RetiringAt, FrameOK
<1>25. ASSUME RetireCAS PROVE RetireOK'
  BY <1>25, <1>g DEF RetireCAS, RetireOK, Retires, RetiringAt, FrameOK
<1> QED
  BY <1>1, <1>2, <1>3, <1>4, <1>5, <1>6, <1>7, <1>8, <1>9, <1>10, <1>11, <1>12,
     <1>13, <1>14, <1>15, <1>16, <1>17, <1>18, <1>19, <1>20, <1>21, <1>22, <1>23,
     <1>24, <1>25
  DEF Next, ClientCall, ClientStep, DrainStep, BeginMiss, BeginForeign, BeginBusy

\* The lookups of endRetiring and retire do not walk past their node.
LEMMA WalkStep == IInv /\ Next => WalkOK'
<1> SUFFICES ASSUME IInv, Next PROVE WalkOK'
  OBVIOUS
<1> USE ThreadsAssumption, BucketsAssumption, BoundsAssumption, NullAssumption
    DEF IInv, TypeOK, Threads, Goto, Return, FindFrom, Unlock, BucketFor, Refused,
        ReleaseDtorLock, sharedVars, nodeVars, localVars
<1>g. \A n \in Node : Linked(n) =>
        /\ Linked(n)'
        /\ blockBase'[n] = blockBase[n]
        /\ generation'[n] = generation[n]
        /\ state[n] = "Dead" => state'[n] = "Dead"
  BY LinkedGrows
<1>1. ASSUME NEW t \in Clients, NEW b \in Bases, InsertLock(t, b) PROVE WalkOK'
  BY <1>1, <1>g DEF InsertLock, WalkOK, FrameOK, QuarantinedAt
<1>2. ASSUME NEW t \in Clients, InsertScan(t) PROVE WalkOK'
  BY <1>2, <1>g DEF InsertScan, WalkOK, FrameOK, QuarantinedAt
<1>3. ASSUME NEW t \in Clients, InsertOverlap(t) PROVE WalkOK'
  BY <1>3, <1>g DEF InsertOverlap, WalkOK, FrameOK, QuarantinedAt
<1>4. ASSUME NEW t \in Clients, InsertExhausted(t) PROVE WalkOK'
  BY <1>4, <1>g DEF InsertExhausted, WalkOK, FrameOK, QuarantinedAt
<1>5. ASSUME NEW t \in Clients, NEW objects \in 1 .. MaxObjects, InsertNode(t, objects)
      PROVE  WalkOK'
  BY <1>5, <1>g DEF InsertNode, WalkOK, FrameOK, QuarantinedAt
<1>6. ASSUME NEW t \in Clients, InsertLink(t) PROVE WalkOK'
  BY <1>6, <1>g DEF InsertLink, WalkOK, FrameOK, QuarantinedAt
<1>7. ASSUME NEW t \in Clients, InsertCount(t) PROVE WalkOK'
  BY <1>7, <1>g DEF InsertCount, WalkOK, FrameOK, QuarantinedAt
<1>8. ASSUME NEW t \in Threads, FindNext(t) PROVE WalkOK'
  <2>1. /\ cur' = [cur EXCEPT ![t] = next[cur[t]]] /\ pc[t] = "walk"
        /\ cur[t] \in Node /\ ~ Matches(t)
        /\ UNCHANGED <<pc, base, mine, goal, state, blockBase>>
    BY <1>8 DEF FindNext
  <2>2. Linked(cur[t]) /\ Bucket(cur[t]) = BucketOf[base[t]]
    BY <2>1 DEF CursorOK
  <2>3. ASSUME NEW n \in Node, Linked(n), state[n] \notin {"Dead", "Empty"},
               blockBase[n] = base[t], n <= cur[t]
        PROVE  next[cur[t]] # Null /\ n <= next[cur[t]]
    <3>1. n # cur[t]
      BY <2>1, <2>3 DEF Matches
    <3>2. n < cur[t]
      BY <2>1, <2>3, <3>1 DEF Node
    <3>3. Bucket(n) = Bucket(cur[t])
      BY <2>2, <2>3 DEF Bucket
    <3> QED
      BY <2>1, <2>2, <2>3, <3>2, <3>3 DEF ChainOK
  <2>4. ASSUME NEW u \in Clients, pc[u] = "walk", goal[u] = "end"
        PROVE  cur'[u] # Null /\ mine[u] <= cur'[u]
    <3>1. mine[u] \in Node
      BY <2>4 DEF RetireOK, RetiringAt
    <3>2. Linked(mine[u]) /\ state[mine[u]] = "Retiring" /\ blockBase[mine[u]] = base[u]
      BY <2>4, <3>1 DEF RetireOK, Retires, RetiringAt
    <3> QED
      BY <2>1, <2>3, <2>4, <3>1, <3>2 DEF WalkOK
  <2>5. ASSUME pc[Drainer] = "walk", NEW n \in Node, state[n] = "Quarantine",
               blockBase[n] = base[Drainer]
        PROVE  cur'[Drainer] # Null /\ n <= cur'[Drainer]
    <3>1. Linked(n)
      BY <2>5 DEF NodesOK
    <3> QED
      BY <2>1, <2>3, <2>5, <3>1 DEF WalkOK, QuarantinedAt
  <2> QED
    BY <2>1, <2>4, <2>5 DEF WalkOK, QuarantinedAt
<1>9. ASSUME NEW t \in Threads, FindReturn(t) PROVE WalkOK'
  BY <1>9, <1>g DEF FindReturn, WalkOK, FrameOK, QuarantinedAt
<1>10. ASSUME NEW t \in Clients, NEW b \in Bases, BeginCall(t, b) PROVE WalkOK'
  BY <1>10, <1>g DEF BeginCall, WalkOK, FrameOK, QuarantinedAt
<1>11. ASSUME NEW t \in Clients, Refused(t) PROVE WalkOK'
  BY <1>11, <1>g DEF Refused, WalkOK, FrameOK, QuarantinedAt
<1>12. ASSUME NEW t \in Clients, NEW policy \in Policies, BeginTryLock(t, policy)
      PROVE  WalkOK'
  BY <1>12, <1>g DEF BeginTryLock, WalkOK, FrameOK, QuarantinedAt
<1>13. ASSUME NEW t \in Clients, BeginRetires(t) PROVE WalkOK'
  BY <1>13, <1>g DEF BeginRetires, WalkOK, FrameOK, QuarantinedAt
<1>14. ASSUME NEW t \in Clients, BeginNotLive(t) PROVE WalkOK'
  BY <1>14, <1>g DEF BeginNotLive, WalkOK, FrameOK, QuarantinedAt
<1>15. ASSUME NEW t \in Clients, DestroyObject(t) PROVE WalkOK'
  BY <1>15, <1>g DEF DestroyObject, WalkOK, FrameOK, QuarantinedAt
<1>16. ASSUME NEW t \in Clients, EndCall(t) PROVE WalkOK'
  BY <1>16, <1>g
  DEF EndCall, WalkOK, FrameOK, QuarantinedAt, RetireOK, Retires, RetiringAt,
      ChainOK, Bucket
<1>17. ASSUME NEW t \in Clients, EndLoad(t) PROVE WalkOK'
  BY <1>17, <1>g DEF EndLoad, WalkOK, FrameOK, QuarantinedAt
<1>18. ASSUME NEW t \in Clients, EndKeepLive(t) PROVE WalkOK'
  BY <1>18, <1>g DEF EndKeepLive, WalkOK, FrameOK, QuarantinedAt
<1>19. ASSUME NEW t \in Clients, EndQuarantine(t) PROVE WalkOK'
  <2>1. cur[t] \in Node /\ cur[t] = mine[t] /\ pc[t] = "toQuarantine" /\ base[t] \in Bases
    BY <1>19 DEF EndQuarantine, FrameOK
  <2>2. Tracked(cur[t]) /\ blockBase[cur[t]] = base[t] /\ state[cur[t]] = "Retiring"
    BY <2>1 DEF RetireOK, Retires, RetiringAt, Tracked
  <2>3. pc[Drainer] = "walk" => base[Drainer] # base[t]
    <3> SUFFICES ASSUME pc[Drainer] = "walk", base[Drainer] = base[t] PROVE FALSE
      OBVIOUS
    <3>1. InCustody(base[t])
      BY DEF InCustody, Retirement
    <3> QED
      BY <2>1, <2>2, <3>1, QuarantinedNode
  <2> QED
    BY <1>19, <2>1, <2>2, <2>3 DEF EndQuarantine, WalkOK, QuarantinedAt
<1>20. ASSUME NEW t \in Clients, UnlockReturn(t) PROVE WalkOK'
  BY <1>20, <1>g DEF UnlockReturn, WalkOK, FrameOK, QuarantinedAt
<1>21. ASSUME NEW t \in Clients, UnlockLast(t) PROVE WalkOK'
  BY <1>21, <1>g DEF UnlockLast, WalkOK, FrameOK, QuarantinedAt
<1>22. ASSUME NEW t \in Clients, EndCount(t) PROVE WalkOK'
  BY <1>22, <1>g DEF EndCount, WalkOK, FrameOK, QuarantinedAt
<1>23. ASSUME NEW t \in Clients, EndEnqueue(t) PROVE WalkOK'
  BY <1>23, <1>g DEF EndEnqueue, WalkOK, FrameOK, QuarantinedAt
<1>24. ASSUME NEW b \in Bases, RetireCall(b) PROVE WalkOK'
  <2>1. \A n \in QuarantinedAt(b) : head[BucketOf[b]] # Null /\ n <= head[BucketOf[b]]
    BY DEF QuarantinedAt, NodesOK, ChainOK, Bucket
  <2> QED
    BY <1>24, <2>1 DEF RetireCall, WalkOK, QuarantinedAt
<1>25. ASSUME RetireCAS PROVE WalkOK'
  BY <1>25, <1>g DEF RetireCAS, WalkOK, FrameOK, QuarantinedAt
<1> QED
  BY <1>1, <1>2, <1>3, <1>4, <1>5, <1>6, <1>7, <1>8, <1>9, <1>10, <1>11, <1>12,
     <1>13, <1>14, <1>15, <1>16, <1>17, <1>18, <1>19, <1>20, <1>21, <1>22, <1>23,
     <1>24, <1>25
  DEF Next, ClientCall, ClientStep, DrainStep, BeginMiss, BeginForeign, BeginBusy

\* The live count and the state of a node move together.
LEMMA LiveCountStep == IInv /\ Next => LiveCountOK'
<1> SUFFICES ASSUME IInv, Next PROVE LiveCountOK'
  OBVIOUS
<1> USE ThreadsAssumption, BucketsAssumption, BoundsAssumption, NullAssumption
    DEF IInv, TypeOK, Threads, Goto, Return, FindFrom, Unlock, BucketFor, Refused,
        ReleaseDtorLock, sharedVars, nodeVars, localVars
<1>1. ASSUME NEW t \in Clients, NEW b \in Bases, InsertLock(t, b)
      PROVE  LiveCountOK'
  BY <1>1
  DEF InsertLock, LiveCountOK, LiveCountConsistent, FrameOK, RetireOK, Retires,
      RetiringAt
<1>2. ASSUME NEW t \in Clients, InsertScan(t) PROVE LiveCountOK'
  BY <1>2
  DEF InsertScan, LiveCountOK, LiveCountConsistent, FrameOK, RetireOK, Retires,
      RetiringAt
<1>3. ASSUME NEW t \in Clients, InsertOverlap(t) PROVE LiveCountOK'
  BY <1>3
  DEF InsertOverlap, LiveCountOK, LiveCountConsistent, FrameOK, RetireOK, Retires,
      RetiringAt
<1>4. ASSUME NEW t \in Clients, InsertExhausted(t) PROVE LiveCountOK'
  BY <1>4
  DEF InsertExhausted, LiveCountOK, LiveCountConsistent, FrameOK, RetireOK, Retires,
      RetiringAt
<1>5. ASSUME NEW t \in Clients, NEW objects \in 1 .. MaxObjects, InsertNode(t, objects)
      PROVE  LiveCountOK'
  <2>1. objects > 0
    OBVIOUS
  <2>6. nodeCursor \in Node /\ pc[t] = "scan"
    BY <1>5, InsertNodeEffect DEF InsertNode
  <2>2. \A u \in Clients :
          pc[u] \in {"destroy", "keepLive", "toQuarantine"} => mine[u] # nodeCursor
    BY <1>5, InsertNodeEffect DEF RetireOK, Retires, RetiringAt
  <2>3. /\ state' = [state EXCEPT ![nodeCursor] = "Live"]
        /\ liveCount' = [liveCount EXCEPT ![nodeCursor] = objects]
    BY <1>5 DEF InsertNode
  <2>4. LiveCountConsistent'
    BY <2>1, <2>3, <2>6 DEF LiveCountOK, LiveCountConsistent
  <2>5. \A u \in Clients :
          /\ pc'[u] \in {"destroy", "keepLive", "toQuarantine"} => pc'[u] = pc[u]
          /\ pc'[u] \in {"destroy", "keepLive", "toQuarantine"} => mine'[u] = mine[u]
    BY <1>5, <2>6 DEF InsertNode
  <2> QED
    BY <2>2, <2>3, <2>4, <2>5 DEF LiveCountOK
<1>6. ASSUME NEW t \in Clients, InsertLink(t) PROVE LiveCountOK'
  BY <1>6
  DEF InsertLink, LiveCountOK, LiveCountConsistent, FrameOK, RetireOK, Retires,
      RetiringAt
<1>7. ASSUME NEW t \in Clients, InsertCount(t) PROVE LiveCountOK'
  BY <1>7
  DEF InsertCount, LiveCountOK, LiveCountConsistent, FrameOK, RetireOK, Retires,
      RetiringAt
<1>8. ASSUME NEW t \in Threads, FindNext(t) PROVE LiveCountOK'
  BY <1>8
  DEF FindNext, LiveCountOK, LiveCountConsistent, FrameOK, RetireOK, Retires,
      RetiringAt
<1>9. ASSUME NEW t \in Threads, FindReturn(t) PROVE LiveCountOK'
  BY <1>9
  DEF FindReturn, LiveCountOK, LiveCountConsistent, FrameOK, RetireOK, Retires,
      RetiringAt
<1>10. ASSUME NEW t \in Clients, NEW b \in Bases, BeginCall(t, b)
      PROVE  LiveCountOK'
  BY <1>10
  DEF BeginCall, LiveCountOK, LiveCountConsistent, FrameOK, RetireOK, Retires,
      RetiringAt
<1>11. ASSUME NEW t \in Clients, Refused(t) PROVE LiveCountOK'
  BY <1>11
  DEF Refused, LiveCountOK, LiveCountConsistent, FrameOK, RetireOK, Retires,
      RetiringAt
<1>12. ASSUME NEW t \in Clients, NEW policy \in Policies, BeginTryLock(t, policy)
      PROVE  LiveCountOK'
  BY <1>12
  DEF BeginTryLock, LiveCountOK, LiveCountConsistent, FrameOK, RetireOK, Retires,
      RetiringAt
<1>13. ASSUME NEW t \in Clients, BeginRetires(t) PROVE LiveCountOK'
  BY <1>13
  DEF BeginRetires, LiveCountOK, LiveCountConsistent, FrameOK, RetireOK, Retires,
      RetiringAt
<1>14. ASSUME NEW t \in Clients, BeginNotLive(t) PROVE LiveCountOK'
  BY <1>14
  DEF BeginNotLive, LiveCountOK, LiveCountConsistent, FrameOK, RetireOK, Retires,
      RetiringAt
<1>15. ASSUME NEW t \in Clients, DestroyObject(t) PROVE LiveCountOK'
  BY <1>15
  DEF DestroyObject, LiveCountOK, LiveCountConsistent, FrameOK, RetireOK, Retires,
      RetiringAt
<1>16. ASSUME NEW t \in Clients, EndCall(t) PROVE LiveCountOK'
  BY <1>16
  DEF EndCall, LiveCountOK, LiveCountConsistent, FrameOK, RetireOK, Retires,
      RetiringAt
<1>17. ASSUME NEW t \in Clients, EndLoad(t) PROVE LiveCountOK'
  BY <1>17
  DEF EndLoad, LiveCountOK, LiveCountConsistent, FrameOK, RetireOK, Retires,
      RetiringAt
<1>18. ASSUME NEW t \in Clients, EndKeepLive(t) PROVE LiveCountOK'
  BY <1>18
  DEF EndKeepLive, LiveCountOK, LiveCountConsistent, FrameOK, RetireOK, Retires,
      RetiringAt
<1>19. ASSUME NEW t \in Clients, EndQuarantine(t) PROVE LiveCountOK'
  BY <1>19
  DEF EndQuarantine, LiveCountOK, LiveCountConsistent, FrameOK, RetireOK, Retires,
      RetiringAt
<1>20. ASSUME NEW t \in Clients, UnlockReturn(t) PROVE LiveCountOK'
  BY <1>20
  DEF UnlockReturn, LiveCountOK, LiveCountConsistent, FrameOK, RetireOK, Retires,
      RetiringAt
<1>21. ASSUME NEW t \in Clients, UnlockLast(t) PROVE LiveCountOK'
  BY <1>21
  DEF UnlockLast, LiveCountOK, LiveCountConsistent, FrameOK, RetireOK, Retires,
      RetiringAt
<1>22. ASSUME NEW t \in Clients, EndCount(t) PROVE LiveCountOK'
  BY <1>22
  DEF EndCount, LiveCountOK, LiveCountConsistent, FrameOK, RetireOK, Retires,
      RetiringAt
<1>23. ASSUME NEW t \in Clients, EndEnqueue(t) PROVE LiveCountOK'
  BY <1>23
  DEF EndEnqueue, LiveCountOK, LiveCountConsistent, FrameOK, RetireOK, Retires,
      RetiringAt
<1>24. ASSUME NEW b \in Bases, RetireCall(b) PROVE LiveCountOK'
  BY <1>24
  DEF RetireCall, LiveCountOK, LiveCountConsistent, FrameOK, RetireOK, Retires,
      RetiringAt
<1>25. ASSUME RetireCAS PROVE LiveCountOK'
  BY <1>25
  DEF RetireCAS, LiveCountOK, LiveCountConsistent, FrameOK, RetireOK, Retires,
      RetiringAt
<1> QED
  BY <1>1, <1>2, <1>3, <1>4, <1>5, <1>6, <1>7, <1>8, <1>9, <1>10, <1>11, <1>12,
     <1>13, <1>14, <1>15, <1>16, <1>17, <1>18, <1>19, <1>20, <1>21, <1>22, <1>23,
     <1>24, <1>25
  DEF Next, ClientCall, ClientStep, DrainStep, BeginMiss, BeginForeign, BeginBusy

\* The flusher's lookup ends at the quarantined node.
LEMMA RetireSucceedsStep == IInv /\ Next => RetireSucceeds'
<1> SUFFICES ASSUME IInv, Next PROVE RetireSucceeds'
  OBVIOUS
<1> USE ThreadsAssumption, BucketsAssumption, BoundsAssumption, NullAssumption
    DEF IInv, TypeOK, Threads, Goto, Return, FindFrom, Unlock, BucketFor, Refused,
        ReleaseDtorLock, sharedVars, nodeVars, localVars
<1>1. ASSUME NEW t \in Clients, NEW b \in Bases, InsertLock(t, b)
      PROVE  RetireSucceeds'
  BY <1>1 DEF InsertLock, RetireSucceeds, FrameOK
<1>2. ASSUME NEW t \in Clients, InsertScan(t) PROVE RetireSucceeds'
  BY <1>2 DEF InsertScan, RetireSucceeds, FrameOK
<1>3. ASSUME NEW t \in Clients, InsertOverlap(t) PROVE RetireSucceeds'
  BY <1>3 DEF InsertOverlap, RetireSucceeds, FrameOK
<1>4. ASSUME NEW t \in Clients, InsertExhausted(t) PROVE RetireSucceeds'
  BY <1>4 DEF InsertExhausted, RetireSucceeds, FrameOK
<1>5. ASSUME NEW t \in Clients, NEW objects \in 1 .. MaxObjects, InsertNode(t, objects)
      PROVE  RetireSucceeds'
  <2>1. pc[Drainer] = "retire" => cur[Drainer] # nodeCursor
    BY <1>5, InsertNodeEffect DEF RetireSucceeds, CursorOK, Node
  <2> QED
    BY <1>5, <2>1 DEF InsertNode, RetireSucceeds
<1>6. ASSUME NEW t \in Clients, InsertLink(t) PROVE RetireSucceeds'
  BY <1>6 DEF InsertLink, RetireSucceeds, FrameOK
<1>7. ASSUME NEW t \in Clients, InsertCount(t) PROVE RetireSucceeds'
  BY <1>7 DEF InsertCount, RetireSucceeds, FrameOK
<1>8. ASSUME NEW t \in Threads, FindNext(t) PROVE RetireSucceeds'
  BY <1>8 DEF FindNext, RetireSucceeds, FrameOK
<1>9. ASSUME NEW t \in Threads, FindReturn(t) PROVE RetireSucceeds'
  <2>1. CASE t # Drainer
    BY <1>9, <2>1 DEF FindReturn, RetireSucceeds, FrameOK
  <2>2. CASE t = Drainer
    <3> DEFINE b == base[Drainer]
               c == cur[Drainer]
    <3>1. pc[Drainer] = "walk" /\ b \in Bases
      BY <1>9, <2>2 DEF FindReturn, FrameOK
    <3>2. PICK n \in Node :
            /\ Linked(n) /\ state[n] = "Quarantine" /\ blockBase[n] = b
            /\ \A m \in Node : Tracked(m) /\ blockBase[m] = b => m = n
      BY <3>1, QuarantinedNode DEF InCustody, Retirement
    <3>3. c \in Node /\ c # Null
      BY <3>1, <3>2 DEF WalkOK, QuarantinedAt
    <3>4. Linked(c) /\ Matches(Drainer)
      BY <1>9, <2>2, <3>1, <3>3 DEF FindReturn, CursorOK
    <3>5. c = n
      BY <3>2, <3>3, <3>4 DEF Matches, Tracked
    <3> QED
      BY <1>9, <2>2, <3>2, <3>3, <3>5 DEF FindReturn, RetireSucceeds
  <2> QED
    BY <2>1, <2>2
<1>10. ASSUME NEW t \in Clients, NEW b \in Bases, BeginCall(t, b)
      PROVE  RetireSucceeds'
  BY <1>10 DEF BeginCall, RetireSucceeds, FrameOK
<1>11. ASSUME NEW t \in Clients, Refused(t) PROVE RetireSucceeds'
  BY <1>11 DEF Refused, RetireSucceeds, FrameOK
<1>12. ASSUME NEW t \in Clients, NEW policy \in Policies, BeginTryLock(t, policy)
      PROVE  RetireSucceeds'
  BY <1>12 DEF BeginTryLock, RetireSucceeds, FrameOK
<1>13. ASSUME NEW t \in Clients, BeginRetires(t) PROVE RetireSucceeds'
  BY <1>13 DEF BeginRetires, RetireSucceeds, FrameOK
<1>14. ASSUME NEW t \in Clients, BeginNotLive(t) PROVE RetireSucceeds'
  BY <1>14 DEF BeginNotLive, RetireSucceeds, FrameOK
<1>15. ASSUME NEW t \in Clients, DestroyObject(t) PROVE RetireSucceeds'
  BY <1>15 DEF DestroyObject, RetireSucceeds, FrameOK
<1>16. ASSUME NEW t \in Clients, EndCall(t) PROVE RetireSucceeds'
  BY <1>16 DEF EndCall, RetireSucceeds, FrameOK
<1>17. ASSUME NEW t \in Clients, EndLoad(t) PROVE RetireSucceeds'
  BY <1>17 DEF EndLoad, RetireSucceeds, FrameOK
<1>18. ASSUME NEW t \in Clients, EndKeepLive(t) PROVE RetireSucceeds'
  BY <1>18 DEF EndKeepLive, RetireSucceeds, FrameOK, RetireOK, Retires, RetiringAt
<1>19. ASSUME NEW t \in Clients, EndQuarantine(t) PROVE RetireSucceeds'
  BY <1>19 DEF EndQuarantine, RetireSucceeds, FrameOK
<1>20. ASSUME NEW t \in Clients, UnlockReturn(t) PROVE RetireSucceeds'
  BY <1>20 DEF UnlockReturn, RetireSucceeds, FrameOK
<1>21. ASSUME NEW t \in Clients, UnlockLast(t) PROVE RetireSucceeds'
  BY <1>21 DEF UnlockLast, RetireSucceeds, FrameOK
<1>22. ASSUME NEW t \in Clients, EndCount(t) PROVE RetireSucceeds'
  BY <1>22 DEF EndCount, RetireSucceeds, FrameOK
<1>23. ASSUME NEW t \in Clients, EndEnqueue(t) PROVE RetireSucceeds'
  BY <1>23 DEF EndEnqueue, RetireSucceeds, FrameOK
<1>24. ASSUME NEW b \in Bases, RetireCall(b) PROVE RetireSucceeds'
  BY <1>24 DEF RetireCall, RetireSucceeds, FrameOK
<1>25. ASSUME RetireCAS PROVE RetireSucceeds'
  BY <1>25 DEF RetireCAS, RetireSucceeds, FrameOK
<1> QED
  BY <1>1, <1>2, <1>3, <1>4, <1>5, <1>6, <1>7, <1>8, <1>9, <1>10, <1>11, <1>12,
     <1>13, <1>14, <1>15, <1>16, <1>17, <1>18, <1>19, <1>20, <1>21, <1>22, <1>23,
     <1>24, <1>25
  DEF Next, ClientCall, ClientStep, DrainStep, BeginMiss, BeginForeign, BeginBusy

-----------------------------------------------------------------------------
(* The hand-over of quarantined blocks, and the theorems *)

\* The step hands no block over.
NoHandOver ==
  /\ UNCHANGED quarantine
  /\ \A b \in Bases :
       /\ Retirement(b)' <=> Retirement(b)
       /\ \A t \in Clients : Enqueues(t, b)' <=> Enqueues(t, b)
       /\ \A n \in Node :
            n \in QuarantinedAt(b)' <=> n \in QuarantinedAt(b)

\* Custody changes in the four steps of the hand-over only.
LEMMA HandOverSteps ==
  ASSUME IInv, Next,
         ~ \E t \in Clients : EndQuarantine(t) \/ EndEnqueue(t),
         ~ \E b \in Bases : RetireCall(b),
         ~ RetireCAS
  PROVE  NoHandOver
<1> USE ThreadsAssumption, BucketsAssumption, BoundsAssumption, NullAssumption
    DEF IInv, TypeOK, Threads, Goto, Return, FindFrom, Unlock, BucketFor, Refused,
        ReleaseDtorLock, sharedVars, nodeVars, localVars
<1>1. ASSUME NEW t \in Clients, NEW b \in Bases, InsertLock(t, b)
      PROVE  NoHandOver
  BY <1>1 DEF InsertLock, NoHandOver, Retirement, Enqueues, QuarantinedAt, FrameOK
<1>2. ASSUME NEW t \in Clients, InsertScan(t) PROVE NoHandOver
  BY <1>2 DEF InsertScan, NoHandOver, Retirement, Enqueues, QuarantinedAt, FrameOK
<1>3. ASSUME NEW t \in Clients, InsertOverlap(t) PROVE NoHandOver
  BY <1>3 DEF InsertOverlap, NoHandOver, Retirement, Enqueues, QuarantinedAt, FrameOK
<1>4. ASSUME NEW t \in Clients, InsertExhausted(t) PROVE NoHandOver
  BY <1>4
  DEF InsertExhausted, NoHandOver, Retirement, Enqueues, QuarantinedAt, FrameOK
<1>5. ASSUME NEW t \in Clients, NEW objects \in 1 .. MaxObjects, InsertNode(t, objects)
      PROVE  NoHandOver
  <2>1. state' = [state EXCEPT ![nodeCursor] = "Live"] /\ nodeCursor \in Node
        /\ blockBase' = [blockBase EXCEPT ![nodeCursor] = base[t]]
        /\ state[nodeCursor] # "Quarantine"
    BY <1>5, InsertNodeEffect DEF InsertNode, NodesOK
  <2>2. \A b \in Bases, n \in Node : n \in QuarantinedAt(b)' <=> n \in QuarantinedAt(b)
    BY <2>1 DEF QuarantinedAt
  <2> QED
    BY <1>5, <2>2 DEF InsertNode, NoHandOver, Retirement, Enqueues
<1>6. ASSUME NEW t \in Clients, InsertLink(t) PROVE NoHandOver
  BY <1>6 DEF InsertLink, NoHandOver, Retirement, Enqueues, QuarantinedAt, FrameOK
<1>7. ASSUME NEW t \in Clients, InsertCount(t) PROVE NoHandOver
  BY <1>7 DEF InsertCount, NoHandOver, Retirement, Enqueues, QuarantinedAt, FrameOK
<1>8. ASSUME NEW t \in Threads, FindNext(t) PROVE NoHandOver
  BY <1>8 DEF FindNext, NoHandOver, Retirement, Enqueues, QuarantinedAt, FrameOK
<1>9. ASSUME NEW t \in Threads, FindReturn(t) PROVE NoHandOver
  BY <1>9 DEF FindReturn, NoHandOver, Retirement, Enqueues, QuarantinedAt, FrameOK
<1>10. ASSUME NEW t \in Clients, NEW b \in Bases, BeginCall(t, b)
      PROVE  NoHandOver
  BY <1>10 DEF BeginCall, NoHandOver, Retirement, Enqueues, QuarantinedAt, FrameOK
<1>11. ASSUME NEW t \in Clients, Refused(t) PROVE NoHandOver
  BY <1>11 DEF Refused, NoHandOver, Retirement, Enqueues, QuarantinedAt, FrameOK
<1>12. ASSUME NEW t \in Clients, NEW policy \in Policies, BeginTryLock(t, policy)
      PROVE  NoHandOver
  BY <1>12 DEF BeginTryLock, NoHandOver, Retirement, Enqueues, QuarantinedAt, FrameOK
<1>13. ASSUME NEW t \in Clients, BeginRetires(t) PROVE NoHandOver
  BY <1>13 DEF BeginRetires, NoHandOver, Retirement, Enqueues, QuarantinedAt, FrameOK
<1>14. ASSUME NEW t \in Clients, BeginNotLive(t) PROVE NoHandOver
  BY <1>14 DEF BeginNotLive, NoHandOver, Retirement, Enqueues, QuarantinedAt, FrameOK
<1>15. ASSUME NEW t \in Clients, DestroyObject(t) PROVE NoHandOver
  BY <1>15
  DEF DestroyObject, NoHandOver, Retirement, Enqueues, QuarantinedAt, FrameOK
<1>16. ASSUME NEW t \in Clients, EndCall(t) PROVE NoHandOver
  BY <1>16 DEF EndCall, NoHandOver, Retirement, Enqueues, QuarantinedAt, FrameOK
<1>17. ASSUME NEW t \in Clients, EndLoad(t) PROVE NoHandOver
  BY <1>17 DEF EndLoad, NoHandOver, Retirement, Enqueues, QuarantinedAt, FrameOK
<1>18. ASSUME NEW t \in Clients, EndKeepLive(t) PROVE NoHandOver
  BY <1>18
  DEF EndKeepLive, NoHandOver, Retirement, Enqueues, QuarantinedAt, FrameOK,
      RetireOK, Retires, RetiringAt
<1>19. ASSUME NEW t \in Clients, UnlockReturn(t) PROVE NoHandOver
  BY <1>19 DEF UnlockReturn, NoHandOver, Retirement, Enqueues, QuarantinedAt, FrameOK
<1>20. ASSUME NEW t \in Clients, UnlockLast(t) PROVE NoHandOver
  BY <1>20 DEF UnlockLast, NoHandOver, Retirement, Enqueues, QuarantinedAt, FrameOK
<1>21. ASSUME NEW t \in Clients, EndCount(t) PROVE NoHandOver
  BY <1>21 DEF EndCount, NoHandOver, Retirement, Enqueues, QuarantinedAt, FrameOK
<1> QED
  BY <1>1, <1>2, <1>3, <1>4, <1>5, <1>6, <1>7, <1>8, <1>9, <1>10, <1>11, <1>12,
     <1>13, <1>14, <1>15, <1>16, <1>17, <1>18, <1>19, <1>20, <1>21
  DEF Next, ClientCall, ClientStep, DrainStep, BeginMiss, BeginForeign, BeginBusy

\* CustodyMatchesState survives every step.
LEMMA CustodyStep == IInv /\ Next => CustodyMatchesState'
<1> SUFFICES ASSUME IInv, Next PROVE CustodyMatchesState'
  OBVIOUS
<1> USE ThreadsAssumption, BucketsAssumption, BoundsAssumption, NullAssumption
    DEF IInv, TypeOK, Threads, Goto, Return, FindFrom, Unlock, BucketFor, Refused,
        ReleaseDtorLock, sharedVars, nodeVars, localVars
<1>1. ASSUME NoHandOver PROVE CustodyMatchesState'
  BY <1>1 DEF NoHandOver, CustodyMatchesState, InCustody, QuarantinedAt
<1>2. ASSUME NEW t \in Clients, EndQuarantine(t) PROVE CustodyMatchesState'
  <2> DEFINE n == cur[t]
             b == base[t]
  <2>1. n \in Node /\ n = mine[t] /\ pc[t] = "toQuarantine" /\ b \in Bases
    BY <1>2 DEF EndQuarantine, FrameOK
  <2>2. Tracked(n) /\ blockBase[n] = b /\ state[n] = "Retiring"
    BY <2>1 DEF RetireOK, Retires, RetiringAt, Tracked
  <2>3. ~ InCustody(b)
    BY <2>1, <2>2, QuarantinedNode
  <2>4. /\ pc' = [pc EXCEPT ![t] = "unlockLast"]
        /\ state' = [state EXCEPT ![n] = "Quarantine"]
        /\ UNCHANGED <<base, blockBase, quarantine>>
    BY <1>2, <2>2 DEF EndQuarantine
  <2>5. ~ Retirement(b) /\ b \notin quarantine /\ \A u \in Clients : ~ Enqueues(u, b)
    BY <2>1, <2>3 DEF InCustody
  <2>6. \A c \in Bases, u \in Clients :
          Enqueues(u, c)' <=> Enqueues(u, c) \/ (u = t /\ c = b)
    BY <2>1, <2>4 DEF Enqueues
  <2>7. \A c \in Bases : Retirement(c)' <=> Retirement(c)
    BY <2>1, <2>4 DEF Retirement
  <2>8. \A c \in Bases, m \in Node :
          m \in QuarantinedAt(c)' <=> m \in QuarantinedAt(c) \/ (m = n /\ c = b)
    BY <2>1, <2>2, <2>4 DEF QuarantinedAt
  <2>9. \A c \in Bases : QuarantinedAt(c)' # {} <=> QuarantinedAt(c) # {} \/ c = b
    BY <2>1, <2>8 DEF QuarantinedAt
  <2>10. \A c \in Bases : InCustody(c)' <=> InCustody(c) \/ c = b
    BY <2>1, <2>4, <2>6, <2>7 DEF InCustody
  <2> QED
    BY <2>4, <2>5, <2>6, <2>7, <2>9, <2>10 DEF CustodyMatchesState
<1>3. ASSUME NEW t \in Clients, EndEnqueue(t) PROVE CustodyMatchesState'
  <2> DEFINE b == base[t]
  <2>1. pc[t] = "enqueue" /\ b \in Bases /\ Enqueues(t, b)
    BY <1>3 DEF EndEnqueue, FrameOK, Enqueues
  <2>2. /\ pc' = [pc EXCEPT ![t] = "idle"]
        /\ base' = [base EXCEPT ![t] = Null]
        /\ quarantine' = quarantine \union {b}
        /\ UNCHANGED <<state, blockBase>>
    BY <1>3 DEF EndEnqueue
  <2>3. /\ b \notin quarantine /\ ~ Retirement(b) /\ InCustody(b)
        /\ \A u \in Clients : Enqueues(u, b) => u = t
    BY <2>1 DEF CustodyMatchesState, InCustody
  <2>4. \A c \in Bases, u \in Clients : Enqueues(u, c)' <=> Enqueues(u, c) /\ u # t
    BY <2>1, <2>2 DEF Enqueues
  <2>5. \A c \in Bases : Retirement(c)' <=> Retirement(c)
    BY <2>2 DEF Retirement
  <2>6. \A c \in Bases : Enqueues(t, c) => c = b
    BY DEF Enqueues
  <2>7. \A c \in Bases : InCustody(c)' <=> InCustody(c)
    BY <2>1, <2>2, <2>4, <2>5, <2>6 DEF InCustody
  <2>8. \A c \in Bases : QuarantinedAt(c)' = QuarantinedAt(c)
    BY <2>2 DEF QuarantinedAt
  <2> QED
    BY <2>2, <2>3, <2>4, <2>5, <2>6, <2>7, <2>8 DEF CustodyMatchesState
<1>4. ASSUME NEW b \in Bases, RetireCall(b) PROVE CustodyMatchesState'
  <2>1. /\ pc[Drainer] = "idle" /\ b \in quarantine
        /\ pc' = [pc EXCEPT ![Drainer] = "walk"]
        /\ base' = [base EXCEPT ![Drainer] = b]
        /\ quarantine' = quarantine \ {b}
        /\ UNCHANGED <<state, blockBase>>
    BY <1>4 DEF RetireCall
  <2>2. \A u \in Clients : ~ Enqueues(u, b)
    BY <2>1 DEF CustodyMatchesState
  <2>3. \A c \in Bases, u \in Clients : Enqueues(u, c)' <=> Enqueues(u, c)
    BY <2>1 DEF Enqueues
  <2>4. \A c \in Bases : ~ Retirement(c) /\ (Retirement(c)' <=> c = b)
    BY <2>1 DEF Retirement
  <2>5. \A c \in Bases : InCustody(c)' <=> InCustody(c)
    BY <2>1, <2>3, <2>4 DEF InCustody
  <2>6. \A c \in Bases : QuarantinedAt(c)' = QuarantinedAt(c)
    BY <2>1 DEF QuarantinedAt
  <2> QED
    BY <2>1, <2>2, <2>3, <2>4, <2>5, <2>6 DEF CustodyMatchesState
<1>5. ASSUME RetireCAS PROVE CustodyMatchesState'
  <2> DEFINE n == cur[Drainer]
             b == base[Drainer]
  <2>1. /\ pc[Drainer] = "retire" /\ b \in Bases /\ n \in Node
        /\ state[n] = "Quarantine" /\ blockBase[n] = b /\ Retirement(b)
    BY <1>5 DEF RetireCAS, RetireSucceeds, FrameOK, Retirement
  <2>2. /\ pc' = [pc EXCEPT ![Drainer] = "idle"]
        /\ state' = [state EXCEPT ![n] = "Dead"]
        /\ base' = [base EXCEPT ![Drainer] = Null]
        /\ UNCHANGED <<blockBase, quarantine>>
    BY <1>5, <2>1 DEF RetireCAS, Node
  <2>3. \A m \in Node : state[m] = "Quarantine" /\ blockBase[m] = b => m = n
    BY <2>1, QuarantinedNode DEF InCustody, NodesOK, Tracked
  <2>4. \A c \in Bases : Retirement(c) => c = b
    BY <2>1 DEF Retirement
  <2>5. \A c \in Bases : ~ Retirement(c)'
    BY <2>2 DEF Retirement
  <2>6. \A c \in Bases, u \in Clients : Enqueues(u, c)' <=> Enqueues(u, c)
    BY <2>2 DEF Enqueues
  <2>7. b \notin quarantine /\ \A u \in Clients : ~ Enqueues(u, b)
    BY <2>1 DEF CustodyMatchesState
  <2>8. \A c \in Bases : InCustody(c)' <=> InCustody(c) /\ c # b
    BY <2>2, <2>4, <2>5, <2>6, <2>7 DEF InCustody
  <2>9. \A c \in Bases, m \in Node :
          m \in QuarantinedAt(c)' <=> m \in QuarantinedAt(c) /\ c # b
    BY <2>1, <2>2, <2>3 DEF QuarantinedAt
  <2>10. \A c \in Bases : QuarantinedAt(c)' # {} <=> QuarantinedAt(c) # {} /\ c # b
    BY <2>9 DEF QuarantinedAt
  <2> QED
    BY <2>2, <2>5, <2>6, <2>8, <2>10 DEF CustodyMatchesState
<1> QED
  BY <1>1, <1>2, <1>3, <1>4, <1>5, HandOverSteps

\* The registry starts in a state of the invariant.
LEMMA InitIInv == Init => IInv
<1> SUFFICES ASSUME Init PROVE IInv
  OBVIOUS
<1> USE ThreadsAssumption, BucketsAssumption, BoundsAssumption, NullAssumption DEF Init
<1>1. TypeOK
  BY DEF TypeOK, Threads, NodeStates, ControlPoints
<1>2. \A n \in Node : ~ Linked(n)
  BY DEF Linked, Node
<1>3. \A t \in Threads : pc[t] = "idle" /\ cur[t] = Null /\ base[t] = Null /\ mine[t] = Null
  OBVIOUS
<1>n. Null \notin Node
  BY DEF Node
<1>4. ChainOK
  BY <1>2, <1>n DEF ChainOK
<1>5. NodesOK
  BY <1>2 DEF NodesOK
<1>6. FrameOK
  BY <1>3 DEF FrameOK, Threads
<1>7. CursorOK
  BY <1>3, <1>n DEF CursorOK
<1>8. BucketLockOK
  BY <1>3 DEF BucketLockOK, Threads
<1>9. ScanOK /\ LinkOK
  BY <1>3 DEF ScanOK, LinkOK, Threads
<1>10. AtMostOneTracked /\ GenerationsIncrease
  BY <1>2 DEF AtMostOneTracked, GenerationsIncrease, Tracked
<1>11. RetireOK
  BY <1>3 DEF RetireOK, Retires, RetiringAt, Threads
<1>12. WalkOK /\ RetireSucceeds
  BY <1>3 DEF WalkOK, RetireSucceeds, Threads
<1>13. LiveCountOK
  BY <1>3 DEF LiveCountOK, LiveCountConsistent, Threads
<1>14. CustodyMatchesState
  BY <1>3 DEF CustodyMatchesState, InCustody, QuarantinedAt, Enqueues, Retirement, Threads
<1> QED
  BY <1>1, <1>4, <1>5, <1>6, <1>7, <1>8, <1>9, <1>10, <1>11, <1>12, <1>13, <1>14 DEF IInv

\* A step that changes nothing keeps the invariant.
LEMMA StutterIInv == IInv /\ UNCHANGED vars => IInv'
  BY DEF IInv, vars, sharedVars, nodeVars, localVars, TypeOK, ChainOK, NodesOK, FrameOK,
     CursorOK, BucketLockOK, ScanOK, LinkOK, AtMostOneTracked, GenerationsIncrease,
     RetireOK, WalkOK, LiveCountOK, LiveCountConsistent, CustodyMatchesState,
     RetireSucceeds, Linked, Tracked, Bucket, Passed, Retires, RetiringAt,
     QuarantinedAt, InCustody, Enqueues, Retirement

\* IInv is an invariant of the registry.
THEOREM Inductive == Spec => []IInv
<1>1. Init => IInv
  BY InitIInv
<1>2. IInv /\ [Next]_vars => IInv'
  <2>1. IInv /\ Next => IInv'
    BY TypeStep, ChainStep, NodesStep, FrameStep, CursorStep, BucketLockStep, ScanStep,
       LinkStep, TrackedStep, GenerationsStep, RetireStep, WalkStep, LiveCountStep,
       CustodyStep, RetireSucceedsStep
    DEF IInv
  <2> QED
    BY <2>1, StutterIInv
<1> QED
  BY <1>1, <1>2, PTL DEF Spec

\* Every variable keeps the type of its C++ field in every run.
THEOREM TypeCorrect == Spec => []TypeOK
<1>1. IInv => TypeOK
  BY DEF IInv
<1> QED
  BY <1>1, Inductive, PTL

\* A block base is tracked by at most one node at a time, however inserts and
\* retirements of it race.
THEOREM OneTrackedNode == Spec => []AtMostOneTracked
<1>1. IInv => AtMostOneTracked
  BY DEF IInv
<1> QED
  BY <1>1, Inductive, PTL

\* Every allocation at a base has a greater generation than all before it.
THEOREM FreshGenerations == Spec => []GenerationsIncrease
<1>1. IInv => GenerationsIncrease
  BY DEF IInv
<1> QED
  BY <1>1, Inductive, PTL

\* A Retiring node belongs to one thread, which holds its m_DtorLock.
THEOREM ExclusiveRetirement == Spec => []RetiringIsExclusive
<1>1. IInv => RetiringIsExclusive
  BY DEF IInv, RetireOK, RetiringIsExclusive
<1> QED
  BY <1>1, Inductive, PTL

\* endRetiring never misses the node that beginRetiring locked.
THEOREM EndNeverMisses == Spec => []EndFindsOwnNode
<1>1. IInv => EndFindsOwnNode
  BY DEF IInv, FrameOK, EndFindsOwnNode
<1> QED
  BY <1>1, Inductive, PTL

\* Live nodes hold an object and quarantined and dead ones hold none.
THEOREM LiveCountsConsistent == Spec => []LiveCountConsistent
<1>1. IInv => LiveCountConsistent
  BY DEF IInv, LiveCountOK
<1> QED
  BY <1>1, Inductive, PTL

\* A quarantined block is in exactly one hand: of a client, of the queue or of
\* the flusher.
THEOREM SingleCustody == Spec => []CustodyMatchesState
<1>1. IInv => CustodyMatchesState
  BY DEF IInv
<1> QED
  BY <1>1, Inductive, PTL

\* retire succeeds on every base the flusher takes from the queue.
THEOREM RetireAlwaysSucceeds == Spec => []RetireSucceeds
<1>1. IInv => RetireSucceeds
  BY DEF IInv
<1> QED
  BY <1>1, Inductive, PTL

-----------------------------------------------------------------------------
(* m_Count *)

Counts(s) == s \in {"Live", "Retiring"}

\* The step changes neither m_Count nor anything it is compared with.
CountsStay ==
  /\ count' = count
  /\ \A n \in Node : Linked(n) => (Counts(state'[n]) <=> Counts(state[n]))
  /\ \A u \in Clients :
       /\ pc'[u] = "countUp" <=> pc[u] = "countUp"
       /\ pc'[u] \in {"unlockLast", "countDown"} <=> pc[u] \in {"unlockLast", "countDown"}

\* All steps but the four that publish a node, give it up or count it.
LEMMA CountsStaySteps ==
  ASSUME IInv, Next,
         ~ \E t \in Clients :
             InsertLink(t) \/ InsertCount(t) \/ EndQuarantine(t) \/ EndCount(t)
  PROVE  CountsStay
<1> USE ThreadsAssumption, BucketsAssumption, BoundsAssumption, NullAssumption
    DEF IInv, TypeOK, Threads, Goto, Return, FindFrom, Unlock, BucketFor, Refused,
        ReleaseDtorLock, sharedVars, nodeVars, localVars
<1> USE DEF Counts
<1>1. ASSUME NEW t \in Clients, NEW b \in Bases, InsertLock(t, b) PROVE CountsStay
  BY <1>1 DEF InsertLock, CountsStay, FrameOK, RetireOK, Retires, RetiringAt, RetireSucceeds
<1>2. ASSUME NEW t \in Clients, InsertScan(t) PROVE CountsStay
  BY <1>2 DEF InsertScan, CountsStay, FrameOK, RetireOK, Retires, RetiringAt, RetireSucceeds
<1>3. ASSUME NEW t \in Clients, InsertOverlap(t) PROVE CountsStay
  BY <1>3 DEF InsertOverlap, CountsStay, FrameOK, RetireOK, Retires, RetiringAt, RetireSucceeds
<1>4. ASSUME NEW t \in Clients, InsertExhausted(t) PROVE CountsStay
  BY <1>4 DEF InsertExhausted, CountsStay, FrameOK, RetireOK, Retires, RetiringAt, RetireSucceeds
<1>5. ASSUME NEW t \in Clients, NEW objects \in 1 .. MaxObjects, InsertNode(t, objects) PROVE CountsStay
  BY <1>5, InsertNodeEffect DEF InsertNode, CountsStay
<1>6. ASSUME NEW t \in Threads, FindNext(t) PROVE CountsStay
  BY <1>6 DEF FindNext, CountsStay, FrameOK, RetireOK, Retires, RetiringAt, RetireSucceeds
<1>7. ASSUME NEW t \in Threads, FindReturn(t) PROVE CountsStay
  BY <1>7 DEF FindReturn, CountsStay, FrameOK, RetireOK, Retires, RetiringAt, RetireSucceeds
<1>8. ASSUME NEW t \in Clients, NEW b \in Bases, BeginCall(t, b) PROVE CountsStay
  BY <1>8 DEF BeginCall, CountsStay, FrameOK, RetireOK, Retires, RetiringAt, RetireSucceeds
<1>9. ASSUME NEW t \in Clients, Refused(t) PROVE CountsStay
  BY <1>9 DEF Refused, CountsStay, FrameOK, RetireOK, Retires, RetiringAt, RetireSucceeds
<1>10. ASSUME NEW t \in Clients, NEW policy \in Policies, BeginTryLock(t, policy) PROVE CountsStay
  BY <1>10 DEF BeginTryLock, CountsStay, FrameOK, RetireOK, Retires, RetiringAt, RetireSucceeds
<1>11. ASSUME NEW t \in Clients, BeginRetires(t) PROVE CountsStay
  BY <1>11 DEF BeginRetires, CountsStay, FrameOK, RetireOK, Retires, RetiringAt, RetireSucceeds
<1>12. ASSUME NEW t \in Clients, BeginNotLive(t) PROVE CountsStay
  BY <1>12 DEF BeginNotLive, CountsStay, FrameOK, RetireOK, Retires, RetiringAt, RetireSucceeds
<1>13. ASSUME NEW t \in Clients, DestroyObject(t) PROVE CountsStay
  BY <1>13 DEF DestroyObject, CountsStay, FrameOK, RetireOK, Retires, RetiringAt, RetireSucceeds
<1>14. ASSUME NEW t \in Clients, EndCall(t) PROVE CountsStay
  BY <1>14 DEF EndCall, CountsStay, FrameOK, RetireOK, Retires, RetiringAt, RetireSucceeds
<1>15. ASSUME NEW t \in Clients, EndLoad(t) PROVE CountsStay
  BY <1>15 DEF EndLoad, CountsStay, FrameOK, RetireOK, Retires, RetiringAt, RetireSucceeds
<1>16. ASSUME NEW t \in Clients, EndKeepLive(t) PROVE CountsStay
  BY <1>16 DEF EndKeepLive, CountsStay, FrameOK, RetireOK, Retires, RetiringAt, RetireSucceeds
<1>17. ASSUME NEW t \in Clients, UnlockReturn(t) PROVE CountsStay
  BY <1>17 DEF UnlockReturn, CountsStay, FrameOK, RetireOK, Retires, RetiringAt, RetireSucceeds
<1>18. ASSUME NEW t \in Clients, UnlockLast(t) PROVE CountsStay
  BY <1>18 DEF UnlockLast, CountsStay, FrameOK, RetireOK, Retires, RetiringAt, RetireSucceeds
<1>19. ASSUME NEW t \in Clients, EndEnqueue(t) PROVE CountsStay
  BY <1>19 DEF EndEnqueue, CountsStay, FrameOK, RetireOK, Retires, RetiringAt, RetireSucceeds
<1>20. ASSUME NEW b \in Bases, RetireCall(b) PROVE CountsStay
  BY <1>20 DEF RetireCall, CountsStay, FrameOK, RetireOK, Retires, RetiringAt, RetireSucceeds
<1>21. ASSUME RetireCAS PROVE CountsStay
  BY <1>21 DEF RetireCAS, CountsStay, FrameOK, RetireOK, Retires, RetiringAt, RetireSucceeds
<1> QED
  BY <1>1, <1>2, <1>3, <1>4, <1>5, <1>6, <1>7, <1>8, <1>9, <1>10, <1>11, <1>12,
     <1>13, <1>14, <1>15, <1>16, <1>17, <1>18, <1>19, <1>20, <1>21
  DEF Next, ClientCall, ClientStep, DrainStep, BeginMiss, BeginForeign, BeginBusy

\* The nodes are finitely many.
LEMMA CountedFinite == IsFiniteSet(Counted) /\ Cardinality(Counted) \in Nat
<1>1. IsFiniteSet(Node)
  BY BoundsAssumption, FS_Interval DEF Node
<1> QED
  BY <1>1, FS_Subset, FS_CardinalityType DEF Counted

\* m_Count follows the nodes it counts, up to the operations in flight.
LEMMA CountStep == IInv /\ CountOK /\ Next => CountOK'
<1> SUFFICES ASSUME IInv, CountOK, Next PROVE CountOK'
  OBVIOUS
<1>t. /\ count \in Int /\ Cardinality(CountsUp) \in Nat /\ Cardinality(CountsDown) \in Nat
      /\ pc \in [Threads -> ControlPoints] /\ state \in [Node -> NodeStates]
  BY FS_CardinalityType DEF CountOK, IInv, TypeOK
<1>l. (\A t \in Clients : ~ InsertLink(t)) => \A n \in Node : Linked(n)' <=> Linked(n)
  BY QuietSteps, InsertNodeEffect DEF Quiet
<1>1. ASSUME NEW t \in Clients, InsertLink(t) PROVE CountOK'
  <2>1. PICK l \in Node : l = mine[t]
    BY <1>1, InsertLinkEffect
  <2>2. /\ pc[t] = "link" /\ pc' = [pc EXCEPT ![t] = "countUp"] /\ count' = count
        /\ state[l] = "Live" /\ t \in Threads
    BY <1>1, <2>1 DEF InsertLink, Goto, IInv, LinkOK, Threads
  <2>3. Counted' = Counted \union {l} /\ l \notin Counted
    BY <1>1, <2>1, <2>2, InsertLinkEffect DEF Counted
  <2>4. CountsUp' = CountsUp \union {t} /\ t \notin CountsUp
    BY <1>t, <2>2 DEF CountsUp, Threads
  <2>5. CountsDown' = CountsDown
    BY <1>t, <2>2 DEF CountsDown, Threads
  <2>6. Cardinality(Counted') = Cardinality(Counted) + 1
    BY <2>3, CountedFinite, FS_AddElement
  <2>7. IsFiniteSet(CountsUp') /\ Cardinality(CountsUp') = Cardinality(CountsUp) + 1
    BY <2>4, FS_AddElement DEF CountOK
  <2> QED
    BY <1>t, <2>2, <2>5, <2>6, <2>7, CountedFinite DEF CountOK
<1>2. ASSUME NEW t \in Clients, InsertCount(t) PROVE CountOK'
  <2>1. pc[t] = "countUp" /\ pc' = [pc EXCEPT ![t] = "idle"] /\ count' = count + 1
        /\ state' = state
    BY <1>2 DEF InsertCount, Return, Goto, nodeVars
  <2>2. \A n \in Node : Linked(n)' <=> Linked(n)
    BY <1>2, <1>l, <2>1 DEF InsertLink
  <2>3. Counted' = Counted
    BY <2>1, <2>2 DEF Counted
  <2>4. CountsUp' = CountsUp \ {t} /\ t \in CountsUp
    BY <1>t, <2>1 DEF CountsUp, Threads
  <2>5. CountsDown' = CountsDown
    BY <1>t, <2>1 DEF CountsDown, Threads
  <2>6. IsFiniteSet(CountsUp') /\ Cardinality(CountsUp') = Cardinality(CountsUp) - 1
    BY <2>4, FS_RemoveElement DEF CountOK
  <2> QED
    BY <1>t, <2>1, <2>3, <2>5, <2>6, CountedFinite DEF CountOK
<1>3. ASSUME NEW t \in Clients, EndQuarantine(t) PROVE CountOK'
  <2>1. PICK n \in Node : n = cur[t]
    BY <1>3 DEF EndQuarantine, IInv, FrameOK, TypeOK, Threads
  <2>2. pc[t] = "toQuarantine" /\ cur[t] = mine[t]
    BY <1>3 DEF EndQuarantine, IInv, FrameOK
  <2>3. Linked(n) /\ state[n] = "Retiring"
    BY <2>1, <2>2 DEF IInv, RetireOK, Retires, RetiringAt
  <2>4. /\ pc' = [pc EXCEPT ![t] = "unlockLast"] /\ count' = count
        /\ state' = [state EXCEPT ![n] = "Quarantine"]
    BY <1>3, <2>1, <2>3 DEF EndQuarantine, Goto
  <2>5. \A m \in Node : Linked(m)' <=> Linked(m)
    <3>1. ASSUME NEW u \in Clients, InsertLink(u) PROVE FALSE
      <4>1. pc[u] = "link" /\ pc'[u] = "countUp"
        BY <1>t, <3>1 DEF InsertLink, Goto, Threads
      <4> QED
        BY <1>t, <2>2, <2>4, <4>1
    <3> QED
      BY <1>l, <3>1
  <2>6. Counted' = Counted \ {n} /\ n \in Counted
    BY <1>t, <2>3, <2>4, <2>5 DEF Counted
  <2>7. CountsDown' = CountsDown \union {t} /\ t \notin CountsDown
    BY <1>t, <2>2, <2>4 DEF CountsDown, Threads
  <2>8. CountsUp' = CountsUp
    BY <1>t, <2>2, <2>4 DEF CountsUp, Threads
  <2>9. Cardinality(Counted') = Cardinality(Counted) - 1
    BY <2>6, CountedFinite, FS_RemoveElement
  <2>10. IsFiniteSet(CountsDown') /\ Cardinality(CountsDown') = Cardinality(CountsDown) + 1
    BY <2>7, FS_AddElement DEF CountOK
  <2> QED
    BY <1>t, <2>4, <2>8, <2>9, <2>10, CountedFinite DEF CountOK
<1>4. ASSUME NEW t \in Clients, EndCount(t) PROVE CountOK'
  <2>1. pc[t] = "countDown" /\ pc' = [pc EXCEPT ![t] = "enqueue"] /\ count' = count - 1
        /\ state' = state
    BY <1>4 DEF EndCount, Goto, nodeVars
  <2>2. \A n \in Node : Linked(n)' <=> Linked(n)
    BY <1>4, <1>l, <2>1 DEF InsertLink
  <2>3. Counted' = Counted
    BY <2>1, <2>2 DEF Counted
  <2>4. CountsDown' = CountsDown \ {t} /\ t \in CountsDown
    BY <1>t, <2>1 DEF CountsDown, Threads
  <2>5. CountsUp' = CountsUp
    BY <1>t, <2>1 DEF CountsUp, Threads
  <2>6. IsFiniteSet(CountsDown') /\ Cardinality(CountsDown') = Cardinality(CountsDown) - 1
    BY <2>4, FS_RemoveElement DEF CountOK
  <2> QED
    BY <1>t, <2>1, <2>3, <2>5, <2>6, CountedFinite DEF CountOK
<1>5. ASSUME ~ \E t \in Clients :
               InsertLink(t) \/ InsertCount(t) \/ EndQuarantine(t) \/ EndCount(t)
      PROVE  CountOK'
  <2>1. CountsStay
    BY <1>5, CountsStaySteps
  <2>2. Counted' = Counted
    BY <1>5, <1>l, <2>1 DEF Counted, CountsStay, Counts
  <2>3. CountsUp' = CountsUp /\ CountsDown' = CountsDown
    BY <2>1 DEF CountsUp, CountsDown, CountsStay
  <2> QED
    BY <2>1, <2>2, <2>3 DEF CountOK, CountsStay
<1> QED
  BY <1>1, <1>2, <1>3, <1>4, <1>5

-----------------------------------------------------------------------------
(* Succession of generations *)

\* What insert has found out about the newest node stays true.
LEMMA SucceedsStays ==
  ASSUME IInv, Next, NEW g, NEW b, Succeeds(g, b)
  PROVE  Succeeds(g, b)'
  BY LinkedGrows DEF Succeeds

\* Insert gives its node the generation after the newest one's.
LEMMA SuccessionStep == IInv /\ SuccessionOK /\ Next => SuccessionOK'
<1> SUFFICES ASSUME IInv, SuccessionOK, Next PROVE SuccessionOK'
  OBVIOUS
<1>1. ASSUME NEW t \in Clients, pc'[t] = "scan" PROVE Succeeds(gen[t], base[t])'
  <2>1. CASE Stays(t)
    BY <1>1, <2>1, SucceedsStays DEF Stays, SuccessionOK
  <2>2. CASE \E b \in Bases : InsertLock(t, b)
    BY <2>2 DEF InsertLock, Succeeds, IInv, TypeOK, Threads
  <2>3. CASE InsertScan(t)
    <3>1. /\ pc[t] = "scan" /\ cur[t] \in Node /\ Linked(cur[t]) /\ base' = base
          /\ gen' = [gen EXCEPT ![t] =
               IF blockBase[cur[t]] = base[t] /\ generation[cur[t]] + 1 > @
               THEN generation[cur[t]] + 1 ELSE @]
      BY <2>3 DEF InsertScan, IInv, TypeOK, CursorOK, Threads
    <3>2. PICK n \in Node : n = cur[t]
      BY <3>1
    <3>3. gen'[t] = gen[t] \/ (gen'[t] = generation[n] + 1 /\ blockBase[n] = base[t])
      BY <3>1, <3>2 DEF IInv, TypeOK, Threads
    <3>4. Linked(n)' /\ blockBase'[n] = blockBase[n] /\ generation'[n] = generation[n]
      BY <3>1, <3>2, LinkedGrows
    <3>5. CASE gen'[t] = gen[t]
      BY <3>1, <3>5, SucceedsStays DEF SuccessionOK
    <3>6. CASE gen'[t] = generation[n] + 1 /\ blockBase[n] = base[t]
      BY <3>1, <3>4, <3>6 DEF Succeeds
    <3> QED
      BY <3>3, <3>5, <3>6
  <2>4. CASE \E objects \in 1 .. MaxObjects : InsertNode(t, objects)
    BY <1>1, <2>4 DEF InsertNode, Goto, IInv, TypeOK, Threads
  <2> QED
    BY <1>1, <2>1, <2>2, <2>3, <2>4, LocalStep DEF InsertOnly
<1>2. ASSUME NEW t \in Clients, pc'[t] = "link"
      PROVE  Succeeds(generation[mine[t]], base[t])'
  <2>1. CASE Stays(t)
    <3>1. /\ pc[t] = "link" /\ mine'[t] = mine[t] /\ base'[t] = base[t]
          /\ mine[t] \in Node /\ mine[t] < nodeCursor /\ ~ Linked(mine[t])
      BY <1>2, <2>1 DEF Stays, IInv, LinkOK, TypeOK, Threads, Linked
    <3>2. generation'[mine[t]] = generation[mine[t]]
      BY <3>1, UnlinkedStays
    <3> QED
      BY <3>1, <3>2, SucceedsStays DEF SuccessionOK
  <2>2. CASE \E b \in Bases : InsertLock(t, b)
    BY <1>2, <2>2 DEF InsertLock, Goto, IInv, TypeOK, Threads
  <2>3. CASE InsertScan(t)
    BY <1>2, <2>3 DEF InsertScan, IInv, TypeOK, Threads
  <2>4. CASE \E objects \in 1 .. MaxObjects : InsertNode(t, objects)
    <3>1. PICK objects \in 1 .. MaxObjects : InsertNode(t, objects)
      BY <2>4
    <3>2. nodeCursor \in Node
      BY <3>1, InsertNodeEffect
    <3>3. /\ pc[t] = "scan" /\ base' = base /\ mine'[t] = nodeCursor
          /\ generation'[nodeCursor] = gen[t]
      BY <3>1, <3>2 DEF InsertNode, IInv, TypeOK, Threads
    <3> QED
      BY <3>3, SucceedsStays DEF SuccessionOK
  <2> QED
    BY <1>2, <2>1, <2>2, <2>3, <2>4, LocalStep DEF InsertOnly
<1>3. ASSUME NEW n \in Node, Linked(n)' PROVE generation'[n] > 0
  <2>1. CASE Linked(n)
    BY <2>1, LinkedGrows DEF SuccessionOK
  <2>2. CASE ~ Linked(n)
    <3>1. PICK u \in Clients : InsertLink(u)
      BY <1>3, <2>2, NewlyLinked
    <3>2. n = mine[u] /\ generation' = generation /\ pc[u] = "link"
      BY <1>3, <2>2, <3>1, InsertLinkEffect DEF InsertLink
    <3>3. Succeeds(generation[n], base[u])
      BY <3>2 DEF SuccessionOK
    <3> QED
      BY <3>2, <3>3 DEF Succeeds, IInv, TypeOK
  <2> QED
    BY <2>1, <2>2
<1>4. ASSUME NEW b \in Bases, NEW n \in Node, n \in LinkedAt(b)'
      PROVE  \E m \in LinkedAt(b)' : \A k \in LinkedAt(b)' : k <= m
  <2>1. CASE \E u \in Clients : InsertLink(u) /\ blockBase[mine[u]] = b
    <3>1. PICK u \in Clients : InsertLink(u) /\ blockBase[mine[u]] = b
      BY <2>1
    <3>2. PICK l \in Node : l = mine[u]
      BY <3>1, InsertLinkEffect
    <3>3. \A k \in LinkedAt(b)' : k <= l
      <4>1. \A m \in Node : Linked(m) /\ blockBase[m] = blockBase[l] => m < l
        BY <3>1, <3>2 DEF IInv, LinkOK, InsertLink, Bucket
      <4> QED
        BY <3>1, <3>2, <4>1, InsertLinkEffect DEF LinkedAt, Node
    <3>4. l \in LinkedAt(b)'
      BY <3>1, <3>2, InsertLinkEffect DEF LinkedAt
    <3> QED
      BY <3>3, <3>4
  <2>2. CASE ~ \E u \in Clients : InsertLink(u) /\ blockBase[mine[u]] = b
    <3>1. LinkedAt(b)' = LinkedAt(b)
      <4>1. \A m \in Node : m \in LinkedAt(b) => m \in LinkedAt(b)'
        BY LinkedGrows DEF LinkedAt
      <4>2. ASSUME NEW m \in Node, m \in LinkedAt(b)', m \notin LinkedAt(b) PROVE FALSE
        <5>1. Linked(m)' /\ blockBase'[m] = b /\ ~ Linked(m)
          BY <4>2, LinkedGrows DEF LinkedAt
        <5>2. PICK u \in Clients : InsertLink(u)
          BY <5>1, NewlyLinked
        <5>3. m = mine[u] /\ blockBase[m] = b
          BY <5>1, <5>2, InsertLinkEffect
        <5> QED
          BY <2>2, <5>2, <5>3
      <4> QED
        BY <4>1, <4>2 DEF LinkedAt
    <3> QED
      BY <1>4, <3>1 DEF SuccessionOK
  <2> QED
    BY <2>1, <2>2
<1> QED
  BY <1>1, <1>2, <1>3, <1>4 DEF SuccessionOK

\* Nothing is counted and nothing linked at the start.
LEMMA InitExact == Init => ExactInv
<1> SUFFICES ASSUME Init PROVE ExactInv
  OBVIOUS
<1>1. \A n \in Node : ~ Linked(n)
  BY BoundsAssumption DEF Init, Linked, Node
<1>2. \A t \in Clients : pc[t] = "idle"
  BY DEF Init, Threads
<1>3. SuccessionOK
  BY <1>1, <1>2 DEF SuccessionOK, LinkedAt
<1>4. Counted = {} /\ CountsUp = {} /\ CountsDown = {}
  BY <1>1, <1>2 DEF Counted, CountsUp, CountsDown
<1>5. CountOK
  BY <1>4, FS_EmptySet DEF CountOK, Init
<1> QED
  BY <1>3, <1>5 DEF ExactInv

\* A step that changes nothing keeps the bookkeeping.
LEMMA StutterExact == IInv /\ ExactInv /\ UNCHANGED vars => ExactInv'
  BY DEF vars, sharedVars, nodeVars, localVars, ExactInv, SuccessionOK, Succeeds, CountOK,
     Counted, CountsUp, CountsDown, Linked, LinkedAt

\* The exact bookkeeping is an invariant too.
THEOREM ExactInductive == Spec => [](IInv /\ ExactInv)
<1>1. Init => IInv /\ ExactInv
  BY InitIInv, InitExact
<1>2. IInv /\ ExactInv /\ IInv' /\ [Next]_vars => (IInv /\ ExactInv)'
  BY CountStep, SuccessionStep, StutterExact DEF ExactInv
<1> QED
  BY <1>1, <1>2, Inductive, PTL DEF Spec

\* m_Count differs from the number of nodes in use only by the operations in flight.
THEOREM CountExact == Spec => []CountMatches
<1>1. ExactInv => CountMatches
  BY DEF ExactInv, CountOK, CountMatches, Counted, CountsUp, CountsDown
<1> QED
  BY <1>1, ExactInductive, PTL

-----------------------------------------------------------------------------
(* The refinement of BlockLifecycle *)

\* The abstract variables.
Status  == [b \in Bases |-> StatusOf(b)]
LastGen == [b \in Bases |-> LastGenOf(b)]

\* The status of a base is the state of the one node that tracks it.
LEMMA StatusIs ==
  IInv => \A b \in Bases :
    /\ TrackedAt(b) = {} => StatusOf(b) = "Absent"
    /\ \A n \in TrackedAt(b) : StatusOf(b) = state[n]
<1> SUFFICES ASSUME IInv, NEW b \in Bases
             PROVE  /\ TrackedAt(b) = {} => StatusOf(b) = "Absent"
                    /\ \A n \in TrackedAt(b) : StatusOf(b) = state[n]
  OBVIOUS
<1>1. TrackedAt(b) = {} => StatusOf(b) = "Absent"
  BY DEF StatusOf
<1>2. ASSUME NEW n \in TrackedAt(b) PROVE StatusOf(b) = state[n]
  <2>1. \A m \in TrackedAt(b) : m = n
    BY DEF TrackedAt, IInv, AtMostOneTracked
  <2> QED
    BY <2>1 DEF StatusOf
<1> QED
  BY <1>1, <1>2

\* The same after a step.
LEMMA StatusIsAfter ==
  IInv' => \A b \in Bases :
    /\ TrackedAt(b)' = {} => StatusOf(b)' = "Absent"
    /\ \A n \in TrackedAt(b)' : StatusOf(b)' = state'[n]
<1>1. (IInv => \A b \in Bases :
         /\ TrackedAt(b) = {} => StatusOf(b) = "Absent"
         /\ \A n \in TrackedAt(b) : StatusOf(b) = state[n])'
  BY StatusIs, PTL
<1> QED
  BY <1>1

\* Its last generation is that of the greatest node of the base.
LEMMA LastGenIs ==
  ASSUME NEW b, NEW n \in LinkedAt(b), \A m \in LinkedAt(b) : m <= n
  PROVE  LastGenOf(b) = generation[n]
<1>1. \A m \in LinkedAt(b) : (\A k \in LinkedAt(b) : k <= m) => m = n
  BY DEF LinkedAt, Node
<1> QED
  BY <1>1 DEF LastGenOf

\* The same after a step.
LEMMA LastGenIsAfter ==
  ASSUME NEW b, NEW n \in LinkedAt(b)', \A m \in LinkedAt(b)' : m <= n
  PROVE  LastGenOf(b)' = generation'[n]
<1>1. \A m \in LinkedAt(b)' : (\A k \in LinkedAt(b)' : k <= m) => m = n
  BY DEF LinkedAt, Node
<1> QED
  BY <1>1 DEF LastGenOf

\* A base keeps both in a step that leaves its linked nodes alone.
LEMMA BaseKept ==
  ASSUME IInv, IInv', SuccessionOK, NEW b \in Bases,
         \A n \in Node : /\ n \in LinkedAt(b)' <=> n \in LinkedAt(b)
                         /\ n \in LinkedAt(b) =>
                              state'[n] = state[n] /\ generation'[n] = generation[n]
  PROVE  StatusOf(b)' = StatusOf(b) /\ LastGenOf(b)' = LastGenOf(b)
<1>1. StatusOf(b)' = StatusOf(b)
  <2>1. \A n \in Node : n \in TrackedAt(b)' <=> n \in TrackedAt(b)
    BY DEF TrackedAt, Tracked, LinkedAt
  <2>2. CASE TrackedAt(b) = {}
    <3>1. TrackedAt(b)' = {}
      BY <2>1, <2>2 DEF TrackedAt
    <3> QED
      BY <2>2, <3>1, StatusIs, StatusIsAfter
  <2>3. CASE TrackedAt(b) # {}
    <3>1. PICK n \in Node : n \in TrackedAt(b)
      BY <2>3 DEF TrackedAt
    <3>2. n \in TrackedAt(b)' /\ state'[n] = state[n]
      BY <2>1, <3>1 DEF TrackedAt, Tracked, LinkedAt
    <3> QED
      BY <3>1, <3>2, StatusIs, StatusIsAfter
  <2> QED
    BY <2>2, <2>3
<1>2. LastGenOf(b)' = LastGenOf(b)
  <2>1. CASE LinkedAt(b) = {}
    <3>1. LinkedAt(b)' = {}
      BY <2>1 DEF LinkedAt
    <3> QED
      BY <2>1, <3>1 DEF LastGenOf
  <2>2. CASE LinkedAt(b) # {}
    <3>1. PICK n \in LinkedAt(b) : \A m \in LinkedAt(b) : m <= n
      BY <2>2 DEF SuccessionOK, LinkedAt
    <3>2. n \in LinkedAt(b)' /\ generation'[n] = generation[n]
      BY <3>1 DEF LinkedAt
    <3>3. \A m \in LinkedAt(b)' : m <= n
      BY <3>1 DEF LinkedAt
    <3>4. LastGenOf(b) = generation[n]
      BY <3>1, LastGenIs
    <3>5. LastGenOf(b)' = generation'[n]
      BY <3>2, <3>3, LastGenIsAfter
    <3> QED
      BY <3>2, <3>4, <3>5
  <2> QED
    BY <2>1, <2>2
<1> QED
  BY <1>1, <1>2

\* A step that changes the state of no linked node is a stutter.
LEMMA LifecycleStutters ==
  ASSUME IInv, IInv', SuccessionOK,
         \A n \in Node : Linked(n)' <=> Linked(n),
         \A n \in Node : Linked(n) =>
           /\ state'[n] = state[n] /\ blockBase'[n] = blockBase[n]
           /\ generation'[n] = generation[n]
  PROVE  UNCHANGED <<Status, LastGen>>
<1>1. ASSUME NEW b \in Bases
      PROVE  StatusOf(b)' = StatusOf(b) /\ LastGenOf(b)' = LastGenOf(b)
  BY BaseKept DEF LinkedAt
<1> QED
  BY <1>1 DEF Status, LastGen

\* A step that changes the state of one tracked node moves its base.
LEMMA NodeMoves ==
  ASSUME IInv, IInv', SuccessionOK, NEW n \in Node, Tracked(n), NEW b \in Bases,
         blockBase[n] = b, NEW s, state' = [state EXCEPT ![n] = s],
         UNCHANGED <<blockBase, generation>>,
         \A m \in Node : Linked(m)' <=> Linked(m)
  PROVE  /\ Status[b] = state[n]
         /\ Status' = [Status EXCEPT ![b] = IF s = "Dead" THEN "Absent" ELSE s]
         /\ LastGen' = LastGen
<1>t. state \in [Node -> NodeStates]
  BY DEF IInv, TypeOK
<1>1. Status[b] = state[n]
  BY StatusIs DEF Status, TrackedAt
<1>2. ASSUME NEW x \in Bases, x # b
      PROVE  StatusOf(x)' = StatusOf(x) /\ LastGenOf(x)' = LastGenOf(x)
  BY <1>2, <1>t, BaseKept DEF LinkedAt
<1>3. StatusOf(b)' = IF s = "Dead" THEN "Absent" ELSE s
  <2>1. CASE s = "Dead"
    <3>1. TrackedAt(b)' = {}
      BY <2>1, <1>t DEF TrackedAt, Tracked, IInv, AtMostOneTracked
    <3> QED
      BY <2>1, <3>1, StatusIsAfter
  <2>2. CASE s # "Dead"
    <3>1. n \in TrackedAt(b)' /\ state'[n] = s
      BY <2>2, <1>t DEF TrackedAt, Tracked
    <3> QED
      BY <2>2, <3>1, StatusIsAfter
  <2> QED
    BY <2>1, <2>2
<1>4. LastGenOf(b)' = LastGenOf(b)
  <2>1. \A m \in Node : m \in LinkedAt(b)' <=> m \in LinkedAt(b)
    BY DEF LinkedAt
  <2>2. PICK m \in LinkedAt(b) : \A k \in LinkedAt(b) : k <= m
    BY DEF SuccessionOK, LinkedAt, Tracked
  <2>3. m \in LinkedAt(b)' /\ \A k \in LinkedAt(b)' : k <= m
    BY <2>1, <2>2 DEF LinkedAt
  <2>4. LastGenOf(b) = generation[m]
    BY <2>2, LastGenIs
  <2>5. LastGenOf(b)' = generation'[m]
    BY <2>3, LastGenIsAfter
  <2> QED
    BY <2>4, <2>5
<1> QED
  BY <1>1, <1>2, <1>3, <1>4 DEF Status, LastGen

\* Publishing a node is the Insert: the scan has found no tracked node and the
\* generation of the newest one.
LEMMA InsertImplements ==
  ASSUME IInv, IInv', SuccessionOK, SuccessionOK', NEW t \in Clients, InsertLink(t)
  PROVE  Lifecycle!Next
<1>n. PICK l \in Node : l = mine[t]
  BY InsertLinkEffect
<1>p. pc[t] = "link" /\ base[t] \in Bases /\ blockBase[l] = base[t] /\ state[l] = "Live"
  BY <1>n DEF InsertLink, IInv, FrameOK, LinkOK
<1>b. PICK b \in Bases : b = base[t]
  BY <1>p
<1>o. \A m \in Node : m \in LinkedAt(b) =>
        m < l /\ state[m] = "Dead" /\ generation[m] < generation[l]
  BY <1>n, <1>p, <1>b DEF IInv, LinkOK, LinkedAt, Passed, Bucket
<1>e. /\ UNCHANGED <<blockBase, generation, state>> /\ ~ Linked(l)
      /\ \A m \in Node : Linked(m)' <=> Linked(m) \/ m = l
  BY <1>n, InsertLinkEffect
<1>1. StatusOf(b) = "Absent"
  <2>1. TrackedAt(b) = {}
    BY <1>o DEF TrackedAt, Tracked, LinkedAt
  <2> QED
    BY <2>1, StatusIs
<1>2. StatusOf(b)' = "Live"
  <2>1. l \in TrackedAt(b)' /\ state'[l] = "Live"
    BY <1>p, <1>b, <1>e DEF TrackedAt, Tracked
  <2> QED
    BY <2>1, StatusIsAfter
<1>3. ASSUME NEW x \in Bases, x # b
      PROVE  StatusOf(x)' = StatusOf(x) /\ LastGenOf(x)' = LastGenOf(x)
  BY <1>3, <1>p, <1>b, <1>e, BaseKept DEF LinkedAt
<1>4. LastGenOf(b)' = generation[l]
  <2>1. l \in LinkedAt(b)'
    BY <1>p, <1>b, <1>e DEF LinkedAt
  <2>2. \A m \in LinkedAt(b)' : m <= l
    BY <1>o, <1>e DEF LinkedAt, Node
  <2>3. LastGenOf(b)' = generation'[l]
    BY <2>1, <2>2, LastGenIsAfter
  <2> QED
    BY <1>e, <2>3
<1>5. LastGenOf(b) + 1 = generation[l]
  <2>t. generation \in [Node -> Nat]
    BY DEF IInv, TypeOK
  <2>1. Succeeds(generation[l], b)
    BY <1>n, <1>p, <1>b DEF SuccessionOK
  <2>2. CASE LinkedAt(b) = {}
    <3>1. generation[l] = 1
      BY <2>1, <2>2 DEF Succeeds, LinkedAt
    <3> QED
      BY <2>2, <3>1 DEF LastGenOf
  <2>3. CASE LinkedAt(b) # {}
    <3>1. PICK k \in LinkedAt(b) : \A j \in LinkedAt(b) : j <= k
      BY <2>3 DEF SuccessionOK, LinkedAt
    <3>2. LastGenOf(b) = generation[k]
      BY <3>1, LastGenIs
    <3>3. k \in Node /\ Linked(k) /\ blockBase[k] = b
      BY <3>1 DEF LinkedAt
    <3>4. generation[k] > 0 /\ generation[k] < generation[l]
      BY <1>o, <3>1, <3>3 DEF SuccessionOK
    <3>5. PICK m \in Node : Linked(m) /\ blockBase[m] = b /\ generation[l] = generation[m] + 1
      BY <2>1, <2>t, <3>3, <3>4 DEF Succeeds
    <3>6. m <= k
      BY <3>1, <3>5 DEF LinkedAt
    <3>7. m < k => generation[m] < generation[k]
      BY <3>3, <3>5 DEF IInv, GenerationsIncrease
    <3>8. generation[m] = generation[k]
      BY <2>t, <3>3, <3>4, <3>5, <3>6, <3>7 DEF Node
    <3> QED
      BY <3>2, <3>5, <3>8
  <2> QED
    BY <2>2, <2>3
<1>6. /\ Status[b] = "Absent"
      /\ Status' = [Status EXCEPT ![b] = "Live"]
      /\ LastGen' = [LastGen EXCEPT ![b] = @ + 1]
  BY <1>1, <1>2, <1>3, <1>4, <1>5 DEF Status, LastGen
<1> QED
  BY <1>6 DEF Lifecycle!Next, Lifecycle!Insert, Status, LastGen

\* The CAS of beginRetiring is the BeginRetiring.
LEMMA BeginImplements ==
  ASSUME IInv, IInv', SuccessionOK, NEW t \in Clients, BeginRetires(t),
         \A m \in Node : Linked(m)' <=> Linked(m)
  PROVE  Lifecycle!Next
<1>1. PICK n \in Node : n = cur[t]
  BY DEF BeginRetires, IInv, FrameOK, TypeOK, Threads
<1>2. Linked(n) /\ blockBase[n] = base[t] /\ base[t] \in Bases
  BY <1>1 DEF BeginRetires, IInv, CursorOK, FrameOK, Threads
<1>b. PICK b \in Bases : b = blockBase[n]
  BY <1>2
<1>3. /\ state[n] = "Live" /\ state' = [state EXCEPT ![n] = "Retiring"]
      /\ UNCHANGED <<blockBase, generation>>
  BY <1>1 DEF BeginRetires
<1>t. Tracked(n)
  BY <1>2, <1>3 DEF Tracked
<1>s. PICK s \in {"Retiring"} : state' = [state EXCEPT ![n] = s]
  BY <1>3
<1>m. /\ Status[b] = state[n]
      /\ Status' = [Status EXCEPT ![b] = IF s = "Dead" THEN "Absent" ELSE s]
      /\ LastGen' = LastGen
  <2>1. UNCHANGED <<blockBase, generation>>
    BY <1>3
  <2> QED
    BY <2>1, <1>b, <1>s, <1>t, NodeMoves
<1>4. /\ Status[b] = "Live" /\ Status' = [Status EXCEPT ![b] = "Retiring"]
      /\ LastGen' = LastGen
  BY <1>3, <1>m
<1> QED
  BY <1>4 DEF Lifecycle!Next, Lifecycle!BeginRetiring, Lifecycle!Move, Status, LastGen

\* The CAS of endRetiring is the KeepLive or the Quarantine.
LEMMA EndImplements ==
  ASSUME IInv, IInv', SuccessionOK, NEW t \in Clients,
         EndKeepLive(t) \/ EndQuarantine(t),
         \A m \in Node : Linked(m)' <=> Linked(m)
  PROVE  Lifecycle!Next
<1>1. PICK n \in Node : n = cur[t]
  BY DEF EndKeepLive, EndQuarantine, IInv, FrameOK, TypeOK, Threads
<1>2. pc[t] \in {"keepLive", "toQuarantine"} /\ cur[t] = mine[t] /\ base[t] \in Bases
  BY DEF EndKeepLive, EndQuarantine, IInv, FrameOK
<1>3. Linked(n) /\ blockBase[n] = base[t] /\ state[n] = "Retiring"
  BY <1>1, <1>2 DEF IInv, RetireOK, Retires, RetiringAt
<1>b. PICK b \in Bases : b = blockBase[n]
  BY <1>2, <1>3
<1>s. PICK s \in {"Live", "Quarantine"} :
        s = IF EndKeepLive(t) THEN "Live" ELSE "Quarantine"
  OBVIOUS
<1>4. state' = [state EXCEPT ![n] = s] /\ UNCHANGED <<blockBase, generation>>
  BY <1>1, <1>3, <1>s DEF EndKeepLive, EndQuarantine
<1>t. Tracked(n)
  BY <1>3 DEF Tracked
<1>5. /\ Status[b] = state[n]
      /\ Status' = [Status EXCEPT ![b] = IF s = "Dead" THEN "Absent" ELSE s]
      /\ LastGen' = LastGen
  BY <1>b, <1>4, <1>t, NodeMoves
<1>6. /\ Status[b] = "Retiring" /\ Status' = [Status EXCEPT ![b] = s] /\ LastGen' = LastGen
  BY <1>s, <1>3, <1>5
<1> QED
  BY <1>6 DEF Lifecycle!Next, Lifecycle!KeepLive, Lifecycle!Quarantine, Lifecycle!Move,
              Status, LastGen

\* The CAS of retire is the Retire: it never fails.
LEMMA RetireImplements ==
  ASSUME IInv, IInv', SuccessionOK, RetireCAS,
         \A m \in Node : Linked(m)' <=> Linked(m)
  PROVE  Lifecycle!Next
<1>1. PICK n \in Node : n = cur[Drainer]
  BY DEF RetireCAS, IInv, RetireSucceeds, TypeOK, Threads
<1>2. state[n] = "Quarantine" /\ Linked(n) /\ blockBase[n] \in Bases
  BY <1>1 DEF RetireCAS, IInv, RetireSucceeds, NodesOK
<1>b. PICK b \in Bases : b = blockBase[n]
  BY <1>2
<1>3. state' = [state EXCEPT ![n] = "Dead"] /\ UNCHANGED <<blockBase, generation>>
  BY <1>1, <1>2, BoundsAssumption, NullAssumption DEF RetireCAS, Node
<1>4. /\ Status[b] = "Quarantine" /\ Status' = [Status EXCEPT ![b] = "Absent"]
      /\ LastGen' = LastGen
  BY <1>2, <1>b, <1>3, NodeMoves DEF Tracked
<1> QED
  BY <1>4 DEF Lifecycle!Next, Lifecycle!Retire, Lifecycle!Move, Status, LastGen

\* No other step changes a linked node.
LEMMA QuietLifecycle ==
  ASSUME IInv, Next,
         ~ \E t \in Clients :
             InsertLink(t) \/ BeginRetires(t) \/ EndKeepLive(t) \/ EndQuarantine(t),
         ~ RetireCAS
  PROVE  \A n \in Node : Linked(n) =>
           /\ state'[n] = state[n] /\ blockBase'[n] = blockBase[n]
           /\ generation'[n] = generation[n]
<1>1. CASE \E t \in Clients, objects \in 1 .. MaxObjects : InsertNode(t, objects)
  BY <1>1, InsertNodeEffect
<1>2. CASE ~ \E t \in Clients, objects \in 1 .. MaxObjects : InsertNode(t, objects)
  <2>1. UNCHANGED state
    BY <1>2 DEF Next, ClientCall, ClientStep, DrainStep, BeginMiss, BeginForeign, BeginBusy,
       InsertLock, InsertScan, InsertOverlap, InsertExhausted, InsertCount, FindNext,
       FindReturn, BeginCall, Refused, BeginTryLock, BeginNotLive, DestroyObject, EndCall,
       EndLoad, UnlockReturn, UnlockLast, EndCount, EndEnqueue, RetireCall, sharedVars, nodeVars
  <2> QED
    BY <2>1, LinkedGrows
<1> QED
  BY <1>1, <1>2

\* Every step of the registry is a step of the life cycle or leaves it unchanged.
LEMMA LifecycleStep ==
  ASSUME IInv, IInv', SuccessionOK, SuccessionOK', [Next]_vars
  PROVE  [Lifecycle!Next]_<<Status, LastGen>>
<1>1. CASE \E t \in Clients : InsertLink(t)
  BY <1>1, InsertImplements
<1>2. CASE Next /\ ~ \E t \in Clients : InsertLink(t)
  <2>1. \A n \in Node : Linked(n)' <=> Linked(n)
    BY <1>2, QuietSteps, InsertNodeEffect DEF Quiet
  <2>2. CASE \E t \in Clients : BeginRetires(t)
    BY <2>1, <2>2, BeginImplements
  <2>3. CASE \E t \in Clients : EndKeepLive(t) \/ EndQuarantine(t)
    BY <2>1, <2>3, EndImplements
  <2>4. CASE RetireCAS
    BY <2>1, <2>4, RetireImplements
  <2>5. CASE /\ ~ \E t \in Clients : BeginRetires(t) \/ EndKeepLive(t) \/ EndQuarantine(t)
             /\ ~ RetireCAS
    BY <1>2, <2>1, <2>5, QuietLifecycle, LifecycleStutters
  <2> QED
    BY <2>2, <2>3, <2>4, <2>5
<1>3. CASE UNCHANGED vars
  <2>1. UNCHANGED <<state, blockBase, generation, nodeCursor, pc, mine>>
    BY <1>3 DEF vars, sharedVars, nodeVars, localVars
  <2>2. \A n \in Node : Linked(n)' <=> Linked(n)
    BY <2>1 DEF Linked
  <2> QED
    BY <2>1, <2>2, LifecycleStutters
<1> QED
  BY <1>1, <1>2, <1>3

\* The registry implements the atomic life cycle of every base.
THEOREM RegistryRefinesLifecycle == Spec => RefinesLifecycle
<1>1. Init => Lifecycle!Init
  <2> SUFFICES ASSUME Init PROVE Lifecycle!Init
    OBVIOUS
  <2>1. \A n \in Node : ~ Linked(n)
    BY BoundsAssumption DEF Init, Linked, Node
  <2>2. ASSUME NEW b \in Bases PROVE StatusOf(b) = "Absent" /\ LastGenOf(b) = 0
    <3>1. LinkedAt(b) = {} /\ TrackedAt(b) = {}
      BY <2>1 DEF LinkedAt, TrackedAt, Tracked
    <3> QED
      BY <3>1 DEF StatusOf, LastGenOf
  <2> QED
    BY <2>2 DEF Lifecycle!Init
<1>2. IInv /\ IInv' /\ ExactInv /\ ExactInv' /\ [Next]_vars
        => [Lifecycle!Next]_<<[b \in Bases |-> StatusOf(b)], [b \in Bases |-> LastGenOf(b)]>>
  BY LifecycleStep DEF Status, LastGen, ExactInv
<1> QED
  BY <1>1, <1>2, ExactInductive, PTL
  DEF Spec, RefinesLifecycle, Lifecycle!Spec, Lifecycle!lifecycleVars
=============================================================================

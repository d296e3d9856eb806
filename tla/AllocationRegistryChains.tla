----------------------- MODULE AllocationRegistryChains -----------------------
(***************************************************************************)
(* Proofs about the chains of AllocationRegistry: what insert does to the  *)
(* nodes, and that every step preserves the parts of IInv that speak of    *)
(* types, chains, locals, bucket locks and the scan of insert.             *)
(***************************************************************************)
EXTENDS AllocationRegistryInvariant, TLAPS

(* How a step changes the chains *)

\* The step adds no node and links none.
Quiet ==
  /\ UNCHANGED <<head, next, blockBase, generation>>
  /\ nodeCursor <= nodeCursor'
  /\ \A n \in Node :
       /\ Linked(n)' <=> Linked(n)
       /\ state[n] = "Dead" => state'[n] = "Dead"
       /\ ~ Linked(n) => state'[n] = state[n]
       /\ state'[n] = "Empty" => state[n] = "Empty"

\* Two threads never fill in the same node.
LEMMA LinkersDiffer ==
  ASSUME IInv, NEW t \in Clients, NEW u \in Clients, pc[t] = "link", pc[u] = "link",
         mine[t] = mine[u]
  PROVE  t = u
  BY BucketsAssumption DEF IInv, LinkOK, BucketLockOK, FrameOK, TypeOK

\* All steps but the two that claim and publish a node are quiet.
LEMMA QuietSteps ==
  ASSUME IInv, Next,
         ~ \E t \in Clients, objects \in 1 .. MaxObjects : InsertNode(t, objects),
         ~ \E t \in Clients : InsertLink(t)
  PROVE  Quiet
<1> USE ThreadsAssumption, BucketsAssumption, BoundsAssumption, NullAssumption
    DEF IInv, TypeOK, Threads, Goto, Return, FindFrom, Unlock, BucketFor, Refused,
        ReleaseDtorLock, sharedVars, nodeVars, localVars
<1>1. ASSUME NEW t \in Clients, NEW b \in Bases, InsertLock(t, b) PROVE Quiet
  BY <1>1 DEF InsertLock, Quiet, Linked, NodesOK, FrameOK
<1>2. ASSUME NEW t \in Clients, InsertScan(t) PROVE Quiet
  BY <1>2 DEF InsertScan, Quiet, Linked, NodesOK, FrameOK
<1>3. ASSUME NEW t \in Clients, InsertOverlap(t) PROVE Quiet
  BY <1>3 DEF InsertOverlap, Quiet, Linked, NodesOK, FrameOK
<1>4. ASSUME NEW t \in Clients, InsertExhausted(t) PROVE Quiet
  <2>1. /\ UNCHANGED <<head, next, blockBase, generation, state>>
        /\ nodeCursor <= nodeCursor'
    BY <1>4 DEF InsertExhausted
  <2>2. \A n \in Node : n < nodeCursor /\ n < nodeCursor'
    BY <1>4 DEF InsertExhausted, Node
  <2>3. \A u \in Clients :
          /\ pc'[u] = "link" <=> pc[u] = "link"
          /\ pc[u] = "link" => mine'[u] = mine[u]
    BY <1>4 DEF InsertExhausted
  <2>4. \A n \in Node : Linked(n)' <=> Linked(n)
    BY <2>2, <2>3 DEF Linked
  <2> QED
    BY <2>1, <2>4 DEF Quiet
<1>5. ASSUME NEW t \in Clients, InsertCount(t) PROVE Quiet
  BY <1>5 DEF InsertCount, Quiet, Linked, NodesOK, FrameOK
<1>6. ASSUME NEW t \in Threads, FindNext(t) PROVE Quiet
  BY <1>6 DEF FindNext, Quiet, Linked, NodesOK, FrameOK
<1>7. ASSUME NEW t \in Threads, FindReturn(t) PROVE Quiet
  BY <1>7 DEF FindReturn, Quiet, Linked, NodesOK, FrameOK
<1>8. ASSUME NEW t \in Clients, NEW b \in Bases, BeginCall(t, b) PROVE Quiet
  BY <1>8 DEF BeginCall, Quiet, Linked, NodesOK, FrameOK
<1>9. ASSUME NEW t \in Clients, Refused(t) PROVE Quiet
  BY <1>9 DEF Refused, Quiet, Linked, NodesOK, FrameOK
<1>10. ASSUME NEW t \in Clients, NEW policy \in Policies, BeginTryLock(t, policy)
      PROVE  Quiet
  BY <1>10 DEF BeginTryLock, Quiet, Linked, NodesOK, FrameOK
<1>11. ASSUME NEW t \in Clients, BeginRetires(t) PROVE Quiet
  BY <1>11 DEF BeginRetires, Quiet, Linked, NodesOK, FrameOK, CursorOK
<1>12. ASSUME NEW t \in Clients, BeginNotLive(t) PROVE Quiet
  BY <1>12 DEF BeginNotLive, Quiet, Linked, NodesOK, FrameOK
<1>13. ASSUME NEW t \in Clients, DestroyObject(t) PROVE Quiet
  BY <1>13 DEF DestroyObject, Quiet, Linked, NodesOK, FrameOK
<1>14. ASSUME NEW t \in Clients, EndCall(t) PROVE Quiet
  BY <1>14 DEF EndCall, Quiet, Linked, NodesOK, FrameOK
<1>15. ASSUME NEW t \in Clients, EndLoad(t) PROVE Quiet
  <2>1. cur[t] # Null
    BY <1>15 DEF EndLoad, FrameOK
  <2>2. /\ UNCHANGED <<sharedVars, localVars>>
        /\ pc[t] # "link"
        /\ pc' = [pc EXCEPT ![t] = pc'[t]] /\ pc'[t] # "link"
    BY <1>15, <2>1 DEF EndLoad
  <2> QED
    BY <2>2 DEF Quiet, Linked
<1>16. ASSUME NEW t \in Clients, EndKeepLive(t) PROVE Quiet
  BY <1>16 DEF EndKeepLive, Quiet, Linked, NodesOK, FrameOK
<1>17. ASSUME NEW t \in Clients, EndQuarantine(t) PROVE Quiet
  BY <1>17 DEF EndQuarantine, Quiet, Linked, NodesOK, FrameOK
<1>18. ASSUME NEW t \in Clients, UnlockReturn(t) PROVE Quiet
  BY <1>18 DEF UnlockReturn, Quiet, Linked, NodesOK, FrameOK
<1>19. ASSUME NEW t \in Clients, UnlockLast(t) PROVE Quiet
  BY <1>19 DEF UnlockLast, Quiet, Linked, NodesOK, FrameOK
<1>20. ASSUME NEW t \in Clients, EndCount(t) PROVE Quiet
  BY <1>20 DEF EndCount, Quiet, Linked, NodesOK, FrameOK
<1>21. ASSUME NEW t \in Clients, EndEnqueue(t) PROVE Quiet
  BY <1>21 DEF EndEnqueue, Quiet, Linked, NodesOK, FrameOK
<1>22. ASSUME NEW b \in Bases, RetireCall(b) PROVE Quiet
  BY <1>22 DEF RetireCall, Quiet, Linked, NodesOK, FrameOK
<1>23. ASSUME RetireCAS PROVE Quiet
  BY <1>23 DEF RetireCAS, Quiet, Linked, NodesOK, FrameOK
<1> QED
  BY <1>1, <1>2, <1>3, <1>4, <1>5, <1>6, <1>7, <1>8, <1>9, <1>10, <1>11, <1>12,
     <1>13, <1>14, <1>15, <1>16, <1>17, <1>18, <1>19, <1>20, <1>21, <1>22, <1>23
  DEF Next, ClientCall, ClientStep, DrainStep, BeginMiss, BeginForeign, BeginBusy

\* The node insert claims lies beyond all the others; no other node changes.
LEMMA InsertNodeEffect ==
  ASSUME IInv, NEW t \in Clients, NEW objects \in 1 .. MaxObjects, InsertNode(t, objects)
  PROVE  /\ nodeCursor \in Node /\ ~ Linked(nodeCursor)
         /\ UNCHANGED <<head, next>>
         /\ \A n \in Node : Linked(n)' <=> Linked(n)
         /\ \A n \in Node : n # nodeCursor =>
              /\ blockBase'[n] = blockBase[n]
              /\ generation'[n] = generation[n]
              /\ state'[n] = state[n]
  BY ThreadsAssumption, BoundsAssumption, NullAssumption DEF IInv, TypeOK, LinkOK, InsertNode, Linked, Goto, Node, Threads

\* Publishing links one node and changes nothing else about the nodes.
LEMMA InsertLinkEffect ==
  ASSUME IInv, NEW t \in Clients, InsertLink(t)
  PROVE  /\ mine[t] \in Node /\ ~ Linked(mine[t])
         /\ UNCHANGED <<blockBase, generation, state>>
         /\ \A n \in Node : Linked(n)' <=> Linked(n) \/ n = mine[t]
<1>1. mine[t] \in Node /\ mine[t] < nodeCursor
  BY DEF IInv, TypeOK, LinkOK, InsertLink, Threads
<1>2. \A u \in Clients : pc'[u] = "link" <=> pc[u] = "link" /\ u # t
  BY ThreadsAssumption DEF IInv, TypeOK, InsertLink, Goto, Threads
<1>3. UNCHANGED <<mine, nodeCursor, blockBase, generation, state>> /\ pc[t] = "link"
  BY DEF InsertLink, localVars
<1> QED
  BY <1>1, <1>2, <1>3, LinkersDiffer DEF Linked

\* A linked node stays linked, keeps its base and its generation, and stays Dead
\* once it is: nodes are never recycled.
LEMMA LinkedGrows ==
  ASSUME IInv, Next, NEW n \in Node, Linked(n)
  PROVE  /\ Linked(n)'
         /\ blockBase'[n] = blockBase[n]
         /\ generation'[n] = generation[n]
         /\ state[n] = "Dead" => state'[n] = "Dead"
<1>1. CASE \E t \in Clients, objects \in 1 .. MaxObjects : InsertNode(t, objects)
  BY <1>1, InsertNodeEffect
<1>2. CASE \E t \in Clients : InsertLink(t)
  BY <1>2, InsertLinkEffect
<1>3. CASE Quiet
  BY <1>3 DEF Quiet
<1> QED
  BY <1>1, <1>2, <1>3, QuietSteps

\* The chains stay sorted: a node is published at the front of the chain whose
\* bucket lock the inserting thread holds.
LEMMA ChainStep == IInv /\ Next => ChainOK'
<1> SUFFICES ASSUME IInv, Next PROVE ChainOK'
  OBVIOUS
<1>1. ASSUME NEW t \in Clients, NEW objects \in 1 .. MaxObjects, InsertNode(t, objects)
      PROVE  ChainOK'
  BY <1>1, InsertNodeEffect DEF IInv, ChainOK, Bucket
<1>2. ASSUME NEW t \in Clients, InsertLink(t) PROVE ChainOK'
  <2> DEFINE l == mine[t]
             j == BucketOf[base[t]]
  <2>1. /\ l \in Node /\ ~ Linked(l) /\ Bucket(l) = j /\ j \in Buckets
        /\ \A m \in Node : Linked(m) /\ Bucket(m) = j => m < l
    BY <1>2, InsertLinkEffect, BucketsAssumption DEF IInv, LinkOK, FrameOK, InsertLink, Bucket
  <2>2. \A n \in Node :
          /\ Linked(n)' <=> Linked(n) \/ n = l
          /\ Bucket(n)' = Bucket(n)
    BY <1>2, <2>1, InsertLinkEffect DEF Bucket
  <2>3. /\ head' = [head EXCEPT ![j] = l]
        /\ next' = [next EXCEPT ![l] = head[j]]
    BY <1>2 DEF InsertLink, BucketFor
  <2>4. \A k \in Buckets, m \in Node :
          /\ head'[k] = m => Linked(m)' /\ Bucket(m)' = k
          /\ Linked(m)' /\ Bucket(m)' = k => head'[k] # Null /\ m <= head'[k]
    BY <2>1, <2>2, <2>3, NullAssumption DEF IInv, TypeOK, ChainOK, Node
  <2>5. ASSUME NEW n \in Node, NEW m \in Node, Linked(n)'
        PROVE  /\ next'[n] = m => Linked(m)' /\ Bucket(m)' = Bucket(n)' /\ m < n
               /\ Linked(m)' /\ Bucket(m)' = Bucket(n)' /\ m < n
                    => next'[n] # Null /\ m <= next'[n]
    <3>1. CASE n = l
      BY <3>1, <2>1, <2>2, <2>3 DEF IInv, TypeOK, ChainOK, Node
    <3>2. CASE n # l
      BY <3>2, <2>1, <2>2, <2>3, <2>5 DEF IInv, TypeOK, ChainOK, Node
    <3> QED
      BY <3>1, <3>2
  <2> QED
    BY <2>4, <2>5 DEF ChainOK
<1>3. CASE Quiet
  BY <1>3 DEF IInv, ChainOK, Bucket, Quiet
<1> QED
  BY <1>1, <1>2, <1>3, QuietSteps

\* A published node has a greater generation than the older nodes of its base.
LEMMA GenerationsStep == IInv /\ Next => GenerationsIncrease'
<1> SUFFICES ASSUME IInv, Next PROVE GenerationsIncrease'
  OBVIOUS
<1>1. ASSUME NEW t \in Clients, NEW objects \in 1 .. MaxObjects, InsertNode(t, objects)
      PROVE  GenerationsIncrease'
  BY <1>1, InsertNodeEffect DEF IInv, GenerationsIncrease
<1>2. ASSUME NEW t \in Clients, InsertLink(t) PROVE GenerationsIncrease'
  <2>1. \A m \in Node : Linked(m) /\ blockBase[m] = blockBase[mine[t]] =>
          m < mine[t] /\ generation[m] < generation[mine[t]]
    BY <1>2 DEF IInv, LinkOK, Bucket, Passed, InsertLink
  <2> QED
    BY <1>2, <2>1, InsertLinkEffect DEF IInv, GenerationsIncrease, Node
<1>3. CASE Quiet
  BY <1>3 DEF IInv, GenerationsIncrease, Quiet
<1> QED
  BY <1>1, <1>2, <1>3, QuietSteps

\* A node is published only when every older node of its base is Dead.
LEMMA TrackedStep == IInv /\ Next => AtMostOneTracked'
<1> SUFFICES ASSUME IInv, Next PROVE AtMostOneTracked'
  OBVIOUS
<1>1. ASSUME NEW t \in Clients, NEW objects \in 1 .. MaxObjects, InsertNode(t, objects)
      PROVE  AtMostOneTracked'
  BY <1>1, InsertNodeEffect DEF IInv, AtMostOneTracked, Tracked
<1>2. ASSUME NEW t \in Clients, InsertLink(t) PROVE AtMostOneTracked'
  <2>1. \A m \in Node : Linked(m) /\ blockBase[m] = blockBase[mine[t]] => state[m] = "Dead"
    BY <1>2 DEF IInv, LinkOK, Bucket, Passed, InsertLink
  <2> QED
    BY <1>2, <2>1, InsertLinkEffect DEF IInv, AtMostOneTracked, Tracked
<1>3. CASE Quiet
  BY <1>3 DEF IInv, AtMostOneTracked, Tracked, Quiet
<1> QED
  BY <1>1, <1>2, <1>3, QuietSteps

-----------------------------------------------------------------------------
(* Types, locals and bucket locks *)

\* Every step keeps the types of the variables.
LEMMA TypeStep == IInv /\ Next => TypeOK'
<1> SUFFICES ASSUME IInv, Next PROVE TypeOK'
  OBVIOUS
<1> USE ThreadsAssumption, BucketsAssumption, BoundsAssumption, NullAssumption
    DEF IInv, TypeOK, Threads, Goto, Return, FindFrom, Unlock, BucketFor, Refused,
        ReleaseDtorLock, sharedVars, nodeVars, localVars
<1>1. ASSUME NEW t \in Clients, NEW b \in Bases, InsertLock(t, b) PROVE TypeOK'
  BY <1>1 DEF InsertLock, NodeStates, ControlPoints
<1>2. ASSUME NEW t \in Clients, InsertScan(t) PROVE TypeOK'
  <2>1. cur[t] \in Node
    BY <1>2 DEF InsertScan
  <2>2. /\ cur' \in [Threads -> Node \union {Null}]
        /\ gen' \in [Threads -> Nat]
    BY <1>2, <2>1 DEF InsertScan
  <2> QED
    BY <1>2, <2>2 DEF InsertScan
<1>3. ASSUME NEW t \in Clients, InsertOverlap(t) PROVE TypeOK'
  BY <1>3 DEF InsertOverlap, NodeStates, ControlPoints, FrameOK
<1>4. ASSUME NEW t \in Clients, InsertExhausted(t) PROVE TypeOK'
  BY <1>4 DEF InsertExhausted, NodeStates, ControlPoints, FrameOK
<1>5. ASSUME NEW t \in Clients, NEW objects \in 1 .. MaxObjects, InsertNode(t, objects)
      PROVE  TypeOK'
  <2>1. nodeCursor \in Node /\ base[t] \in Bases /\ t \in Threads
    BY <1>5 DEF InsertNode, Node, FrameOK
  <2>2. /\ nodeCursor' \in Nat
        /\ state' \in [Node -> NodeStates]
        /\ blockBase' \in [Node -> Bases \union {Null}]
        /\ liveCount' \in [Node -> Nat]
    BY <1>5, <2>1 DEF InsertNode, NodeStates
  <2>3. /\ threadID' \in [Node -> Clients \union {Null}]
        /\ generation' \in [Node -> Nat]
        /\ pc' \in [Threads -> ControlPoints]
        /\ mine' \in [Threads -> Node \union {Null}]
    BY <1>5, <2>1 DEF InsertNode, ControlPoints
  <2> QED
    BY <1>5, <2>2, <2>3 DEF InsertNode
<1>6. ASSUME NEW t \in Clients, InsertLink(t) PROVE TypeOK'
  <2>1. mine[t] \in Node /\ base[t] \in Bases
    BY <1>6 DEF InsertLink, LinkOK, FrameOK
  <2>2. BucketOf[base[t]] \in Buckets
    BY <2>1
  <2>3. /\ head' \in [Buckets -> Node \union {Null}]
        /\ next' \in [Node -> Node \union {Null}]
    BY <1>6, <2>1, <2>2 DEF InsertLink
  <2>4. /\ bucketLock' \in [Buckets -> Clients \union {Null}]
        /\ pc' \in [Threads -> ControlPoints]
    BY <1>6 DEF InsertLink, ControlPoints
  <2> QED
    BY <1>6, <2>3, <2>4 DEF InsertLink
<1>7. ASSUME NEW t \in Clients, InsertCount(t) PROVE TypeOK'
  BY <1>7 DEF InsertCount, NodeStates, ControlPoints
<1>8. ASSUME NEW t \in Threads, FindNext(t) PROVE TypeOK'
  <2>1. cur[t] \in Node
    BY <1>8 DEF FindNext
  <2>2. cur' \in [Threads -> Node \union {Null}]
    BY <1>8, <2>1 DEF FindNext
  <2> QED
    BY <1>8, <2>2 DEF FindNext
<1>9. ASSUME NEW t \in Threads, FindReturn(t) PROVE TypeOK'
  BY <1>9 DEF FindReturn, NodeStates, ControlPoints, FrameOK
<1>10. ASSUME NEW t \in Clients, NEW b \in Bases, BeginCall(t, b) PROVE TypeOK'
  BY <1>10 DEF BeginCall, NodeStates, ControlPoints
<1>11. ASSUME NEW t \in Clients, Refused(t) PROVE TypeOK'
  BY <1>11 DEF Refused, NodeStates, ControlPoints
<1>12. ASSUME NEW t \in Clients, NEW policy \in Policies, BeginTryLock(t, policy)
      PROVE  TypeOK'
  BY <1>12 DEF BeginTryLock, NodeStates, ControlPoints
<1>13. ASSUME NEW t \in Clients, BeginRetires(t) PROVE TypeOK'
  BY <1>13 DEF BeginRetires, NodeStates, ControlPoints, FrameOK
<1>14. ASSUME NEW t \in Clients, BeginNotLive(t) PROVE TypeOK'
  BY <1>14 DEF BeginNotLive, NodeStates, ControlPoints
<1>15. ASSUME NEW t \in Clients, DestroyObject(t) PROVE TypeOK'
  <2>1. mine[t] \in Node /\ liveCount[mine[t]] > 0
    BY <1>15 DEF DestroyObject, RetireOK, RetiringAt, LiveCountOK
  <2>2. /\ liveCount' \in [Node -> Nat]
        /\ pc' \in [Threads -> ControlPoints]
    BY <1>15, <2>1 DEF DestroyObject, ControlPoints
  <2> QED
    BY <1>15, <2>2 DEF DestroyObject
<1>16. ASSUME NEW t \in Clients, EndCall(t) PROVE TypeOK'
  BY <1>16 DEF EndCall, NodeStates, ControlPoints, FrameOK
<1>17. ASSUME NEW t \in Clients, EndLoad(t) PROVE TypeOK'
  BY <1>17 DEF EndLoad, NodeStates, ControlPoints
<1>18. ASSUME NEW t \in Clients, EndKeepLive(t) PROVE TypeOK'
  BY <1>18 DEF EndKeepLive, NodeStates, ControlPoints
<1>19. ASSUME NEW t \in Clients, EndQuarantine(t) PROVE TypeOK'
  BY <1>19 DEF EndQuarantine, NodeStates, ControlPoints
<1>20. ASSUME NEW t \in Clients, UnlockReturn(t) PROVE TypeOK'
  BY <1>20 DEF UnlockReturn, NodeStates, ControlPoints
<1>21. ASSUME NEW t \in Clients, UnlockLast(t) PROVE TypeOK'
  BY <1>21 DEF UnlockLast, NodeStates, ControlPoints
<1>22. ASSUME NEW t \in Clients, EndCount(t) PROVE TypeOK'
  BY <1>22 DEF EndCount, NodeStates, ControlPoints
<1>23. ASSUME NEW t \in Clients, EndEnqueue(t) PROVE TypeOK'
  BY <1>23 DEF EndEnqueue, NodeStates, ControlPoints, FrameOK
<1>24. ASSUME NEW b \in Bases, RetireCall(b) PROVE TypeOK'
  BY <1>24 DEF RetireCall, NodeStates, ControlPoints
<1>25. ASSUME RetireCAS PROVE TypeOK'
  BY <1>25 DEF RetireCAS, NodeStates, ControlPoints
<1> QED
  BY <1>1, <1>2, <1>3, <1>4, <1>5, <1>6, <1>7, <1>8, <1>9, <1>10, <1>11, <1>12,
     <1>13, <1>14, <1>15, <1>16, <1>17, <1>18, <1>19, <1>20, <1>21, <1>22, <1>23,
     <1>24, <1>25
  DEF Next, ClientCall, ClientStep, DrainStep, BeginMiss, BeginForeign, BeginBusy

\* The lookup of endRetiring returns the node beginRetiring has returned.
LEMMA FindsOwnNode ==
  ASSUME IInv, NEW t \in Clients, FindReturn(t), goal[t] = "end"
  PROVE  cur[t] \in Node /\ cur[t] = mine[t]
<1>1. pc[t] = "walk" /\ t \in Threads
  BY DEF FindReturn, Threads
<1>2. cur[t] \in Node /\ mine[t] \in Node
  BY <1>1 DEF IInv, TypeOK, WalkOK, RetireOK, RetiringAt
<1>3. Retires(t, mine[t])
  BY <1>1 DEF Retires, RetiringAt
<1>4. /\ Linked(mine[t])
      /\ state[mine[t]] # "Dead"
      /\ blockBase[mine[t]] = base[t]
  BY <1>2, <1>3 DEF IInv, RetireOK
<1>5. /\ Linked(cur[t])
      /\ state[cur[t]] # "Dead"
      /\ blockBase[cur[t]] = base[t]
  <2>1. Linked(cur[t])
    BY <1>1, <1>2 DEF IInv, CursorOK
  <2>2. cur[t] # Null
    BY <1>2, NullAssumption DEF Node
  <2>3. Matches(t)
    BY <2>2 DEF FindReturn
  <2> QED
    BY <2>1, <2>3 DEF Matches
<1> QED
  BY <1>2, <1>4, <1>5 DEF IInv, AtMostOneTracked, Tracked

\* The locals keep fitting the control points.
LEMMA FrameStep == IInv /\ Next => FrameOK'
<1> SUFFICES ASSUME IInv, Next PROVE FrameOK'
  OBVIOUS
<1> USE ThreadsAssumption, BucketsAssumption, BoundsAssumption, NullAssumption
    DEF IInv, TypeOK, Threads, Goto, Return, FindFrom, Unlock, BucketFor, Refused,
        ReleaseDtorLock, sharedVars, nodeVars, localVars
<1>1. ASSUME NEW t \in Clients, NEW b \in Bases, InsertLock(t, b) PROVE FrameOK'
  BY <1>1 DEF InsertLock, FrameOK
<1>2. ASSUME NEW t \in Clients, InsertScan(t) PROVE FrameOK'
  BY <1>2 DEF InsertScan, FrameOK
<1>3. ASSUME NEW t \in Clients, InsertOverlap(t) PROVE FrameOK'
  BY <1>3 DEF InsertOverlap, FrameOK
<1>4. ASSUME NEW t \in Clients, InsertExhausted(t) PROVE FrameOK'
  BY <1>4 DEF InsertExhausted, FrameOK
<1>5. ASSUME NEW t \in Clients, NEW objects \in 1 .. MaxObjects, InsertNode(t, objects)
      PROVE  FrameOK'
  BY <1>5 DEF InsertNode, FrameOK
<1>6. ASSUME NEW t \in Clients, InsertLink(t) PROVE FrameOK'
  BY <1>6 DEF InsertLink, FrameOK
<1>7. ASSUME NEW t \in Clients, InsertCount(t) PROVE FrameOK'
  BY <1>7 DEF InsertCount, FrameOK
<1>8. ASSUME NEW t \in Threads, FindNext(t) PROVE FrameOK'
  BY <1>8 DEF FindNext, FrameOK
<1>9. ASSUME NEW t \in Threads, FindReturn(t) PROVE FrameOK'
  <2>1. t \in Clients /\ goal[t] = "end" => cur[t] \in Node /\ cur[t] = mine[t]
    BY <1>9, FindsOwnNode
  <2>2. cur[t] \in Node => cur[t] # Null
    BY DEF Node
  <2>3. pc' = [pc EXCEPT ![t] = goal[t]] /\ UNCHANGED localVars /\ pc[t] = "walk"
    BY <1>9 DEF FindReturn
  <2> QED
    BY <2>1, <2>2, <2>3 DEF FrameOK
<1>10. ASSUME NEW t \in Clients, NEW b \in Bases, BeginCall(t, b) PROVE FrameOK'
  BY <1>10 DEF BeginCall, FrameOK
<1>11. ASSUME NEW t \in Clients, Refused(t) PROVE FrameOK'
  BY <1>11 DEF Refused, FrameOK
<1>12. ASSUME NEW t \in Clients, NEW policy \in Policies, BeginTryLock(t, policy)
      PROVE  FrameOK'
  BY <1>12 DEF BeginTryLock, FrameOK
<1>13. ASSUME NEW t \in Clients, BeginRetires(t) PROVE FrameOK'
  BY <1>13 DEF BeginRetires, FrameOK
<1>14. ASSUME NEW t \in Clients, BeginNotLive(t) PROVE FrameOK'
  BY <1>14 DEF BeginNotLive, FrameOK
<1>15. ASSUME NEW t \in Clients, DestroyObject(t) PROVE FrameOK'
  BY <1>15 DEF DestroyObject, FrameOK
<1>16. ASSUME NEW t \in Clients, EndCall(t) PROVE FrameOK'
  BY <1>16 DEF EndCall, FrameOK
<1>17. ASSUME NEW t \in Clients, EndLoad(t) PROVE FrameOK'
  <2>1. cur[t] # Null
    BY <1>17 DEF EndLoad, FrameOK
  <2> QED
    BY <1>17, <2>1 DEF EndLoad, FrameOK
<1>18. ASSUME NEW t \in Clients, EndKeepLive(t) PROVE FrameOK'
  BY <1>18 DEF EndKeepLive, FrameOK
<1>19. ASSUME NEW t \in Clients, EndQuarantine(t) PROVE FrameOK'
  BY <1>19 DEF EndQuarantine, FrameOK
<1>20. ASSUME NEW t \in Clients, UnlockReturn(t) PROVE FrameOK'
  BY <1>20 DEF UnlockReturn, FrameOK
<1>21. ASSUME NEW t \in Clients, UnlockLast(t) PROVE FrameOK'
  BY <1>21 DEF UnlockLast, FrameOK
<1>22. ASSUME NEW t \in Clients, EndCount(t) PROVE FrameOK'
  BY <1>22 DEF EndCount, FrameOK
<1>23. ASSUME NEW t \in Clients, EndEnqueue(t) PROVE FrameOK'
  BY <1>23 DEF EndEnqueue, FrameOK
<1>24. ASSUME NEW b \in Bases, RetireCall(b) PROVE FrameOK'
  BY <1>24 DEF RetireCall, FrameOK
<1>25. ASSUME RetireCAS PROVE FrameOK'
  BY <1>25 DEF RetireCAS, FrameOK
<1> QED
  BY <1>1, <1>2, <1>3, <1>4, <1>5, <1>6, <1>7, <1>8, <1>9, <1>10, <1>11, <1>12,
     <1>13, <1>14, <1>15, <1>16, <1>17, <1>18, <1>19, <1>20, <1>21, <1>22, <1>23,
     <1>24, <1>25
  DEF Next, ClientCall, ClientStep, DrainStep, BeginMiss, BeginForeign, BeginBusy

\* A bucket lock is taken by insert and released where insert leaves it.
LEMMA BucketLockStep == IInv /\ Next => BucketLockOK'
<1> SUFFICES ASSUME IInv, Next PROVE BucketLockOK'
  OBVIOUS
<1> USE ThreadsAssumption, BucketsAssumption, BoundsAssumption, NullAssumption
    DEF IInv, TypeOK, Threads, Goto, Return, FindFrom, Unlock, BucketFor, Refused,
        ReleaseDtorLock, sharedVars, nodeVars, localVars
<1>1. ASSUME NEW t \in Clients, NEW b \in Bases, InsertLock(t, b)
      PROVE  BucketLockOK'
  BY <1>1 DEF InsertLock, FrameOK, BucketLockOK
<1>2. ASSUME NEW t \in Clients, InsertScan(t) PROVE BucketLockOK'
  BY <1>2 DEF InsertScan, FrameOK, BucketLockOK
<1>3. ASSUME NEW t \in Clients, InsertOverlap(t) PROVE BucketLockOK'
  BY <1>3 DEF InsertOverlap, FrameOK, BucketLockOK
<1>4. ASSUME NEW t \in Clients, InsertExhausted(t) PROVE BucketLockOK'
  BY <1>4 DEF InsertExhausted, FrameOK, BucketLockOK
<1>5. ASSUME NEW t \in Clients, NEW objects \in 1 .. MaxObjects, InsertNode(t, objects)
      PROVE  BucketLockOK'
  BY <1>5 DEF InsertNode, FrameOK, BucketLockOK
<1>6. ASSUME NEW t \in Clients, InsertLink(t) PROVE BucketLockOK'
  BY <1>6 DEF InsertLink, FrameOK, BucketLockOK
<1>7. ASSUME NEW t \in Clients, InsertCount(t) PROVE BucketLockOK'
  BY <1>7 DEF InsertCount, FrameOK, BucketLockOK
<1>8. ASSUME NEW t \in Threads, FindNext(t) PROVE BucketLockOK'
  BY <1>8 DEF FindNext, FrameOK, BucketLockOK
<1>9. ASSUME NEW t \in Threads, FindReturn(t) PROVE BucketLockOK'
  BY <1>9 DEF FindReturn, FrameOK, BucketLockOK
<1>10. ASSUME NEW t \in Clients, NEW b \in Bases, BeginCall(t, b)
      PROVE  BucketLockOK'
  BY <1>10 DEF BeginCall, FrameOK, BucketLockOK
<1>11. ASSUME NEW t \in Clients, Refused(t) PROVE BucketLockOK'
  BY <1>11 DEF Refused, FrameOK, BucketLockOK
<1>12. ASSUME NEW t \in Clients, NEW policy \in Policies, BeginTryLock(t, policy)
      PROVE  BucketLockOK'
  BY <1>12 DEF BeginTryLock, FrameOK, BucketLockOK
<1>13. ASSUME NEW t \in Clients, BeginRetires(t) PROVE BucketLockOK'
  BY <1>13 DEF BeginRetires, FrameOK, BucketLockOK
<1>14. ASSUME NEW t \in Clients, BeginNotLive(t) PROVE BucketLockOK'
  BY <1>14 DEF BeginNotLive, FrameOK, BucketLockOK
<1>15. ASSUME NEW t \in Clients, DestroyObject(t) PROVE BucketLockOK'
  BY <1>15 DEF DestroyObject, FrameOK, BucketLockOK
<1>16. ASSUME NEW t \in Clients, EndCall(t) PROVE BucketLockOK'
  BY <1>16 DEF EndCall, FrameOK, BucketLockOK
<1>17. ASSUME NEW t \in Clients, EndLoad(t) PROVE BucketLockOK'
  BY <1>17 DEF EndLoad, FrameOK, BucketLockOK
<1>18. ASSUME NEW t \in Clients, EndKeepLive(t) PROVE BucketLockOK'
  BY <1>18 DEF EndKeepLive, FrameOK, BucketLockOK
<1>19. ASSUME NEW t \in Clients, EndQuarantine(t) PROVE BucketLockOK'
  BY <1>19 DEF EndQuarantine, FrameOK, BucketLockOK
<1>20. ASSUME NEW t \in Clients, UnlockReturn(t) PROVE BucketLockOK'
  BY <1>20 DEF UnlockReturn, FrameOK, BucketLockOK
<1>21. ASSUME NEW t \in Clients, UnlockLast(t) PROVE BucketLockOK'
  BY <1>21 DEF UnlockLast, FrameOK, BucketLockOK
<1>22. ASSUME NEW t \in Clients, EndCount(t) PROVE BucketLockOK'
  BY <1>22 DEF EndCount, FrameOK, BucketLockOK
<1>23. ASSUME NEW t \in Clients, EndEnqueue(t) PROVE BucketLockOK'
  BY <1>23 DEF EndEnqueue, FrameOK, BucketLockOK
<1>24. ASSUME NEW b \in Bases, RetireCall(b) PROVE BucketLockOK'
  BY <1>24 DEF RetireCall, FrameOK, BucketLockOK
<1>25. ASSUME RetireCAS PROVE BucketLockOK'
  BY <1>25 DEF RetireCAS, FrameOK, BucketLockOK
<1> QED
  BY <1>1, <1>2, <1>3, <1>4, <1>5, <1>6, <1>7, <1>8, <1>9, <1>10, <1>11, <1>12,
     <1>13, <1>14, <1>15, <1>16, <1>17, <1>18, <1>19, <1>20, <1>21, <1>22, <1>23,
     <1>24, <1>25
  DEF Next, ClientCall, ClientStep, DrainStep, BeginMiss, BeginForeign, BeginBusy

-----------------------------------------------------------------------------
(* Nodes, cursors and the scan of insert *)

\* Thread t took no step.
Stays(t) ==
  /\ pc'[t] = pc[t]
  /\ base'[t] = base[t]
  /\ cur'[t] = cur[t]
  /\ mine'[t] = mine[t]
  /\ gen'[t] = gen[t]
  /\ goal'[t] = goal[t]

\* A client is at the scan or at the link only if it was there before or has
\* just got there by a step of its own.
InsertOnly(u) ==
  \/ Stays(u)
  \/ \E b \in Bases : InsertLock(u, b)
  \/ InsertScan(u)
  \/ \E objects \in 1 .. MaxObjects : InsertNode(u, objects)
  \/ pc'[u] \notin {"scan", "link"}

\* Only the thread's own steps take it to the scan and to the link.
LEMMA LocalStep ==
  ASSUME IInv, Next, NEW u \in Clients
  PROVE  InsertOnly(u)
<1> USE ThreadsAssumption, BucketsAssumption, BoundsAssumption, NullAssumption
    DEF IInv, TypeOK, Threads, Goto, Return, FindFrom, Unlock, BucketFor, Refused,
        ReleaseDtorLock, sharedVars, nodeVars, localVars
<1>1. ASSUME NEW t \in Clients, NEW b \in Bases, InsertLock(t, b)
      PROVE  InsertOnly(u)
  BY <1>1 DEF InsertLock, InsertOnly, Stays
<1>2. ASSUME NEW t \in Clients, InsertScan(t) PROVE InsertOnly(u)
  BY <1>2 DEF InsertScan, InsertOnly, Stays
<1>3. ASSUME NEW t \in Clients, InsertOverlap(t) PROVE InsertOnly(u)
  BY <1>3 DEF InsertOverlap, InsertOnly, Stays
<1>4. ASSUME NEW t \in Clients, InsertExhausted(t) PROVE InsertOnly(u)
  BY <1>4 DEF InsertExhausted, InsertOnly, Stays
<1>5. ASSUME NEW t \in Clients, NEW objects \in 1 .. MaxObjects, InsertNode(t, objects)
      PROVE  InsertOnly(u)
  BY <1>5 DEF InsertNode, InsertOnly, Stays
<1>6. ASSUME NEW t \in Clients, InsertLink(t) PROVE InsertOnly(u)
  BY <1>6 DEF InsertLink, InsertOnly, Stays
<1>7. ASSUME NEW t \in Clients, InsertCount(t) PROVE InsertOnly(u)
  BY <1>7 DEF InsertCount, InsertOnly, Stays
<1>8. ASSUME NEW t \in Threads, FindNext(t) PROVE InsertOnly(u)
  BY <1>8 DEF FindNext, InsertOnly, Stays
<1>9. ASSUME NEW t \in Threads, FindReturn(t) PROVE InsertOnly(u)
  BY <1>9 DEF FindReturn, InsertOnly, Stays, FrameOK
<1>10. ASSUME NEW t \in Clients, NEW b \in Bases, BeginCall(t, b)
      PROVE  InsertOnly(u)
  BY <1>10 DEF BeginCall, InsertOnly, Stays
<1>11. ASSUME NEW t \in Clients, Refused(t) PROVE InsertOnly(u)
  BY <1>11 DEF Refused, InsertOnly, Stays
<1>12. ASSUME NEW t \in Clients, NEW policy \in Policies, BeginTryLock(t, policy)
      PROVE  InsertOnly(u)
  BY <1>12 DEF BeginTryLock, InsertOnly, Stays
<1>13. ASSUME NEW t \in Clients, BeginRetires(t) PROVE InsertOnly(u)
  BY <1>13 DEF BeginRetires, InsertOnly, Stays
<1>14. ASSUME NEW t \in Clients, BeginNotLive(t) PROVE InsertOnly(u)
  BY <1>14 DEF BeginNotLive, InsertOnly, Stays
<1>15. ASSUME NEW t \in Clients, DestroyObject(t) PROVE InsertOnly(u)
  BY <1>15 DEF DestroyObject, InsertOnly, Stays
<1>16. ASSUME NEW t \in Clients, EndCall(t) PROVE InsertOnly(u)
  BY <1>16 DEF EndCall, InsertOnly, Stays
<1>17. ASSUME NEW t \in Clients, EndLoad(t) PROVE InsertOnly(u)
  BY <1>17 DEF EndLoad, InsertOnly, Stays, FrameOK
<1>18. ASSUME NEW t \in Clients, EndKeepLive(t) PROVE InsertOnly(u)
  BY <1>18 DEF EndKeepLive, InsertOnly, Stays
<1>19. ASSUME NEW t \in Clients, EndQuarantine(t) PROVE InsertOnly(u)
  BY <1>19 DEF EndQuarantine, InsertOnly, Stays
<1>20. ASSUME NEW t \in Clients, UnlockReturn(t) PROVE InsertOnly(u)
  BY <1>20 DEF UnlockReturn, InsertOnly, Stays
<1>21. ASSUME NEW t \in Clients, UnlockLast(t) PROVE InsertOnly(u)
  BY <1>21 DEF UnlockLast, InsertOnly, Stays
<1>22. ASSUME NEW t \in Clients, EndCount(t) PROVE InsertOnly(u)
  BY <1>22 DEF EndCount, InsertOnly, Stays
<1>23. ASSUME NEW t \in Clients, EndEnqueue(t) PROVE InsertOnly(u)
  BY <1>23 DEF EndEnqueue, InsertOnly, Stays
<1>24. ASSUME NEW b \in Bases, RetireCall(b) PROVE InsertOnly(u)
  BY <1>24 DEF RetireCall, InsertOnly, Stays
<1>25. ASSUME RetireCAS PROVE InsertOnly(u)
  BY <1>25 DEF RetireCAS, InsertOnly, Stays
<1> QED
  BY <1>1, <1>2, <1>3, <1>4, <1>5, <1>6, <1>7, <1>8, <1>9, <1>10, <1>11, <1>12,
     <1>13, <1>14, <1>15, <1>16, <1>17, <1>18, <1>19, <1>20, <1>21, <1>22, <1>23,
     <1>24, <1>25
  DEF Next, ClientCall, ClientStep, DrainStep, BeginMiss, BeginForeign, BeginBusy

\* No step disturbs the nodes beyond the chains.
LEMMA NodesStep == IInv /\ Next => NodesOK'
<1> SUFFICES ASSUME IInv, Next PROVE NodesOK'
  OBVIOUS
<1>1. ASSUME NEW t \in Clients, NEW objects \in 1 .. MaxObjects, InsertNode(t, objects)
      PROVE  NodesOK'
  BY <1>1, InsertNodeEffect DEF IInv, TypeOK, NodesOK, InsertNode
<1>2. ASSUME NEW t \in Clients, InsertLink(t) PROVE NodesOK'
  <2>1. blockBase[mine[t]] \in Bases /\ state[mine[t]] = "Live"
    BY <1>2 DEF IInv, LinkOK, FrameOK, InsertLink
  <2> QED
    BY <1>2, <2>1, InsertLinkEffect DEF IInv, NodesOK
<1>3. CASE Quiet
  BY <1>3 DEF IInv, NodesOK, Quiet
<1> QED
  BY <1>1, <1>2, <1>3, QuietSteps

\* A cursor advances within its chain.
LEMMA CursorStep == IInv /\ Next => CursorOK'
<1> SUFFICES ASSUME IInv, Next PROVE CursorOK'
  OBVIOUS
<1> USE ThreadsAssumption, BucketsAssumption, BoundsAssumption, NullAssumption
    DEF IInv, TypeOK, Threads, Goto, Return, FindFrom, Unlock, BucketFor, Refused,
        ReleaseDtorLock, sharedVars, nodeVars, localVars
<1>g. \A n \in Node : Linked(n) =>
        /\ Linked(n)'
        /\ blockBase'[n] = blockBase[n]
        /\ generation'[n] = generation[n]
        /\ state[n] = "Dead" => state'[n] = "Dead"
  BY LinkedGrows
<1>1. ASSUME NEW t \in Clients, NEW b \in Bases, InsertLock(t, b) PROVE CursorOK'
  BY <1>1, <1>g DEF InsertLock, FrameOK, CursorOK, Bucket, ChainOK
<1>2. ASSUME NEW t \in Clients, InsertScan(t) PROVE CursorOK'
  BY <1>2, <1>g DEF InsertScan, FrameOK, CursorOK, Bucket, ChainOK
<1>3. ASSUME NEW t \in Clients, InsertOverlap(t) PROVE CursorOK'
  BY <1>3, <1>g DEF InsertOverlap, FrameOK, CursorOK, Bucket
<1>4. ASSUME NEW t \in Clients, InsertExhausted(t) PROVE CursorOK'
  BY <1>4, <1>g DEF InsertExhausted, FrameOK, CursorOK, Bucket
<1>5. ASSUME NEW t \in Clients, NEW objects \in 1 .. MaxObjects, InsertNode(t, objects)
      PROVE  CursorOK'
  BY <1>5, <1>g DEF InsertNode, FrameOK, CursorOK, Bucket
<1>6. ASSUME NEW t \in Clients, InsertLink(t) PROVE CursorOK'
  BY <1>6, <1>g DEF InsertLink, FrameOK, CursorOK, Bucket
<1>7. ASSUME NEW t \in Clients, InsertCount(t) PROVE CursorOK'
  BY <1>7, <1>g DEF InsertCount, FrameOK, CursorOK, Bucket
<1>8. ASSUME NEW t \in Threads, FindNext(t) PROVE CursorOK'
  <2>1. cur[t] \in Node /\ Linked(cur[t]) /\ Bucket(cur[t]) = BucketOf[base[t]]
    BY <1>8 DEF FindNext, CursorOK
  <2>2. \A n \in Node : next[cur[t]] = n => Linked(n) /\ Bucket(n) = Bucket(cur[t])
    BY <2>1 DEF ChainOK
  <2>3. /\ cur' = [cur EXCEPT ![t] = next[cur[t]]]
        /\ UNCHANGED <<pc, base, blockBase>>
        /\ pc[t] = "walk"
    BY <1>8 DEF FindNext
  <2> QED
    BY <2>1, <2>2, <2>3, <1>g DEF CursorOK, Bucket
<1>9. ASSUME NEW t \in Threads, FindReturn(t) PROVE CursorOK'
  <2>1. /\ pc' = [pc EXCEPT ![t] = goal[t]]
        /\ UNCHANGED <<cur, base, blockBase>>
        /\ pc[t] = "walk"
    BY <1>9 DEF FindReturn
  <2>2. \A n \in Node : cur[t] = n =>
          Linked(n) /\ Bucket(n) = BucketOf[base[t]] /\ blockBase[n] = base[t]
    BY <1>9, <2>1 DEF CursorOK, FindReturn, Matches, Node
  <2> QED
    BY <2>1, <2>2, <1>g DEF CursorOK, Bucket
<1>10. ASSUME NEW t \in Clients, NEW b \in Bases, BeginCall(t, b) PROVE CursorOK'
  BY <1>10, <1>g DEF BeginCall, FrameOK, CursorOK, Bucket, ChainOK
<1>11. ASSUME NEW t \in Clients, Refused(t) PROVE CursorOK'
  BY <1>11, <1>g DEF Refused, FrameOK, CursorOK, Bucket
<1>12. ASSUME NEW t \in Clients, NEW policy \in Policies, BeginTryLock(t, policy)
      PROVE  CursorOK'
  BY <1>12, <1>g DEF BeginTryLock, FrameOK, CursorOK, Bucket
<1>13. ASSUME NEW t \in Clients, BeginRetires(t) PROVE CursorOK'
  BY <1>13, <1>g DEF BeginRetires, FrameOK, CursorOK, Bucket
<1>14. ASSUME NEW t \in Clients, BeginNotLive(t) PROVE CursorOK'
  BY <1>14, <1>g DEF BeginNotLive, FrameOK, CursorOK, Bucket
<1>15. ASSUME NEW t \in Clients, DestroyObject(t) PROVE CursorOK'
  BY <1>15, <1>g DEF DestroyObject, FrameOK, CursorOK, Bucket
<1>16. ASSUME NEW t \in Clients, EndCall(t) PROVE CursorOK'
  BY <1>16, <1>g DEF EndCall, FrameOK, CursorOK, Bucket, ChainOK
<1>17. ASSUME NEW t \in Clients, EndLoad(t) PROVE CursorOK'
  BY <1>17, <1>g DEF EndLoad, FrameOK, CursorOK, Bucket
<1>18. ASSUME NEW t \in Clients, EndKeepLive(t) PROVE CursorOK'
  BY <1>18, <1>g
  DEF EndKeepLive, FrameOK, CursorOK, Bucket, RetireOK, Retires, RetiringAt
<1>19. ASSUME NEW t \in Clients, EndQuarantine(t) PROVE CursorOK'
  BY <1>19, <1>g
  DEF EndQuarantine, FrameOK, CursorOK, Bucket, RetireOK, Retires, RetiringAt
<1>20. ASSUME NEW t \in Clients, UnlockReturn(t) PROVE CursorOK'
  BY <1>20, <1>g DEF UnlockReturn, FrameOK, CursorOK, Bucket
<1>21. ASSUME NEW t \in Clients, UnlockLast(t) PROVE CursorOK'
  BY <1>21, <1>g DEF UnlockLast, FrameOK, CursorOK, Bucket
<1>22. ASSUME NEW t \in Clients, EndCount(t) PROVE CursorOK'
  BY <1>22, <1>g DEF EndCount, FrameOK, CursorOK, Bucket
<1>23. ASSUME NEW t \in Clients, EndEnqueue(t) PROVE CursorOK'
  BY <1>23, <1>g DEF EndEnqueue, FrameOK, CursorOK, Bucket
<1>24. ASSUME NEW b \in Bases, RetireCall(b) PROVE CursorOK'
  BY <1>24, <1>g DEF RetireCall, FrameOK, CursorOK, Bucket, ChainOK
<1>25. ASSUME RetireCAS PROVE CursorOK'
  BY <1>25, <1>g DEF RetireCAS, FrameOK, CursorOK, Bucket
<1> QED
  BY <1>1, <1>2, <1>3, <1>4, <1>5, <1>6, <1>7, <1>8, <1>9, <1>10, <1>11, <1>12,
     <1>13, <1>14, <1>15, <1>16, <1>17, <1>18, <1>19, <1>20, <1>21, <1>22, <1>23,
     <1>24, <1>25
  DEF Next, ClientCall, ClientStep, DrainStep, BeginMiss, BeginForeign, BeginBusy

\* A step links a node only in the bucket whose lock the thread holds.
LEMMA NewlyLinked ==
  ASSUME IInv, Next, NEW n \in Node, Linked(n)', ~ Linked(n)
  PROVE  /\ \E u \in Clients : InsertLink(u) /\ bucketLock[Bucket(n)] = u
         /\ UNCHANGED <<blockBase, generation, state>>
<1>1. ~ \E t \in Clients, objects \in 1 .. MaxObjects : InsertNode(t, objects)
  BY InsertNodeEffect
<1>2. PICK u \in Clients : InsertLink(u)
  BY <1>1, QuietSteps DEF Quiet
<1>3. n = mine[u] /\ UNCHANGED <<blockBase, generation, state>>
  BY <1>2, InsertLinkEffect
<1>4. bucketLock[Bucket(n)] = u
  BY <1>2, <1>3, BucketsAssumption
  DEF IInv, LinkOK, BucketLockOK, FrameOK, InsertLink, Bucket
<1> QED
  BY <1>2, <1>3, <1>4

\* What the scan has passed stays Dead: only the holder of the bucket lock could
\* publish a node behind it.
LEMMA ScanStep == IInv /\ Next => ScanOK'
<1> SUFFICES ASSUME IInv, Next, NEW t \in Clients, pc'[t] = "scan",
                    NEW m \in Node, Linked(m)', cur'[t] = Null \/ m > cur'[t],
                    blockBase'[m] = base'[t]
             PROVE  state'[m] = "Dead" /\ generation'[m] < gen'[t]
  BY DEF ScanOK, Passed
<1> USE ThreadsAssumption, BucketsAssumption, NullAssumption DEF IInv, TypeOK, Threads
<1>1. CASE Stays(t)
  <2>1. pc[t] = "scan" /\ base[t] \in Bases /\ bucketLock[BucketOf[base[t]]] = t
    BY <1>1 DEF Stays, FrameOK, BucketLockOK
  <2>2. Linked(m)
    BY <1>1, <2>1, NewlyLinked DEF Stays, InsertLink, Bucket
  <2> QED
    BY <1>1, <2>1, <2>2, LinkedGrows DEF Stays, ScanOK, Passed
<1>2. ASSUME NEW b \in Bases, InsertLock(t, b)
      PROVE  state'[m] = "Dead" /\ generation'[m] < gen'[t]
  BY <1>2 DEF InsertLock, ChainOK, Bucket, Linked, Goto, Node, nodeVars
<1>3. CASE InsertScan(t)
  <2> DEFINE n == cur[t]
  <2>1. /\ n \in Node /\ Linked(n) /\ Bucket(n) = BucketOf[base[t]]
        /\ Linked(m) /\ Bucket(m) = BucketOf[base[t]]
    BY <1>3 DEF InsertScan, CursorOK, sharedVars, nodeVars, Linked, Bucket
  <2>2. m > n \/ m = n \/ (m < n /\ next[n] = Null) \/ (m < n /\ m > next[n])
    BY <1>3, <2>1 DEF InsertScan, Node
  <2>3. m > n \/ m = n
    BY <2>1, <2>2 DEF ChainOK, Node
  <2> QED
    BY <1>3, <2>1, <2>3 DEF InsertScan, ScanOK, Passed, sharedVars, nodeVars, Node
<1>4. ~ \E objects \in 1 .. MaxObjects : InsertNode(t, objects)
  BY DEF InsertNode, Goto
<1> QED
  BY <1>1, <1>2, <1>3, <1>4, LocalStep DEF InsertOnly

\* A node being filled in is left alone by everybody else.
LEMMA UnlinkedStays ==
  ASSUME IInv, Next, NEW l \in Node, l < nodeCursor, ~ Linked(l)
  PROVE  /\ l < nodeCursor'
         /\ blockBase'[l] = blockBase[l]
         /\ generation'[l] = generation[l]
         /\ state'[l] = state[l]
<1> USE DEF IInv, TypeOK, Node
<1>1. CASE \E t \in Clients, objects \in 1 .. MaxObjects : InsertNode(t, objects)
  BY <1>1, InsertNodeEffect DEF InsertNode
<1>2. CASE \E t \in Clients : InsertLink(t)
  BY <1>2, InsertLinkEffect DEF InsertLink
<1>3. CASE Quiet
  <2>1. nodeCursor' \in Nat
    BY TypeStep
  <2> QED
    BY <1>3, <2>1 DEF Quiet
<1> QED
  BY <1>1, <1>2, <1>3, QuietSteps

\* The filled node stays ready to be published.
LEMMA LinkStep == IInv /\ Next => LinkOK'
<1> SUFFICES ASSUME IInv, Next, NEW t \in Clients, pc'[t] = "link"
             PROVE  /\ mine'[t] # Null
                    /\ mine'[t] < nodeCursor'
                    /\ blockBase'[mine'[t]] = base'[t]
                    /\ state'[mine'[t]] = "Live"
                    /\ \A m \in Node : Linked(m)' /\ Bucket(m)' = BucketOf[base'[t]] =>
                         /\ m < mine'[t]
                         /\ blockBase'[m] = base'[t] =>
                              /\ state'[m] = "Dead"
                              /\ generation'[m] < generation'[mine'[t]]
  BY DEF LinkOK, Passed
<1> USE ThreadsAssumption, BucketsAssumption, NullAssumption DEF IInv, TypeOK, Threads
<1>1. CASE Stays(t)
  <2> DEFINE l == mine[t]
  <2>1. /\ pc[t] = "link" /\ base[t] \in Bases /\ bucketLock[BucketOf[base[t]]] = t
        /\ l \in Node /\ l < nodeCursor /\ ~ Linked(l)
        /\ blockBase[l] = base[t] /\ state[l] = "Live"
        /\ base'[t] = base[t] /\ mine'[t] = mine[t] /\ pc'[t] = pc[t]
    BY <1>1 DEF Stays, FrameOK, BucketLockOK, LinkOK, Linked
  <2>2. /\ l < nodeCursor'
        /\ blockBase'[l] = blockBase[l]
        /\ generation'[l] = generation[l]
        /\ state'[l] = state[l]
    BY <2>1, UnlinkedStays
  <2>3. ASSUME NEW m \in Node, Linked(m)', Bucket(m)' = BucketOf[base[t]]
        PROVE  /\ m < l
               /\ blockBase'[m] = base[t] =>
                    state'[m] = "Dead" /\ generation'[m] < generation'[l]
    <3>1. Linked(m)
      <4> SUFFICES ASSUME ~ Linked(m) PROVE FALSE
        OBVIOUS
      <4>1. PICK u \in Clients : InsertLink(u) /\ bucketLock[Bucket(m)] = u
        BY <2>3, NewlyLinked
      <4>2. Bucket(m) = BucketOf[base[t]]
        BY <2>3, NewlyLinked DEF Bucket
      <4>3. u = t /\ pc'[u] = "countUp"
        BY <4>1, <4>2, <2>1 DEF InsertLink, Goto
      <4> QED
        BY <4>3, <2>1
    <3>2. /\ blockBase'[m] = blockBase[m]
          /\ generation'[m] = generation[m]
          /\ state[m] = "Dead" => state'[m] = "Dead"
      BY <3>1, LinkedGrows
    <3> QED
      BY <3>1, <3>2, <2>1, <2>2, <2>3 DEF LinkOK, Passed, Bucket
  <2>4. l # Null
    BY <2>1 DEF Node
  <2> QED
    BY <2>1, <2>2, <2>3, <2>4
<1>2. ASSUME NEW objects \in 1 .. MaxObjects, InsertNode(t, objects)
      PROVE  /\ mine'[t] # Null
             /\ mine'[t] < nodeCursor'
             /\ blockBase'[mine'[t]] = base'[t]
             /\ state'[mine'[t]] = "Live"
             /\ \A m \in Node : Linked(m)' /\ Bucket(m)' = BucketOf[base'[t]] =>
                  /\ m < mine'[t]
                  /\ blockBase'[m] = base'[t] =>
                       /\ state'[m] = "Dead"
                       /\ generation'[m] < generation'[mine'[t]]
  <2> DEFINE l == nodeCursor
  <2>1. /\ l \in Node /\ l # Null /\ base[t] \in Bases
        /\ mine'[t] = l /\ base'[t] = base[t]
        /\ nodeCursor' = l + 1
        /\ blockBase'[l] = base[t] /\ state'[l] = "Live" /\ generation'[l] = gen[t]
    BY <1>2, InsertNodeEffect DEF InsertNode, FrameOK, Node
  <2>2. ASSUME NEW m \in Node, Linked(m)'
        PROVE  /\ m < l
               /\ blockBase'[m] = base[t] =>
                    state'[m] = "Dead" /\ generation'[m] < gen[t]
    <3>1. Linked(m) /\ m # l
      BY <1>2, <2>2, InsertNodeEffect
    <3>2. m < l
      BY <3>1 DEF Linked
    <3> QED
      BY <1>2, <3>1, <3>2, InsertNodeEffect DEF ScanOK, Passed, InsertNode
  <2> QED
    BY <2>1, <2>2
<1>3. ~ (\E b \in Bases : InsertLock(t, b)) /\ ~ InsertScan(t)
  BY DEF InsertLock, InsertScan, Goto
<1> QED
  BY <1>1, <1>2, <1>3, LocalStep DEF InsertOnly
=============================================================================

--------------------- MODULE AllocationRegistryInvariant ---------------------
(***************************************************************************)
(* The inductive invariant of AllocationRegistry: what every control point *)
(* of every thread may rely on.  The key fact is that the bucket lock makes*)
(* node indices decrease along every chain, so "everything beyond the      *)
(* cursor" is a set of indices and no induction over the chain is needed.  *)
(***************************************************************************)
EXTENDS AllocationRegistry

Bucket(n) == BucketOf[blockBase[n]]

\* m_Head is the linked node of the bucket with the greatest index, and m_Next
\* of a node is the greatest one below it.
ChainOK ==
  /\ \A k \in Buckets, m \in Node :
       /\ head[k] = m => Linked(m) /\ Bucket(m) = k
       /\ Linked(m) /\ Bucket(m) = k => head[k] # Null /\ m <= head[k]
  /\ \A n, m \in Node : Linked(n) =>
       /\ next[n] = m => Linked(m) /\ Bucket(m) = Bucket(n) /\ m < n
       /\ Linked(m) /\ Bucket(m) = Bucket(n) /\ m < n => next[n] # Null /\ m <= next[n]

\* Which nodes exist: the ones below the cursor.  Only linked ones have been
\* retired, quarantined or killed.
NodesOK ==
  \A n \in Node :
    /\ Linked(n) => blockBase[n] \in Bases /\ state[n] # "Empty"
    /\ ~ Linked(n) => state[n] \in {"Empty", "Live"}

\* The locals of each thread fit its control point.
FrameOK ==
  /\ \A t \in Clients :
       /\ pc[t] # "retire"
       /\ pc[t] # "idle" => base[t] \in Bases
       /\ pc[t] = "walk" => goal[t] \in {"begin", "end"}
       /\ pc[t] = "walk" /\ goal[t] = "begin" => mine[t] = Null
       /\ pc[t] \in {"idle", "begin", "beginCAS"} => mine[t] = Null
       /\ pc[t] \in {"beginCAS", "unlock", "unlockLast"} => cur[t] # Null
       /\ pc[t] \in {"end", "keepLive", "toQuarantine"} =>
            cur[t] # Null /\ cur[t] = mine[t]
  /\ pc[Drainer] \in {"idle", "walk", "retire"}
  /\ pc[Drainer] # "idle" =>
       base[Drainer] \in Bases /\ goal[Drainer] = "retire"

\* A cursor only ever points into the chain of its own bucket, and after a hit
\* at a node of the base looked for.
CursorOK ==
  \A t \in Threads, n \in Node : cur[t] = n =>
    /\ pc[t] \in {"scan", "walk", "begin", "beginCAS", "unlock", "unlockLast", "retire"}
         => Linked(n) /\ Bucket(n) = BucketOf[base[t]]
    /\ pc[t] \in {"begin", "beginCAS"} => blockBase[n] = base[t]

\* A bucket lock is held exactly at the control points under it.
BucketLockOK ==
  \A k \in Buckets, t \in Clients :
    bucketLock[k] = t <=> pc[t] \in {"scan", "link"} /\ BucketOf[base[t]] = k

\* What the scan has passed is Dead and has a smaller generation.
Passed(b, g, m) == blockBase[m] = b => state[m] = "Dead" /\ generation[m] < g

ScanOK ==
  \A t \in Clients : pc[t] = "scan" =>
    \A m \in Node :
      Linked(m) /\ (cur[t] = Null \/ m > cur[t]) => Passed(base[t], gen[t], m)

\* A filled node is ready to become the new maximum of its chain.
LinkOK ==
  \A t \in Clients : pc[t] = "link" =>
    /\ mine[t] # Null
    /\ mine[t] < nodeCursor
    /\ blockBase[mine[t]] = base[t]
    /\ state[mine[t]] = "Live"
    /\ \A m \in Node : Linked(m) /\ Bucket(m) = BucketOf[base[t]] =>
         m < mine[t] /\ Passed(base[t], generation[mine[t]], m)

\* The thread between the two CASes of a retirement has its node to itself, and
\* only such a node is Retiring.
RetireOK ==
  /\ \A t \in Clients, n \in Node : Retires(t, n) =>
       /\ Linked(n)
       /\ blockBase[n] = base[t]
       /\ state[n] = "Retiring"
       /\ dtorLock[n] = t
  /\ \A t \in Clients :
       /\ pc[t] \in RetiringAt /\ (pc[t] = "walk" => goal[t] = "end") => mine[t] # Null
       /\ pc[t] \in {"beginCAS", "unlock", "unlockLast"} => dtorLock[cur[t]] = t
  /\ \A n \in Node : state[n] = "Retiring" => \E t \in Clients : Retires(t, n)

\* The lookups of endRetiring and retire have not walked past their node.
WalkOK ==
  /\ \A t \in Clients : pc[t] = "walk" /\ goal[t] = "end" =>
       cur[t] # Null /\ mine[t] <= cur[t]
  /\ pc[Drainer] = "walk" =>
       \A n \in QuarantinedAt(base[Drainer]) :
         cur[Drainer] # Null /\ n <= cur[Drainer]

\* The live count decides correctly at each point of a retirement.
LiveCountOK ==
  /\ LiveCountConsistent
  /\ \A t \in Clients :
       /\ pc[t] \in {"destroy", "keepLive"} => liveCount[mine[t]] > 0
       /\ pc[t] = "toQuarantine" => liveCount[mine[t]] = 0

\* The inductive invariant.
IInv ==
  /\ TypeOK
  /\ ChainOK
  /\ NodesOK
  /\ FrameOK
  /\ CursorOK
  /\ BucketLockOK
  /\ ScanOK
  /\ LinkOK
  /\ AtMostOneTracked
  /\ GenerationsIncrease
  /\ RetireOK
  /\ WalkOK
  /\ LiveCountOK
  /\ CustodyMatchesState
  /\ RetireSucceeds
-----------------------------------------------------------------------------
(* What the exact counts and the refinement need on top of IInv *)

\* g is the generation after that of the newest node of b, or the first one.
Succeeds(g, b) ==
  g = 1 \/ \E m \in Node : Linked(m) /\ blockBase[m] = b /\ g = generation[m] + 1

\* Insert skips no generation, and of the nodes of a base one is the newest.
SuccessionOK ==
  /\ \A n \in Node : Linked(n) => generation[n] > 0
  /\ \A t \in Clients :
       /\ pc[t] = "scan" => Succeeds(gen[t], base[t])
       /\ pc[t] = "link" => Succeeds(generation[mine[t]], base[t])
  /\ \A b \in Bases, n \in Node : n \in LinkedAt(b) =>
       \E m \in LinkedAt(b) : \A k \in LinkedAt(b) : k <= m

\* The nodes m_Count is to count, and the threads that have still to do so.
Counted    == {n \in Node : Linked(n) /\ state[n] \in {"Live", "Retiring"}}
CountsUp   == {t \in Clients : pc[t] = "countUp"}
CountsDown == {t \in Clients : pc[t] \in {"unlockLast", "countDown"}}

CountOK ==
  /\ IsFiniteSet(CountsUp) /\ IsFiniteSet(CountsDown)
  /\ count = Cardinality(Counted) - Cardinality(CountsUp) + Cardinality(CountsDown)

\* Inductive together with IInv.
ExactInv == SuccessionOK /\ CountOK
=============================================================================

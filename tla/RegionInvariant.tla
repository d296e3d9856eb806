--------------------------- MODULE RegionInvariant ---------------------------
(***************************************************************************)
(* The inductive invariant of Region for careful clients.  Its heart is    *)
(* the live count of a node: it is the number of elements whose object has *)
(* not been uncounted (CountOK), so the node leaves the registry only when *)
(* no element of it is in use, and a handle of an object still finds the   *)
(* node it was given out for.                                              *)
(***************************************************************************)
EXTENDS Region

\* The node of a handle in use is in the registry.
Tracked(n) == blockBase[n] # Null /\ state[n] # "Dead"

PlacePoints  == {"place", "insert", "giveBack"}
\* The thread has moved its node to Retiring, and not back yet.
RetirePoints == {"uncount", "invalidate", "destruct", "poison", "end"}
LockPoints   == RetirePoints \union {"unlock", "unlockLast"}
\* The object of the thread's handle is alive; its shadow bits are not set.
AlivePoints  == {"begin", "classify", "report", "uncount", "invalidate", "destruct"}
GonePoints   == {"poison", "end", "unlock", "unlockLast"}
UsePoints    == {"new"} \union AlivePoints \union GonePoints

\* The pool is filled in order, and a node never loses its base.
NodesOK ==
  \A n \in Node :
    /\ n < nodeCursor <=> state[n] # "Empty"
    /\ n < nodeCursor <=> blockBase[n] # Null
    /\ n < nodeCursor => generation[n] > 0
    /\ n >= nodeCursor => dtorLock[n] = Null /\ size[n] = 0
    /\ \A i \in Element : object[n][i] # "none" <=> Given(n, i)

\* At most one node tracks a base.
OneTracked ==
  \A m, n \in Node :
    Tracked(m) /\ Tracked(n) /\ blockBase[m] = blockBase[n] => m = n

\* One of the generations of a base is the greatest.
GenerationsOK ==
  \A b \in Blocks :
    \/ \A n \in Node : blockBase[n] # b
    \/ \E n \in Node :
         /\ blockBase[n] = b
         /\ \A m \in Node : blockBase[m] = b => generation[m] <= generation[n]

\* What a thread's locals hold at each of its control points.
LocalsOK ==
  \A t \in Clients :
    /\ pc[t] \in PlacePoints \union {"access"} => blk[t] \in Blocks /\ len[t] > 0
    /\ pc[t] \notin UsePoints => node[t] = Null /\ idx[t] = Null
    /\ pc[t] \in UsePoints =>
         node[t] \in Node /\ idx[t] \in Element /\ Given(node[t], idx[t])
    /\ pc[t] \in LockPoints => retiring[t] = node[t]

\* Careful clients: an element is in the hands of one thread at a time.
Exclusive ==
  \A t, u \in Clients : node[t] # Null /\ node[t] = node[u] /\ idx[t] = idx[u] => t = u

\* What the element in a thread's hands holds.
ObjectsOK ==
  \A t \in Clients :
    /\ pc[t] = "new" => object[node[t]][idx[t]] = "raw"
    /\ pc[t] \in AlivePoints => object[node[t]][idx[t]] = "alive"
    /\ pc[t] \in GonePoints => object[node[t]][idx[t]] = "gone"

\* A locked node belongs to one destroy, and is Retiring for most of it.
LockOK ==
  /\ \A t \in Clients :
       /\ pc[t] \in LockPoints => dtorLock[node[t]] = t
       /\ pc[t] \in RetirePoints => state[node[t]] = "Retiring"
       /\ pc[t] = "unlock" => state[node[t]] = "Live"
       /\ pc[t] = "unlockLast" => state[node[t]] = "Quarantine"
  /\ \A n \in Node :
       /\ dtorLock[n] # Null => node[dtorLock[n]] = n /\ pc[dtorLock[n]] \in LockPoints
       /\ state[n] = "Retiring" => dtorLock[n] # Null /\ pc[dtorLock[n]] \in RetirePoints

\* The elements of n that the live count stands for.
Counted(n) ==
  {i \in Element :
     /\ object[n][i] \in {"raw", "alive"}
     /\ \A t \in Clients : Uses(t, n, i) => pc[t] \notin {"invalidate", "destruct"}}

\* m_LiveCount counts the objects not destroyed, and the node follows it.
CountOK ==
  /\ \A n \in Node :
       /\ Given(n, 0) => liveCount[n] = Cardinality(Counted(n))
       /\ state[n] = "Live" => liveCount[n] > 0
       /\ state[n] \in {"Quarantine", "Dead"} => liveCount[n] = 0
  /\ \A t \in Clients : pc[t] = "invalidate" => liveCount[node[t]] = 0

\* The access record carries the node's generation as long as an object is left.
AccessOK ==
  \A n \in Node : Given(n, 0) =>
    \/ /\ accessGen[n] = generation[n]
       /\ liveCount[n] > 0 \/ \E t \in Clients : node[t] = n /\ pc[t] = "invalidate"
    \/ accessGen[n] = 0 /\ liveCount[n] = 0

\* A thread about to return a handle finds the node it has inserted.
InsertedOK ==
  \A t \in Clients : pc[t] = "access" =>
    \E n \in Node :
      /\ blockBase[n] = blk[t] /\ state[n] = "Live" /\ threadID[n] = t
      /\ liveCount[n] = len[t] /\ size[n] = 0

\* The shadow bits of a payload are set before its handle is out.
PayloadShadow ==
  \A t \in Clients :
    pc[t] \in {"insert", "access"} => \A i \in Payload(t) : shadow[blk[t]][i] = "set"

\* Those of an element in a thread's hands are as its last call left them.
HandsShadow ==
  \A t \in Clients :
    /\ pc[t] \in {"new"} \union AlivePoints \union {"poison"} =>
         shadow[blockBase[node[t]]][idx[t]] \in {"clear", "unsure"}
    /\ pc[t] \in {"end", "unlock", "unlockLast"} =>
         shadow[blockBase[node[t]]][idx[t]] \in {"set", "unsure"}

\* Those of all other elements tell what became of their objects.
RestShadow ==
  \A n \in Node, i \in Element :
    Given(n, i) /\ Tracked(n) /\ Untouched(n, i) =>
      shadow[blockBase[n]][i] \in Marks(n, i)

Placed(b) == \E t \in Clients : Allocates(t, b)
Held(b)   == \E n \in Node : Tracked(n) /\ blockBase[n] = b

\* Every block is in one hand.
HandsOK ==
  /\ \A b \in Blocks : b \in free \/ b = flushed \/ Placed(b) \/ Held(b)
  /\ \A b \in Blocks : Placed(b) => b \notin free /\ b # flushed /\ ~ Held(b)
  /\ \A b \in Blocks : Held(b) => b \notin free /\ b # flushed
  /\ flushed \notin free
  /\ \A b \in Blocks, t, u \in Clients : Allocates(t, b) /\ Allocates(u, b) => t = u

\* It is in the quarantine from the last unlock of its node to the flush that
\* retires the node.
QuarantineOK ==
  /\ \A b \in quarantine : \E n \in Node : blockBase[n] = b /\ state[n] = "Quarantine"
  /\ \A t \in Clients : pc[t] = "unlockLast" => blockBase[node[t]] \notin quarantine

\* A thread that was refused the only object of a block is a foreign one.
RefusedOK ==
  \A t \in Clients :
    /\ pc[t] \in {"classify", "report"} /\ size[node[t]] = 1 => Foreign(t, node[t])
    /\ pc[t] = "report" /\ size[node[t]] = 1 => kind[t] = "ThreadOwnership"

\* The inductive invariant.
RegionInv ==
  /\ TypeOK
  /\ NodesOK
  /\ OneTracked
  /\ GenerationsOK
  /\ LocalsOK
  /\ Exclusive
  /\ ObjectsOK
  /\ LockOK
  /\ CountOK
  /\ AccessOK
  /\ InsertedOK
  /\ PayloadShadow
  /\ HandsShadow
  /\ RestShadow
  /\ HandsOK
  /\ QuarantineOK
  /\ RefusedOK
=============================================================================

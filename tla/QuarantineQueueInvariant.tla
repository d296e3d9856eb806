---------------------- MODULE QuarantineQueueInvariant ----------------------
(***************************************************************************)
(* The inductive invariant of QuarantineQueue.  Its heart is the window    *)
(* head .. head + Capacity - 1: within it tickets and slots correspond one *)
(* to one, and every published slot and every writing producer has its     *)
(* ticket there.                                                           *)
(***************************************************************************)
EXTENDS QuarantineQueue

InWindow(k) == head <= k /\ k < tail /\ k < head + Capacity

\* The control points under m_FlushLock.
LockedPoints == {"look", "load", "age", "retire", "stats", "clear", "advance", "unlock"}

LockOK == \A f \in Flushers : pc[f] \in LockedPoints <=> flushLock = f

\* A flush that has looked found a claimed front; one that has seen m_BlockBase
\* still sees it until it clears the slot itself.
FlushOK ==
  \A f \in Flushers :
    /\ pc[f] \in {"load", "age", "retire", "stats", "clear", "advance"} => head < tail
    /\ Works(f) => blockBase[Front] # Null
    /\ pc[f] = "advance" =>
         /\ blockBase[Front] = Null
         /\ \A p \in Producers : Pending(p) => ticket[p] # head

\* Tickets are claimed once, and a producer that writes is inside the window.
TicketOK ==
  /\ \A p \in Producers : pc[p] # "idle" => block[p] \in Blocks
  /\ \A p \in Producers : Pending(p) => head <= ticket[p] /\ ticket[p] < tail
  /\ \A p \in Producers : Writes(p) => ticket[p] < head + Capacity
  /\ \A p, q \in Producers : Pending(p) /\ Pending(q) /\ ticket[p] = ticket[q] => p = q

\* A published slot holds the entry of a ticket in the window that nobody is
\* still writing, and the fields that go with its block.
SlotOK ==
  /\ \A i \in Index : blockBase[i] # Null =>
       /\ \E k \in head .. tail : InWindow(k) /\ Slot(k) = i
                         /\ \A p \in Producers : Pending(p) => ticket[p] # k
       /\ owner[i] = RegionOf[blockBase[i]]
  /\ \A p \in Producers : pc[p] = "publish" =>
       owner[Slot(ticket[p])] = RegionOf[block[p]]

\* The inductive invariant.
RingInv ==
  /\ TypeOK
  /\ head <= tail
  /\ LockOK
  /\ FlushOK
  /\ TicketOK
  /\ SlotOK
  /\ TicketsAccounted
-----------------------------------------------------------------------------
(* m_QuarantinedBlocks *)

\* What the counter is to count, and the threads that have still to do so or
\* have already done it.
Published == {i \in Index : blockBase[i] # Null}
Counting  == {p \in Producers : pc[p] = "count"}
Counted   == {f \in Flushers : pc[f] = "clear"}

\* Inductive together with RingInv.
CountOK ==
  /\ IsFiniteSet(Counting) /\ IsFiniteSet(Counted)
  /\ quarantined = Cardinality(Published) - Cardinality(Counting) - Cardinality(Counted)
=============================================================================

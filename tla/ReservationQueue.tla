-------------------------- MODULE ReservationQueue --------------------------
(***************************************************************************)
(* What the quarantine ring promises its callers: a queue of blocks in the *)
(* order of their reservations, in which an entry is taken only from the   *)
(* front and only once its owner has completed it.                         *)
(***************************************************************************)
EXTENDS Naturals, Sequences

CONSTANT Blocks             \* block addresses

VARIABLE queue              \* entries [block, ready], oldest first

Init == queue = <<>>

\* enqueue has claimed its place ...
Reserve(b) == queue' = Append(queue, [block |-> b, ready |-> FALSE])

\* ... and has published the entry.
Complete(i) ==
  /\ ~ queue[i].ready
  /\ queue' = [queue EXCEPT ![i].ready = TRUE]

\* A flush retires the oldest block.
Retire ==
  /\ queue # <<>>
  /\ Head(queue).ready
  /\ queue' = Tail(queue)

Next ==
  \/ \E b \in Blocks : Reserve(b)
  \/ \E i \in DOMAIN queue : Complete(i)
  \/ Retire

Spec == Init /\ [][Next]_queue
=============================================================================

-------------------------- MODULE MCQuarantineQueue --------------------------
(***************************************************************************)
(* Small instances of QuarantineQueue for TLC.                             *)
(***************************************************************************)
EXTENDS QuarantineQueueInvariant, TLC

CONSTANTS p1, p2, p3, r1, r2, b1, b2, b3

MCProducers    == {p1, p2, p3}
MCTwoProducers == {p1, p2}
MCRegions      == {r1, r2}

\* Two blocks of one region and one of another share the ring.
MCBlocks   == {b1, b2, b3}
MCRegionOf == [b \in MCBlocks |-> IF b = b3 THEN r2 ELSE r1]
\* Liveness: each of two regions has a block, so that blocks of one are enqueued
\* while the destructor of the other one flushes.
MCTwoBlocks    == {b1, b2}
MCTwoRegionOf  == [b \in MCTwoBlocks |-> IF b = b1 THEN r1 ELSE r2]
\* One region and two producers: nobody else's destructor forces a flush.
MCOneRegion   == {r1}
MCOneRegionOf == [b \in MCTwoBlocks |-> r1]
MCSymmetry == Permutations(MCProducers) \union Permutations({b1, b2})
=============================================================================

------------------------ MODULE MCAllocationRegistry ------------------------
(***************************************************************************)
(* Small instances of AllocationRegistry for TLC.                          *)
(***************************************************************************)
EXTENDS AllocationRegistryInvariant, TLC

CONSTANTS t1, t2, b1, b2, b3, k1, k2

MCClients == {t1, t2}

\* One bucket whose two bases collide under _index ...
MCBases    == {b1, b2}
MCBucketOf == [b \in MCBases |-> k1]
MCSymmetry == Permutations(MCClients) \union Permutations(MCBases)

\* ... and a second bucket, which takes nodes from the same pool.
MCThreeBases == {b1, b2, b3}
MCTwoBuckets == [b \in MCThreeBases |-> IF b = b3 THEN k2 ELSE k1]
=============================================================================

------------------------------ MODULE MCRegion ------------------------------
(***************************************************************************)
(* Small instances of Region for TLC.                                      *)
(***************************************************************************)
EXTENDS RegionInvariant

CONSTANTS t1, t2, b1, out

MCClients == {t1, t2}
\* One block inside the region is recycled, the other one is outside of it.
MCBlocks  == {b1, out}
=============================================================================

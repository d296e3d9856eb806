--------------------------- MODULE MCKerbecsRuntime ---------------------------
(***************************************************************************)
(* Small instances of KerbecsRuntime for TLC.                              *)
(***************************************************************************)
EXTENDS KerbecsRuntime

CONSTANTS t1, t2, dynamic1, dynamic2, static, b1, b2, bs

MCThreads  == {t1, t2}
MCRegions  == {dynamic1, dynamic2, static}
MCBlocks   == {b1, b2, bs}
MCRegionOf ==
  [b \in MCBlocks |-> IF b = b1 THEN dynamic1 ELSE IF b = b2 THEN dynamic2 ELSE static]
=============================================================================

--------------------------- MODULE MCPartIndexCache ---------------------------
(* Three keys of which two fit together, all of them never and the largest *)
(* only alone, and one that never fits.                                    *)
EXTENDS PartIndexCache, TLC

CONSTANTS k1, k2, k3, k4

MCKey == {k1, k2, k3, k4}
MCWeight == k1 :> 1 @@ k2 :> 2 @@ k3 :> 3 @@ k4 :> 4
=============================================================================

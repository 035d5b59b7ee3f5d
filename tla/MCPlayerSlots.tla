--------------------------- MODULE MCPlayerSlots ---------------------------
(* PlayerSlots for TLC: a player who may connect twice, and another one.   *)
EXTENDS PlayerSlots, TLC

CONSTANTS p1, p2, s1, s2, s3
MCOwner == (s1 :> p1) @@ (s2 :> p1) @@ (s3 :> p2)
=============================================================================

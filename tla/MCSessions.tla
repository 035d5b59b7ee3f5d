----------------------------- MODULE MCSessions -----------------------------
(* Sessions for TLC: calls are interchangeable.                            *)
EXTENDS Sessions, TLC

Symmetry == Permutations(Request)
=============================================================================

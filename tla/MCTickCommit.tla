---------------------------- MODULE MCTickCommit ----------------------------
(* TickCommit for TLC: terms are interchangeable. *)
EXTENDS TickCommit, TLC

Symmetry == Permutations(Term)
=============================================================================

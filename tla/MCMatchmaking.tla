--------------------------- MODULE MCMatchmaking ---------------------------
(* Matchmaking for TLC: two requests of each of two ratings.  Workers,      *)
(* rooms and requests of one rating are interchangeable.                    *)
EXTENDS Matchmaking, TLC

CONSTANTS q1, q2, q3, q4

MCElo == [q \in Request |-> IF q \in {q1, q2} THEN 1200 ELSE 1430]

Symmetry == Permutations(Worker) \cup Permutations(Room)
              \cup Permutations({q1, q2}) \cup Permutations({q3, q4})
=============================================================================

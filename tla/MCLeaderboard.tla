--------------------------- MODULE MCLeaderboard ---------------------------
(* Leaderboard for TLC: two matches that share two players, one of whom    *)
(* plays both with a player who has no row.                                *)
EXTENDS Leaderboard

CONSTANTS m1, m2
MCRoster == [m \in Match |-> IF m = m1 THEN {1, 2} ELSE {1, 2, 3}]
=============================================================================

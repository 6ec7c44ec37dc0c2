--------------------------- MODULE MCMatchRounds ---------------------------
(* MatchRounds on a small instance; the players are interchangeable.        *)
EXTENDS MatchRounds, TLC

Symmetry == Permutations(Player)

=============================================================================

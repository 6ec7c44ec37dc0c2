-------------------------- MODULE MCMatchSettings --------------------------
(* MatchSettings on a small instance; the players are interchangeable.      *)
EXTENDS MatchSettings, TLC

Symmetry == Permutations(Player)

=============================================================================

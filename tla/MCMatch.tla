------------------------------ MODULE MCMatch ------------------------------
(* Match on a small instance; the players are interchangeable.              *)
EXTENDS Match, TLC

Symmetry == Permutations(Player)

=============================================================================

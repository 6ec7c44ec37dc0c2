------------------------------ MODULE MCScrim ------------------------------
(* Scrim on a small instance; players are interchangeable, tasks too.       *)
EXTENDS Scrim, TLC

Symmetry == Permutations(Player) \cup Permutations(Task)

=============================================================================

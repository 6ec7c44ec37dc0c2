-------------------------- MODULE MCMatchReferee --------------------------
(* MatchReferee on a small instance; the players are interchangeable as far *)
(* as they are not staff.                                                   *)
EXTENDS MatchReferee, TLC

Symmetry == Permutations(Player \ Staff)

=============================================================================

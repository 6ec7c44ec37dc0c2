---------------------------- MODULE MCRegistry -----------------------------
(* Registry on a small instance: two users, each with an ordinary session   *)
(* and another one, which for alice is the next login and for bob a         *)
(* tournament client.                                                       *)
EXTENDS Registry, TLC

CONSTANTS alice, bob, a1, a2, b1, bt

MCUserOf == [p \in Session |-> IF p \in {a1, a2} THEN alice ELSE bob]

Symmetry == Permutations(MatchObj) \cup Permutations({a1, a2})

=============================================================================

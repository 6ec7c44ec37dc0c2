----------------------------- MODULE MCBeatmaps -----------------------------
(* Beatmaps on a small instance.                                            *)
EXTENDS Beatmaps, TLC

Symmetry == Permutations(Id)

=============================================================================

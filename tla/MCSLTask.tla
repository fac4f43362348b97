------------------------------ MODULE MCSLTask ------------------------------
(* SLTask on small instances.                                              *)
EXTENDS SLTask, TLC

Symmetry == Permutations(Workers) \cup Permutations(Posters)
=============================================================================

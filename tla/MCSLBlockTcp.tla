---------------------------- MODULE MCSLBlockTcp ----------------------------
(* SLBlockTcp on small instances.  The threads are model values that       *)
(* nothing but their identity tells apart.                                 *)
EXTENDS SLBlockTcp, TLC

Symmetry == Permutations(Threads)
=============================================================================

------------------------------- MODULE MCPools -------------------------------
(* Pools on small instances.                                               *)
EXTENDS Pools

Symmetry == Permutations(Users)
=============================================================================

-------------------------- MODULE MCSLMessageQueue --------------------------
(* SLMessageQueue on small instances: blocks and readers are alike.        *)
EXTENDS SLMessageQueue, TLC

Symmetry == Permutations(Addrs) \cup Permutations(Readers)
=============================================================================

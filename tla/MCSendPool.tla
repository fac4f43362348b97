----------------------------- MODULE MCSendPool -----------------------------
(* SendPool on small instances.                                            *)
EXTENDS SendPool

Symmetry == Permutations(Senders)
=============================================================================

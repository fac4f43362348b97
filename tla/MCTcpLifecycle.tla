--------------------------- MODULE MCTcpLifecycle ---------------------------
(* TcpLifecycle on small instances: workers are alike, and so are blocks.  *)
EXTENDS TcpLifecycle, TLC

Symmetry == Permutations(Workers) \cup Permutations(Sessions)
=============================================================================

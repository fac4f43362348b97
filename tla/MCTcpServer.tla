---------------------------- MODULE MCTcpServer ----------------------------
(* TcpServer on small instances.  Handles, addresses and threads are model *)
(* values that nothing but their identity tells apart.                     *)
EXTENDS TcpServer

Symmetry ==
  Permutations(Sockets) \cup Permutations(Sessions)
    \cup Permutations(Workers) \cup Permutations(Apps)
=============================================================================

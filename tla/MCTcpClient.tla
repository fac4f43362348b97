---------------------------- MODULE MCTcpClient ----------------------------
(* TcpClient on small instances.                                           *)
EXTENDS TcpClient
=============================================================================

--------------------------- MODULE MCSLTcpSession ---------------------------
(* SLTcpSession on small instances.                                        *)
EXTENDS SLTcpSession
=============================================================================

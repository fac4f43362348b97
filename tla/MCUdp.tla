------------------------------- MODULE MCUdp -------------------------------
(* Udp on small instances.                                                 *)
EXTENDS Udp
=============================================================================

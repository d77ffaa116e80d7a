----------------------------- MODULE MCUdpServer -----------------------------
(* UdpServer on small sets. *)
EXTENDS UdpServer
=============================================================================

----------------------------- MODULE MCTcpServer -----------------------------
(* TcpServer on small sets. *)
EXTENDS TcpServer

=============================================================================

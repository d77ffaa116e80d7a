---------------------------- MODULE MCTcpClient ------------------------------
(* TcpClient on small constants. *)
EXTENDS TcpClient

=============================================================================

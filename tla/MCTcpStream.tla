---------------------------- MODULE MCTcpStream ------------------------------
(* TcpStream on small sets. *)
EXTENDS TcpStream

=============================================================================

---------------------------- MODULE MCConnections ----------------------------
(* Connections on two or three sockets of two players. *)
EXTENDS Connections
=============================================================================

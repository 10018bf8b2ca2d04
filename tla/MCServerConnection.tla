------------------------- MODULE MCServerConnection -------------------------
(* A write and a read on one connection.                                     *)
EXTENDS ServerConnection
=============================================================================

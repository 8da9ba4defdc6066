------------------------------ MODULE MCRmqRpc ------------------------------
(* RmqRpc for TLC. *)
EXTENDS RmqRpc
=============================================================================

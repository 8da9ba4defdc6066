--------------------------- MODULE MCAppLifecycle ---------------------------
(* AppLifecycle for TLC. *)
EXTENDS AppLifecycle
=============================================================================

----------------------------- MODULE MCVccSource -----------------------------
(* Small instances of VccSource. *)
EXTENDS VccSource
=============================================================================

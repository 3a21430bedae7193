----------------------------- MODULE MCVccHooks -----------------------------
(* Small instances of VccHooks. *)
EXTENDS VccHooks
CONSTANT s1
OneSession == {s1}
=============================================================================

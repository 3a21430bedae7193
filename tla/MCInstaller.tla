----------------------------- MODULE MCInstaller -----------------------------
(* Installer with an interrupt between the commit of the configuration and its end. *)
EXTENDS Installer
==============================================================================

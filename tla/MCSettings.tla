---------------------------- MODULE MCSettings ----------------------------
(* Settings with a choice of options for TLC. *)
EXTENDS Settings
============================================================================

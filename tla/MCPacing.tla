----------------------------- MODULE MCPacing -----------------------------
(* Pacing for TLC. *)
EXTENDS Pacing
============================================================================

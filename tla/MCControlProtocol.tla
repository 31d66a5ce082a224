------------------------- MODULE MCControlProtocol -------------------------
(* Instances of ControlProtocol for TLC.                                   *)
EXTENDS ControlProtocol
=============================================================================

------------------------------ MODULE MCFraming ------------------------------
(* Instances of Framing for TLC.                                           *)
EXTENDS Framing

\* A state and two documents; documents around a state; one over max_size.
MCScripts == {<<0, 2, 0>>, <<4, 0, 1>>, <<5, 0>>}
=============================================================================

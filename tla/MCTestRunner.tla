--------------------------- MODULE MCTestRunner ---------------------------
(* Instances of TestRunner for TLC.                                        *)
EXTENDS TestRunner
=============================================================================

---------------------------- MODULE MCStreamSetup ----------------------------
(* Instances of StreamSetup for TLC.                                       *)
EXTENDS StreamSetup

Plain(proto, mode) ==
  [proto |-> proto, mode |-> mode, bind_address |-> FALSE, bind_port |-> FALSE,
   bind_dev |-> FALSE, sockopts |-> FALSE, small_bufs |-> FALSE, tos |-> FALSE,
   diskfile |-> FALSE]

\* Every mode, both protocols, and each option in a test that uses it.
MCOptions ==
  {Plain("tcp", "BIDIRECTIONAL"), Plain("udp", "BIDIRECTIONAL"),
   [Plain("tcp", "SENDER") EXCEPT !.bind_address = TRUE, !.bind_dev = TRUE,
                                  !.sockopts = TRUE, !.tos = TRUE, !.diskfile = TRUE],
   [Plain("udp", "RECEIVER") EXCEPT !.bind_port = TRUE, !.small_bufs = TRUE]}

\* A plain TCP test.
PlainOptions == {Plain("tcp", "SENDER")}
=============================================================================

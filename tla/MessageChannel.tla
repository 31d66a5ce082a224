---------------------------- MODULE MessageChannel ----------------------------
(***************************************************************************)
(* What one direction of the control connection promises to the protocol:  *)
(* the messages of `script' are taken by the reader whole and in order,    *)
(* none twice and none made up, until either side gives up, up to the      *)
(* first one that the writer has torn.                                     *)
(***************************************************************************)
EXTENDS Naturals, Sequences

CONSTANT Scripts  \* the sequences of messages the writer may have to send

VARIABLES
  script,   \* the messages to send
  sent,     \* how many the writer has begun to send
  cut,      \* those that the writer has torn
  taken,    \* the messages the reader has taken, by number
  over      \* has the reader given up?

Init == script \in Scripts /\ sent = 0 /\ cut = {} /\ taken = <<>> /\ over = FALSE

Send ==
  /\ sent < Len(script)
  /\ sent' = sent + 1
  /\ UNCHANGED <<script, cut, taken, over>>

\* The message that is being sent loses its frame.
Tear ==
  /\ cut' = cut \cup {sent}
  /\ UNCHANGED <<script, sent, taken, over>>

\* Neither the next message nor one before it was torn.
Intact == \A m \in cut : Len(taken) + 1 < m

Take ==
  /\ ~over /\ Intact /\ Len(taken) < sent
  /\ taken' = Append(taken, Len(taken) + 1)
  /\ UNCHANGED <<script, sent, cut, over>>

\* From a torn message on anything may be taken.
TakeTorn ==
  /\ ~over /\ ~Intact
  /\ Len(taken') = Len(taken) + 1 /\ SubSeq(taken', 1, Len(taken)) = taken
  /\ UNCHANGED <<script, sent, cut, over>>

GiveUp ==
  /\ ~over /\ over' = TRUE
  /\ UNCHANGED <<script, sent, cut, taken>>

Next == Send \/ Tear \/ Take \/ TakeTorn \/ GiveUp

Spec == Init /\ [][Next]_<<script, sent, cut, taken, over>>
=============================================================================

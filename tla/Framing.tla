------------------------------- MODULE Framing -------------------------------
(***************************************************************************)
(* One direction of the control connection: state bytes and JSON documents *)
(* written with Nwrite and JSON_write, carried by a TCP byte stream, read  *)
(* with Nread and JSON_read.  A write may be cut short by a signal or fail;*)
(* bytes arrive in pieces and late; the writer may close at any time.      *)
(*                                                                         *)
(* A byte is known by the message, part and position it was written for.   *)
(* Both sides agree on the order of messages (ControlProtocol), so the     *)
(* reader knows whether a state or a document comes next.                  *)
(***************************************************************************)
EXTENDS Integers, Sequences, FiniteSets, SequencesExt

CONSTANTS
  Scripts,        \* sequences of messages: 0 is a state byte, n a document of n bytes
  HeaderLen,      \* bytes of the length in front of a document
  MaxSize,        \* JSON_read's max_size, 0 for no limit
  ReadTimeout,    \* nread_read_timeout
  OverallTimeout, \* nread_overall_timeout
  MaxLen,         \* the largest length a damaged header can be read as
  MaxTime         \* bound on the time spent in one Nread

ASSUME FramingAssumption ==
  /\ \A m \in Scripts : m \in Seq(Nat)
  /\ {HeaderLen, ReadTimeout, OverallTimeout, MaxLen} \subseteq Nat \ {0}
  /\ MaxSize \in Nat /\ MaxTime \in Nat

VARIABLES
  script,   \* the messages to send
  writer,   \* [item, part, off]: the Nwrite in progress and what it has written
  cut,      \* the documents whose length was cut short
  wire,     \* the bytes in flight
  open,     \* the writer has not closed the connection
  reader,   \* [item, part, want, buf]: the Nread in progress
  waited,   \* time since select was last called
  since,    \* time since the first short read, -1 before it (ftimeout)
  total,    \* time since Nread was called
  verdict,  \* "reading", "done" or "failed"
  got       \* the messages the reader took, 0 for one nobody sent

vars == <<script, writer, cut, wire, open, reader, waited, since, total, verdict, got>>

-----------------------------------------------------------------------------
IsState(i) == script[i] = 0
FirstPart(i) == IF i <= Len(script) /\ IsState(i) THEN "state" ELSE "header"
Size(i, part) == CASE part = "state" -> 1 [] part = "header" -> HeaderLen [] OTHER -> script[i]
Bytes(i, part, from, to) == [k \in 1..(to - from + 1) |-> <<i, part, from + k - 1>>]

\* The next Nwrite: JSON_write sends the length and then the document.
After(w) ==
  IF w.part = "header" THEN [item |-> w.item, part |-> "body", off |-> 0]
  ELSE [item |-> w.item + 1, part |-> FirstPart(w.item + 1), off |-> 0]

Init ==
  /\ script \in Scripts
  /\ writer = [item |-> 1, part |-> FirstPart(1), off |-> 0]
  /\ cut = {} /\ wire = <<>> /\ open = TRUE
  /\ reader = [item |-> 1, part |-> FirstPart(1), want |-> Size(1, FirstPart(1)), buf |-> <<>>]
  /\ waited = 0 /\ since = -1 /\ total = 0
  /\ verdict = "reading" /\ got = <<>>

-----------------------------------------------------------------------------
(***************************************************************************)
(* The writer.                                                             *)
(***************************************************************************)
Writing == open /\ writer.item <= Len(script)

Nwrite ==
  /\ Writing
  /\ LET size == Size(writer.item, writer.part) IN
     \E n \in 1..(size - writer.off) :
       /\ wire' = wire \o Bytes(writer.item, writer.part, writer.off + 1, writer.off + n)
       /\ writer' = IF writer.off + n = size THEN After(writer)
                    ELSE [writer EXCEPT !.off = @ + n]
  /\ UNCHANGED <<script, cut, open, reader, waited, since, total, verdict, got>>

\* EINTR or EAGAIN after some bytes returns their number, which JSON_write
\* takes for success, for the length as for the document.
Nwrite_cut_short ==
  /\ Writing /\ writer.off > 0
  /\ writer' = After(writer)
  /\ cut' = IF writer.part = "header" THEN cut \cup {writer.item} ELSE cut
  /\ UNCHANGED <<script, wire, open, reader, waited, since, total, verdict, got>>

\* Any other failure is negative: the writer ends the test.  So does a crash.
writer_closes ==
  /\ open
  /\ open' = FALSE
  /\ UNCHANGED <<script, writer, cut, wire, reader, waited, since, total, verdict, got>>

-----------------------------------------------------------------------------
(***************************************************************************)
(* The reader.                                                             *)
(***************************************************************************)
Reading == verdict = "reading"

StartRead(i, part, want) ==
  /\ reader' = [item |-> i, part |-> part, want |-> want, buf |-> <<>>]
  /\ waited' = 0 /\ since' = -1 /\ total' = 0

Fail ==
  /\ verdict' = "failed"
  /\ UNCHANGED <<reader, waited, since, total, got>>

\* The reader takes message m and goes on to the next one.
Took(m) ==
  LET i == reader.item IN
  /\ got' = Append(got, m)
  /\ IF i = Len(script)
     THEN /\ verdict' = "done"
          /\ reader' = [reader EXCEPT !.item = i + 1, !.buf = <<>>]
          /\ UNCHANGED <<waited, since, total>>
     ELSE /\ StartRead(i + 1, FirstPart(i + 1), Size(i + 1, FirstPart(i + 1)))
          /\ UNCHANGED verdict

\* What the bytes of a length read as: anything, unless they are intact.
Lengths(buf) ==
  IF \E i \in DOMAIN script : buf = Bytes(i, "header", 1, HeaderLen)
  THEN {script[buf[1][1]]} ELSE 0..MaxLen

\* A byte of something else may happen to be the number of a state.
States(byte) == IF byte[2] = "state" THEN {byte[1]} ELSE {0, -1}

\* What cJSON_Parse makes of the bytes, -1 for nothing.  It reads one value and
\* ignores what follows it: a document with its end missing is none, and what
\* starts in the middle of one can be a string or a number.
Documents(buf) ==
  LET i == buf[1][1] IN
  CASE buf[1] # <<i, "body", 1>> -> {0, -1}
    [] OTHER -> {IF IsPrefix(Bytes(i, "body", 1, script[i]), buf) THEN i ELSE -1}

\* Mutant: a document over max_size is skipped instead of ending the test.
NreadReturns_skips(buf) ==
  LET rc == Len(buf) IN
  CASE reader.part = "state" ->
         IF rc # 1 THEN Fail
         ELSE \E m \in States(buf[1]) : IF m >= 0 THEN Took(m) ELSE Fail
    [] reader.part = "header" ->
         IF rc # HeaderLen THEN Fail
         ELSE \E hsize \in Lengths(buf) :
                IF hsize > 0 /\ (MaxSize = 0 \/ hsize <= MaxSize)
                THEN StartRead(reader.item, "body", hsize) /\ UNCHANGED <<verdict, got>>
                ELSE Took(reader.item)
    [] OTHER ->
         IF rc # reader.want THEN Fail
         ELSE \E m \in Documents(buf) : IF m >= 0 THEN Took(m) ELSE Fail

\* The result of Nread: all it was asked for, or what it has at a timeout, at
\* the end of the connection or after an error.
NreadReturns(buf) ==
  LET rc == Len(buf) IN
  CASE reader.part = "state" ->
         IF rc # 1 THEN Fail
         ELSE \E m \in States(buf[1]) : IF m >= 0 THEN Took(m) ELSE Fail
    [] reader.part = "header" ->
         IF rc # HeaderLen THEN Fail
         ELSE \E hsize \in Lengths(buf) :
                IF hsize > 0 /\ (MaxSize = 0 \/ hsize <= MaxSize)
                THEN StartRead(reader.item, "body", hsize) /\ UNCHANGED <<verdict, got>>
                ELSE Fail
    [] OTHER ->
         IF rc # reader.want THEN Fail
         ELSE \E m \in Documents(buf) : IF m >= 0 THEN Took(m) ELSE Fail

\* Mutant: the overall timeout is not looked at.
Nrecv_patient ==
  /\ Reading /\ wire # <<>>
  /\ \E n \in 1..Len(wire) :
       LET buf == reader.buf \o SubSeq(wire, 1, n) IN
       /\ Len(buf) <= reader.want
       /\ wire' = SubSeq(wire, n + 1, Len(wire))
       /\ IF Len(buf) = reader.want THEN NreadReturns(buf)
          ELSE /\ reader' = [reader EXCEPT !.buf = buf]
               /\ waited' = 0 /\ since' = IF since = -1 THEN 0 ELSE since
               /\ UNCHANGED <<total, verdict, got>>
  /\ UNCHANGED <<script, writer, cut, open>>

\* read(2) returns some of the bytes that have arrived.  A short one starts
\* the overall timeout, and ends Nread when that has passed.
Nrecv ==
  /\ Reading /\ wire # <<>>
  /\ \E n \in 1..Len(wire) :
       LET buf == reader.buf \o SubSeq(wire, 1, n) IN
       /\ Len(buf) <= reader.want
       /\ wire' = SubSeq(wire, n + 1, Len(wire))
       /\ IF Len(buf) = reader.want \/ since > OverallTimeout
          THEN NreadReturns(buf)
          ELSE /\ reader' = [reader EXCEPT !.buf = buf]
               /\ waited' = 0 /\ since' = IF since = -1 THEN 0 ELSE since
               /\ UNCHANGED <<total, verdict, got>>
  /\ UNCHANGED <<script, writer, cut, open>>

\* Mutant: select waits without a timeout.
Nrecv_ends_at_close ==
  /\ Reading /\ wire = <<>> /\ ~open
  /\ NreadReturns(reader.buf)
  /\ UNCHANGED <<script, writer, cut, wire, open>>

\* select times out, or read returns 0 because the connection has ended.
Nrecv_ends ==
  /\ Reading /\ wire = <<>>
  /\ waited >= ReadTimeout \/ ~open
  /\ NreadReturns(reader.buf)
  /\ UNCHANGED <<script, writer, cut, wire, open>>

\* select or read fails.
Nrecv_error ==
  /\ Reading
  /\ Fail
  /\ UNCHANGED <<script, writer, cut, wire, open>>

\* Time passes while nothing has arrived.
tick ==
  /\ Reading /\ wire = <<>> /\ open /\ waited < ReadTimeout /\ total < MaxTime
  /\ waited' = waited + 1 /\ total' = total + 1
  /\ since' = IF since = -1 THEN -1 ELSE since + 1
  /\ UNCHANGED <<script, writer, cut, wire, open, reader, verdict, got>>

Next ==
  \/ Nwrite \/ Nwrite_cut_short \/ writer_closes
  \/ Nrecv \/ Nrecv_ends \/ Nrecv_error \/ tick

\* The reader's thread runs and the clock goes on; the writer may stop.
Spec == Init /\ [][Next]_vars /\ WF_vars(Nrecv \/ Nrecv_ends) /\ WF_vars(tick)

-----------------------------------------------------------------------------
Parts == {"state", "header", "body"}
Byte == Nat \X Parts \X Nat

TypeOK ==
  /\ script \in Scripts
  /\ writer \in [item : Nat \ {0}, part : Parts, off : Nat]
  /\ cut \in SUBSET Nat
  /\ wire \in Seq(Byte) /\ open \in BOOLEAN
  /\ reader \in [item : Nat, part : Parts, want : Nat \ {0}, buf : Seq(Byte)]
  /\ waited \in 0..ReadTimeout /\ since \in -1..MaxTime /\ total \in 0..MaxTime
  /\ verdict \in {"reading", "done", "failed"}
  /\ got \in Seq(Nat)

(***************************************************************************)
(* JSON_write, JSON_read, Nwrite and Nread implement MessageChannel: a     *)
(* message counts as sent once its first byte was written.                 *)
(***************************************************************************)
Channel == INSTANCE MessageChannel WITH
  sent <- IF writer.off > 0 \/ writer.part = "body" THEN writer.item ELSE writer.item - 1,
  taken <- got,
  over <- verdict = "failed"

\* JSON_write takes a cut for success.  If it cut a document short, no damaged,
\* repeated or reordered message reaches the protocol: what follows is never taken
\* for a state or a document.  If it cut the length of a document short, this still
\* holds of all the messages before that document, and of no other.
WholeMessages == Channel!Spec

\* One Nread blocks the single-threaded main loop no longer than two read
\* timeouts and the overall timeout, however slowly the bytes come.
ReadsAreBounded == total <= OverallTimeout + 2 * ReadTimeout

\* The reader takes all messages or gives up: it does not wait for ever.
ReaderEnds == <>(verdict # "reading")
=============================================================================

--------------------------- MODULE SettingsProofs ---------------------------
(***************************************************************************)
(* The settings of a test are consistent: the mode follows from the role,  *)
(* the direction and the protocol, a test has one end condition, and a     *)
(* server that runs a test has the settings of its client, whatever the    *)
(* options, their order and their number, and whatever the earlier clients *)
(* asked for.                                                              *)
(*                                                                         *)
(* The argument follows one struct iperf_test: what every setter keeps     *)
(* (WellFormed), what holds of it among the options of its command line    *)
(* (Parsed), and what a server that waits for a client has not set (Clean).*)
(***************************************************************************)
EXTENDS Settings, FiniteSetTheorems, TLAPS

Pcs == {"options", "refused", "ready", "connected", "sent", "running", "failed"}

DerivedMode(t) ==
    IF t.bidirectional THEN "BIDIRECTIONAL"
    ELSE IF t.role = "none" THEN "RECEIVER"
    ELSE IF (t.role = "c") # t.reverse THEN "SENDER" ELSE "RECEIVER"

DerivedRetransmits(t) == HasRetransmits /\ t.protocol = "tcp" /\ t.mode # "RECEIVER"

\* What every setter keeps of a struct.  iperf_set_test_bidirectional does not look
\* whether the new sender reports retransmissions; a client did send before.
WellFormed(t) ==
    /\ DOMAIN t = Fields
    /\ t.role \in {"none", "c", "s"}
    /\ t.reverse \in BOOLEAN /\ t.bidirectional \in BOOLEAN
    /\ t.protocol \in {"tcp", "udp"}
    /\ ~(t.reverse /\ t.bidirectional)
    /\ t.mode = DerivedMode(t)
    /\ t.role = "c" \/ ~t.bidirectional =>
         t.sender_has_retransmits = DerivedRetransmits(t)
    /\ \A f \in AsFlags : t[f] \in {0, 1}

\* The fields that a server without options of the client has not set, and that
\* iperf_reset_test clears.
Clean == (IfNonzero \cup AsFlags) \ (Lingers \cup {"blksize"})

\* A struct t among the options, fl being the flags raised so far.
Parsed(t, fl) ==
    /\ WellFormed(t)
    /\ t.bidirectional \/ t.reverse \/ t.protocol # "tcp" => "client" \in fl
    /\ "duration" \notin fl => t.duration = DURATION
    /\ "rate" \in fl => "client" \in fl
    /\ "client" \notin fl => \A f \in Clean \ {"rate"} : t[f] = 0

\* The parser is not through, or has refused.
Parsing(p) == pc[p] \in {"options", "refused"}

Types ==
    /\ DOMAIN test = Programs
    /\ DOMAIN flags = Programs
    /\ given \in [Programs -> Nat]
    /\ pc \in [Programs -> Pcs]

Structs ==
    \A p \in Programs :
        /\ WellFormed(test[p])
        /\ pc[p] = "options" => Parsed(test[p], flags[p])
        /\ ~Parsing(p) => /\ test[p].role # "none"
                          /\ test[p].sender_has_retransmits = DerivedRetransmits(test[p])

\* A client program that has parsed nothing yet.
FreshClient ==
    pc["client"] = "options" /\ given["client"] = 0 =>
        test["client"] = iperf_defaults /\ flags["client"] = {}

\* A client goes on only when a server listens.
Waiting ==
    /\ pc["client"] \in {"options", "refused", "ready", "connected", "sent"}
    /\ pc["server"] \in {"options", "refused", "ready", "running", "failed"}
    /\ pc["client"] \in {"ready", "connected", "sent"} =>
         pc["server"] \in {"ready", "running", "failed"} /\ test["server"].role = "s"
    /\ pc["server"] = "ready" /\ test["server"].role = "s" =>
         /\ ~test["server"].reverse /\ ~test["server"].bidirectional
         /\ \A f \in Clean : test["server"][f] = 0

\* What the client has decided before it sends.
Decided ==
    /\ pc["client"] = "ready" /\ test["client"].protocol = "tcp" => test["client"].blksize # 0
    /\ pc["client"] \in {"connected", "sent"} =>
         test["client"].role = "c" /\ test["client"].blksize # 0
    /\ pc["client"] = "sent" /\ pc["server"] = "ready" =>
         parameters = Document(test["client"])
    /\ pc["server"] = "running" => pc["client"] = "sent"

SettingsInv ==
    /\ Types /\ Structs /\ FreshClient /\ Waiting /\ Decided
    /\ SettingsAgree
    /\ OneEndCondition

-----------------------------------------------------------------------------
(* The tables and the setters.                                             *)

\* Every option of the tables has its field; those of the client among them.
LEMMA NumericOptions ==
  \A o \in DOMAIN NumericTable :
    /\ NumericTable[o].field \in
         {"duration", "bytes", "blocks", "omit", "num_streams", "socket_bufsize", "mss", "tos",
          "pacing_timer", "connect_timeout", "idle_timeout", "rcv_timeout"}
    /\ NumericTable[o].field = "duration" <=> o = "t"
    /\ NumericTable[o].side # "client" => NumericTable[o].field \in {"idle_timeout", "rcv_timeout"}
BY DEF NumericTable

\* The same of the options without an argument.
LEMMA SwitchOptions ==
  \A o \in DOMAIN SwitchTable :
    /\ SwitchTable[o].field \in
         {"no_delay", "zerocopy", "repeating_payload", "get_server_output", "dont_fragment",
          "skip_rx_copy", "title", "extra_data", "udp_counters_64bit", "one_off", "daemon",
          "diskfile_name"}
    /\ SwitchTable[o].side # "client" =>
         SwitchTable[o].field \in {"udp_counters_64bit", "one_off", "daemon", "diskfile_name"}
    /\ o # "t"
BY DEF SwitchTable

\* The fields by name.
LEMMA FieldNames ==
  Fields = {"duration", "bytes", "blocks", "omit", "num_streams", "socket_bufsize", "mss", "tos",
            "pacing_timer", "connect_timeout", "idle_timeout", "rcv_timeout",
            "no_delay", "zerocopy", "repeating_payload", "get_server_output", "dont_fragment",
            "skip_rx_copy", "title", "extra_data", "udp_counters_64bit", "one_off", "daemon",
            "diskfile_name",
            "role", "mode", "reverse", "bidirectional", "protocol", "sender_has_retransmits",
            "blksize", "rate", "burst", "stats_interval", "bitrate_limit",
            "bitrate_limit_interval", "bitrate_limit_stats_per_interval"}
<1>1. NumericFields = {"duration", "bytes", "blocks", "omit", "num_streams", "socket_bufsize",
                       "mss", "tos", "pacing_timer", "connect_timeout", "idle_timeout",
                       "rcv_timeout"}
  BY DEF NumericTable, NumericFields
<1>2. SwitchFields = {"no_delay", "zerocopy", "repeating_payload", "get_server_output",
                      "dont_fragment", "skip_rx_copy", "title", "extra_data",
                      "udp_counters_64bit", "one_off", "daemon", "diskfile_name"}
  BY DEF SwitchTable, SwitchFields
<1> QED BY <1>1, <1>2 DEF Fields, OtherFields

\* The document holds fields of the struct, among them the clean ones.
LEMMA ExchangedFields == Exchanged \subseteq Fields /\ Clean \subseteq Exchanged
BY FieldNames DEF Exchanged, Always, IfNonzero, AsFlags, Clean

\* The fields of the role, the direction and the protocol: no number is among them.
Shape == {"role", "mode", "reverse", "bidirectional", "protocol", "sender_has_retransmits"}

\* The document holds nothing of the shape as a number.
LEMMA ShapeFields == Shape \subseteq Fields /\ Shape \cap Exchanged = {}
BY FieldNames DEF Shape, Exchanged, Always, IfNonzero, AsFlags

\* u has the fields of t, those outside S with the values of t.
Keeps(t, u, S) == DOMAIN u = Fields /\ \A f \in Fields \ S : u[f] = t[f]

\* A change of fields that are not of the shape, flags being set to 0 or 1.
LEMMA KeepsWellFormed ==
  ASSUME NEW t, NEW u, WellFormed(t), Keeps(t, u, Fields \ Shape), \A f \in AsFlags : u[f] \in {0, 1}
  PROVE  WellFormed(u)
<1>1. /\ u.role = t.role /\ u.mode = t.mode /\ u.reverse = t.reverse
      /\ u.bidirectional = t.bidirectional /\ u.protocol = t.protocol
      /\ u.sender_has_retransmits = t.sender_has_retransmits
  BY ShapeFields DEF Keeps, Shape
<1>2. DerivedMode(u) = DerivedMode(t) /\ DerivedRetransmits(u) = DerivedRetransmits(t)
  BY <1>1 DEF DerivedMode, DerivedRetransmits
<1> QED BY <1>1, <1>2 DEF WellFormed, Keeps

\* check_sender_has_retransmits changes one field.
LEMMA CheckIs ==
  ASSUME NEW t, DOMAIN t = Fields
  PROVE  /\ Keeps(t, check_sender_has_retransmits(t), {"sender_has_retransmits"})
         /\ check_sender_has_retransmits(t).sender_has_retransmits
              = (t.mode # "RECEIVER" /\ t.protocol = "tcp" /\ HasRetransmits)
BY FieldNames DEF check_sender_has_retransmits, Keeps

\* After the check the retransmissions are right, whatever they were before.
LEMMA CheckedIsDerived ==
  ASSUME NEW t, DOMAIN t = Fields
  PROVE  LET u == check_sender_has_retransmits(t) IN
         /\ Keeps(t, u, {"sender_has_retransmits"})
         /\ u.sender_has_retransmits = DerivedRetransmits(u)
         /\ DerivedMode(u) = DerivedMode(t)
<1> DEFINE u == check_sender_has_retransmits(t)
<1>1. /\ Keeps(t, u, {"sender_has_retransmits"})
      /\ u.sender_has_retransmits = (t.mode # "RECEIVER" /\ t.protocol = "tcp" /\ HasRetransmits)
  BY CheckIs
<1> HIDE DEF u
<1>2. /\ u.role = t.role /\ u.mode = t.mode /\ u.reverse = t.reverse
      /\ u.bidirectional = t.bidirectional /\ u.protocol = t.protocol
  BY <1>1, FieldNames DEF Keeps
<1>3. u.sender_has_retransmits = DerivedRetransmits(u)
  BY <1>1, <1>2 DEF DerivedRetransmits
<1>4. DerivedMode(u) = DerivedMode(t)
  BY <1>2 DEF DerivedMode
<1> QED BY <1>1, <1>3, <1>4 DEF u

\* set_protocol keeps a struct well formed.
LEMMA SetProtocolIs ==
  ASSUME NEW t, WellFormed(t), NEW x \in {"tcp", "udp"}
  PROVE  LET u == set_protocol(t, x) IN
         /\ WellFormed(u)
         /\ u.sender_has_retransmits = DerivedRetransmits(u)
         /\ Keeps(t, u, {"protocol", "sender_has_retransmits"})
         /\ u.protocol = x
<1> DEFINE w == [t EXCEPT !.protocol = x]
           u == set_protocol(t, x)
<1>1. DOMAIN w = Fields /\ w.protocol = x /\ \A f \in Fields \ {"protocol"} : w[f] = t[f]
  BY FieldNames DEF WellFormed
<1>2. u = check_sender_has_retransmits(w)
  BY DEF set_protocol
<1> HIDE DEF w, u
<1>3. /\ Keeps(w, u, {"sender_has_retransmits"})
      /\ u.sender_has_retransmits = DerivedRetransmits(u)
      /\ DerivedMode(u) = DerivedMode(w)
  BY <1>1, <1>2, CheckedIsDerived
<1>4. Keeps(t, u, {"protocol", "sender_has_retransmits"}) /\ u.protocol = x
  BY <1>1, <1>3, FieldNames DEF Keeps
<1>5. /\ u.role = t.role /\ u.mode = t.mode /\ u.reverse = t.reverse
      /\ u.bidirectional = t.bidirectional /\ \A f \in AsFlags : u[f] = t[f]
  BY <1>4, FieldNames DEF Keeps, AsFlags
<1>6. DerivedMode(u) = DerivedMode(t)
  BY <1>5 DEF DerivedMode
<1>7. WellFormed(u)
  BY <1>3, <1>4, <1>5, <1>6 DEF WellFormed, Keeps
<1> QED BY <1>3, <1>4, <1>7 DEF u

\* iperf_set_test_role keeps a struct well formed, whatever the role was.
LEMMA SetRoleIs ==
  ASSUME NEW t, WellFormed(t), NEW x \in {"c", "s"}
  PROVE  LET u == iperf_set_test_role(t, x) IN
         /\ WellFormed(u)
         /\ u.sender_has_retransmits = DerivedRetransmits(u)
         /\ Keeps(t, u, {"role", "mode", "sender_has_retransmits"})
         /\ u.role = x
<1> DEFINE m == IF t.bidirectional /\ ~t.reverse THEN "BIDIRECTIONAL" ELSE Direction(t, x, t.reverse)
           w == [t EXCEPT !.role = x, !.mode = m]
           u == iperf_set_test_role(t, x)
<1> HIDE DEF m
<1>1. /\ DOMAIN w = Fields /\ w.role = x /\ w.mode = m
      /\ \A f \in Fields \ {"role", "mode"} : w[f] = t[f]
  BY FieldNames DEF WellFormed
<1>2. u = check_sender_has_retransmits(w)
  BY DEF iperf_set_test_role, m
<1> HIDE DEF w, u
<1>3. /\ Keeps(w, u, {"sender_has_retransmits"})
      /\ u.sender_has_retransmits = DerivedRetransmits(u)
      /\ DerivedMode(u) = DerivedMode(w)
  BY <1>1, <1>2, CheckedIsDerived
<1>4. Keeps(t, u, {"role", "mode", "sender_has_retransmits"}) /\ u.role = x /\ u.mode = m
  BY <1>1, <1>3, FieldNames DEF Keeps
<1>5. /\ u.reverse = t.reverse /\ u.protocol = t.protocol
      /\ u.bidirectional = t.bidirectional /\ \A f \in AsFlags : u[f] = t[f]
  BY <1>4, FieldNames DEF Keeps, AsFlags
<1>6. u.mode = DerivedMode(u)
  <2>1. CASE t.bidirectional = TRUE
    BY <2>1, <1>4, <1>5 DEF DerivedMode, m, WellFormed
  <2>2. CASE t.bidirectional = FALSE
    <3>1. m = Direction(t, x, t.reverse) /\ x # "none"
      BY <2>2 DEF m
    <3>2. CASE t.reverse = TRUE
      BY <2>2, <3>1, <3>2, <1>4, <1>5 DEF DerivedMode, Direction
    <3>3. CASE t.reverse = FALSE
      BY <2>2, <3>1, <3>3, <1>4, <1>5 DEF DerivedMode, Direction
    <3> QED BY <3>2, <3>3 DEF WellFormed
  <2> QED BY <2>1, <2>2 DEF WellFormed
<1>7. WellFormed(u)
  BY <1>3, <1>4, <1>5, <1>6 DEF WellFormed, Keeps
<1> QED BY <1>3, <1>4, <1>7 DEF u

\* iperf_set_test_reverse does so unless the test is bidirectional.
LEMMA SetReverseIs ==
  ASSUME NEW t, WellFormed(t), ~t.bidirectional
  PROVE  LET u == iperf_set_test_reverse(t, TRUE) IN
         /\ WellFormed(u)
         /\ u.sender_has_retransmits = DerivedRetransmits(u)
         /\ Keeps(t, u, {"reverse", "mode", "sender_has_retransmits"})
         /\ u.reverse = TRUE
<1> DEFINE m == Direction(t, t.role, TRUE)
           w == [t EXCEPT !.reverse = TRUE, !.mode = m]
           u == iperf_set_test_reverse(t, TRUE)
<1> HIDE DEF m
<1>1. /\ DOMAIN w = Fields /\ w.reverse = TRUE /\ w.mode = m
      /\ \A f \in Fields \ {"reverse", "mode"} : w[f] = t[f]
  BY FieldNames DEF WellFormed
<1>2. u = check_sender_has_retransmits(w)
  BY DEF iperf_set_test_reverse, m
<1> HIDE DEF w, u
<1>3. /\ Keeps(w, u, {"sender_has_retransmits"})
      /\ u.sender_has_retransmits = DerivedRetransmits(u)
      /\ DerivedMode(u) = DerivedMode(w)
  BY <1>1, <1>2, CheckedIsDerived
<1>4. Keeps(t, u, {"reverse", "mode", "sender_has_retransmits"}) /\ u.reverse = TRUE /\ u.mode = m
  BY <1>1, <1>3, FieldNames DEF Keeps
<1>5. /\ u.role = t.role /\ u.protocol = t.protocol
      /\ u.bidirectional = t.bidirectional /\ \A f \in AsFlags : u[f] = t[f]
  BY <1>4, FieldNames DEF Keeps, AsFlags
<1>6. u.mode = DerivedMode(u)
  <2>1. CASE t.role = "none"
    <3>1. t.mode = "RECEIVER"
      BY <2>1 DEF WellFormed, DerivedMode
    <3>2. m = t.mode
      BY <2>1 DEF m, Direction
    <3> QED BY <2>1, <3>1, <3>2, <1>4, <1>5 DEF DerivedMode
  <2>2. CASE t.role = "c"
    BY <2>2, <1>4, <1>5 DEF DerivedMode, m, Direction
  <2>3. CASE t.role = "s"
    BY <2>3, <1>4, <1>5 DEF DerivedMode, m, Direction
  <2> QED BY <2>1, <2>2, <2>3 DEF WellFormed
<1>7. WellFormed(u)
  BY <1>3, <1>4, <1>5, <1>6 DEF WellFormed, Keeps
<1> QED BY <1>3, <1>4, <1>7 DEF u

\* A client was a sender before, so that its retransmissions are right.
LEMMA SetBidirectionalIs ==
  ASSUME NEW t, WellFormed(t), ~t.reverse
  PROVE  LET u == iperf_set_test_bidirectional(t) IN
         /\ WellFormed(u)
         /\ Keeps(t, u, {"bidirectional", "mode"})
         /\ u.bidirectional = TRUE
<1> DEFINE u == iperf_set_test_bidirectional(t)
<1>1. /\ DOMAIN u = Fields /\ u.bidirectional = TRUE /\ u.mode = "BIDIRECTIONAL"
      /\ \A f \in Fields \ {"bidirectional", "mode"} : u[f] = t[f]
  BY FieldNames DEF WellFormed, iperf_set_test_bidirectional
<1> HIDE DEF u
<1>2. /\ u.role = t.role /\ u.protocol = t.protocol /\ u.reverse = t.reverse
      /\ u.sender_has_retransmits = t.sender_has_retransmits /\ \A f \in AsFlags : u[f] = t[f]
  BY <1>1, FieldNames DEF AsFlags
<1>3. u.mode = DerivedMode(u)
  BY <1>1 DEF DerivedMode
<1>4. u.role = "c" => u.sender_has_retransmits = DerivedRetransmits(u)
  BY <1>1, <1>2 DEF WellFormed, DerivedRetransmits, DerivedMode
<1>5. WellFormed(u)
  BY <1>1, <1>2, <1>3, <1>4 DEF WellFormed
<1> QED BY <1>1, <1>5 DEF u, Keeps

-----------------------------------------------------------------------------
(* The options.                                                            *)

\* u is t with the fields of S changed and the flags of fl grown to gl, in the
\* way an option may change them.
Follows(t, u, fl, gl, S) ==
    /\ WellFormed(u) /\ Keeps(t, u, S) /\ fl \subseteq gl
    /\ "client" \in gl \/ S \cap (Clean \cup {"bidirectional", "reverse", "protocol"}) = {}
    /\ "duration" \in S => "duration" \in gl
    /\ "rate" \in gl => "client" \in gl

\* What an option may change keeps a struct a parsed one.
LEMMA FollowsParsed ==
  ASSUME NEW t, NEW u, NEW fl, NEW gl, NEW S, Parsed(t, fl), Follows(t, u, fl, gl, S)
  PROVE  Parsed(u, gl)
<1>1. CASE "client" \in gl
  BY <1>1, FieldNames DEF Parsed, Follows, Keeps
<1>2. CASE "client" \notin gl
  <2>1. /\ u.bidirectional = t.bidirectional /\ u.reverse = t.reverse
        /\ u.protocol = t.protocol
    BY <1>2, FieldNames DEF Follows, Keeps
  <2>2. \A f \in Clean : u[f] = t[f]
    BY <1>2, ExchangedFields DEF Follows, Keeps
  <2>3. "client" \notin fl
    BY <1>2 DEF Follows
  <2>4. "duration" \notin gl => u.duration = DURATION
    BY FieldNames DEF Parsed, Follows, Keeps
  <2> QED BY <2>1, <2>2, <2>3, <2>4, <1>2 DEF Parsed, Follows
<1> QED BY <1>1, <1>2

\* The option is taken, and p is still among its options.
Moved(p) ==
    \E T, F : /\ Parsed(T, F) /\ pc' = pc
              /\ test' = [test EXCEPT ![p] = T]
              /\ flags' = [flags EXCEPT ![p] = F]

\* An option that is taken in such a way moves its program.
LEMMA TakesMoved ==
  ASSUME NEW p \in Programs, NEW u, NEW fs, NEW S, Types, Parsed(test[p], flags[p]),
         Takes(p, u, fs), Follows(test[p], u, flags[p], flags[p] \cup fs, S)
  PROVE  Moved(p)
<1>1. Parsed(u, flags[p] \cup fs)
  BY FollowsParsed
<1>2. pc' = pc /\ test' = [test EXCEPT ![p] = u]
  BY DEF Takes
<1>3. flags' = [flags EXCEPT ![p] = flags[p] \cup fs]
  BY DEF Takes, Types
<1> QED BY <1>1, <1>2, <1>3 DEF Moved

\* A struct in which one field outside the shape is set.
LEMMA SetField ==
  ASSUME NEW t, WellFormed(t), NEW f \in Fields \ Shape, NEW v, f \in AsFlags => v \in {0, 1}
  PROVE  LET u == [t EXCEPT ![f] = v] IN WellFormed(u) /\ Keeps(t, u, {f})
<1> DEFINE u == [t EXCEPT ![f] = v]
<1>1. DOMAIN u = Fields /\ u[f] = v /\ \A g \in Fields \ {f} : u[g] = t[g]
  BY DEF WellFormed
<1> HIDE DEF u
<1>2. Keeps(t, u, {f}) /\ Keeps(t, u, Fields \ Shape)
  BY <1>1 DEF Keeps
<1>3. \A g \in AsFlags : u[g] \in {0, 1}
  BY <1>1, ExchangedFields DEF WellFormed, Exchanged
<1>4. WellFormed(u)
  BY <1>2, <1>3, KeepsWellFormed
<1> QED BY <1>2, <1>4 DEF u

\* An option that stores a number.
LEMMA ValueStep ==
  ASSUME NEW p \in Programs, NEW o \in DOMAIN NumericTable, NEW v, Types,
         Parsed(test[p], flags[p]), option_value(p, o, v)
  PROVE  Moved(p) \/ Refuses(p)
<1> DEFINE f == NumericTable[o].field
           fs == Raised(o, NumericTable[o].side)
<1>0. SUFFICES ASSUME NEW x, Takes(p, [test[p] EXCEPT ![f] = x], fs) PROVE Moved(p)
  BY DEF option_value
<1> DEFINE u == [test[p] EXCEPT ![f] = x]
<1>1. Takes(p, u, fs)
  BY <1>0
<1>2. f \in Fields \ Shape /\ f \notin AsFlags
  BY NumericOptions, FieldNames DEF Shape, AsFlags
<1>3. WellFormed(u) /\ Keeps(test[p], u, {f})
  BY <1>2, SetField DEF Parsed
<1>4. "client" \in fs \/ f \in {"idle_timeout", "rcv_timeout"}
  BY NumericOptions DEF Raised
<1>5. f = "duration" => "duration" \in fs
  BY NumericOptions DEF Raised
<1>6. "rate" \notin fs
  <2>1. NumericTable[o].side \in {"client", "server", "both"}
    BY DEF NumericTable
  <2> QED BY <2>1 DEF Raised
<1> HIDE DEF u, fs, f
<1>7. f \in {"idle_timeout", "rcv_timeout"} =>
        {f} \cap (Clean \cup {"bidirectional", "reverse", "protocol"}) = {}
  BY DEF Clean, IfNonzero, AsFlags
<1>8. Follows(test[p], u, flags[p], flags[p] \cup fs, {f})
  BY <1>3, <1>4, <1>5, <1>6, <1>7 DEF Follows, Parsed
<1> QED BY <1>1, <1>8, TakesMoved

\* An option that sets a field.
LEMMA SwitchStep ==
  ASSUME NEW p \in Programs, NEW o \in DOMAIN SwitchTable, Types,
         Parsed(test[p], flags[p]), option_switch(p, o)
  PROVE  Moved(p)
<1> DEFINE f == SwitchTable[o].field
           u == [test[p] EXCEPT ![f] = 1]
           fs == Raised(o, SwitchTable[o].side)
<1>1. Takes(p, u, fs)
  BY DEF option_switch
<1>2. f \in Fields \ Shape /\ f # "duration"
  BY SwitchOptions, FieldNames DEF Shape
<1>3. WellFormed(u) /\ Keeps(test[p], u, {f})
  BY <1>2, SetField DEF Parsed
<1>4. "client" \in fs \/ f \in {"udp_counters_64bit", "one_off", "daemon", "diskfile_name"}
  BY SwitchOptions DEF Raised
<1>5. "rate" \notin fs
  <2>1. SwitchTable[o].side \in {"client", "server", "both"}
    BY DEF SwitchTable
  <2> QED BY <2>1 DEF Raised
<1> HIDE DEF u, fs, f
<1>6. f \in {"udp_counters_64bit", "one_off", "daemon", "diskfile_name"} =>
        {f} \cap (Clean \cup {"bidirectional", "reverse", "protocol"}) = {}
  BY DEF Clean, IfNonzero, AsFlags, Lingers
<1>7. Follows(test[p], u, flags[p], flags[p] \cup fs, {f})
  BY <1>2, <1>3, <1>4, <1>5, <1>6 DEF Follows, Parsed
<1> QED BY <1>1, <1>7, TakesMoved

\* The options that set the role, the direction or the protocol.
LEMMA ShapeStep ==
  ASSUME NEW p \in Programs, Types, Parsed(test[p], flags[p]),
         \/ \E role \in {"c", "s"} : option_role(p, role)
         \/ option_udp(p)
         \/ option_reverse(p)
         \/ option_bidirectional(p)
  PROVE  Moved(p) \/ Refuses(p)
<1> DEFINE t == test[p]
           Good(u, fs, S) == Follows(t, u, flags[p], flags[p] \cup fs, S)
<1> USE DEF Parsed
<1>1. ASSUME NEW role \in {"c", "s"}, option_role(p, role) PROVE Moved(p) \/ Refuses(p)
  <2> DEFINE u == iperf_set_test_role(t, role)
  <2>1. Takes(p, u, {}) \/ Refuses(p)
    BY <1>1 DEF option_role
  <2>2. WellFormed(u) /\ Keeps(t, u, {"role", "mode", "sender_has_retransmits"})
    BY SetRoleIs
  <2>3. {"role", "mode", "sender_has_retransmits"}
          \cap (Clean \cup {"bidirectional", "reverse", "protocol"}) = {}
    BY DEF Clean, IfNonzero, AsFlags
  <2> HIDE DEF u
  <2>4. Good(u, {}, {"role", "mode", "sender_has_retransmits"})
    BY <2>2, <2>3 DEF Follows
  <2> QED BY <2>1, <2>4, TakesMoved
<1>2. CASE option_udp(p)
  <2> DEFINE u == set_protocol(t, "udp")
  <2>1. Takes(p, u, {"client"})
    BY <1>2 DEF option_udp
  <2>2. WellFormed(u) /\ Keeps(t, u, {"protocol", "sender_has_retransmits"})
    BY SetProtocolIs
  <2> HIDE DEF u
  <2>3. Good(u, {"client"}, {"protocol", "sender_has_retransmits"})
    BY <2>2 DEF Follows
  <2> QED BY <2>1, <2>3, TakesMoved
<1>3. CASE option_reverse(p) /\ ~t.bidirectional
  <2> DEFINE u == iperf_set_test_reverse(t, TRUE)
  <2>1. Takes(p, u, {"client"})
    BY <1>3 DEF option_reverse
  <2>2. WellFormed(u) /\ Keeps(t, u, {"reverse", "mode", "sender_has_retransmits"})
    BY <1>3, SetReverseIs
  <2> HIDE DEF u
  <2>3. Good(u, {"client"}, {"reverse", "mode", "sender_has_retransmits"})
    BY <2>2 DEF Follows
  <2> QED BY <2>1, <2>3, TakesMoved
<1>4. CASE option_bidirectional(p) /\ ~t.reverse
  <2> DEFINE u == iperf_set_test_bidirectional(t)
  <2>1. Takes(p, u, {"client"})
    BY <1>4 DEF option_bidirectional
  <2>2. WellFormed(u) /\ Keeps(t, u, {"bidirectional", "mode"})
    BY <1>4, SetBidirectionalIs
  <2> HIDE DEF u
  <2>3. Good(u, {"client"}, {"bidirectional", "mode"})
    BY <2>2 DEF Follows
  <2> QED BY <2>1, <2>3, TakesMoved
<1> QED BY <1>1, <1>2, <1>3, <1>4 DEF option_reverse, option_bidirectional

\* A change of fields that are neither of the shape nor flags.
LEMMA PlainFields ==
  ASSUME NEW t, NEW u, NEW S, WellFormed(t), Keeps(t, u, S), S \cap (Shape \cup AsFlags) = {}
  PROVE  WellFormed(u)
<1>1. Keeps(t, u, Fields \ Shape)
  BY DEF Keeps
<1>2. \A f \in AsFlags : u[f] \in {0, 1}
  BY ExchangedFields DEF WellFormed, Exchanged, Keeps
<1> QED BY <1>1, <1>2, KeepsWellFormed

\* The options with a number of their own kind.
LEMMA NumberStep ==
  ASSUME NEW p \in Programs, Types, Parsed(test[p], flags[p]), NEW i, NEW j,
         \/ option_bitrate(p, i, j)
         \/ option_bitrate_limit(p, i, j)
         \/ option_interval(p, i)
         \/ option_length(p, i)
  PROVE  Moved(p) \/ Refuses(p)
<1> DEFINE t == test[p]
           Good(u, fs, S) == Follows(t, u, flags[p], flags[p] \cup fs, S)
<1>0. WellFormed(t) /\ DOMAIN t = Fields
  BY DEF Parsed, WellFormed
<1>1. CASE option_bitrate(p, i, j)
  <2> DEFINE one == [t EXCEPT !.rate = i]
             two == [t EXCEPT !.burst = j, !.rate = i]
             S == {"burst", "rate"}
  <2>1. Keeps(t, one, S) /\ Keeps(t, two, S)
    BY <1>0, FieldNames DEF Keeps
  <2>2. Takes(p, one, {"client", "rate"}) \/ Takes(p, two, {"client", "rate"}) \/ Refuses(p)
    BY <1>1 DEF option_bitrate
  <2>3. S \cap (Shape \cup AsFlags) = {}
    BY DEF Shape, AsFlags
  <2> HIDE DEF one, two
  <2>4. WellFormed(one) /\ WellFormed(two)
    BY <1>0, <2>1, <2>3, PlainFields
  <2>5. Good(one, {"client", "rate"}, S) /\ Good(two, {"client", "rate"}, S)
    BY <2>1, <2>4 DEF Follows
  <2> QED BY <2>2, <2>5, TakesMoved
<1>2. CASE option_bitrate_limit(p, i, j)
  <2> DEFINE u == [t EXCEPT !.bitrate_limit = i, !.bitrate_limit_interval = j]
             S == {"bitrate_limit", "bitrate_limit_interval"}
  <2>1. Keeps(t, u, S)
    BY <1>0, FieldNames DEF Keeps
  <2>2. Takes(p, u, {"server"}) \/ Refuses(p)
    BY <1>2 DEF option_bitrate_limit
  <2>3. /\ S \cap (Shape \cup AsFlags) = {}
        /\ S \cap (Clean \cup {"bidirectional", "reverse", "protocol"}) = {}
    BY DEF Shape, AsFlags, Clean, IfNonzero
  <2> HIDE DEF u
  <2>4. WellFormed(u)
    BY <1>0, <2>1, <2>3, PlainFields
  <2>5. Good(u, {"server"}, S)
    BY <2>1, <2>3, <2>4 DEF Follows, Parsed
  <2> QED BY <2>2, <2>5, TakesMoved
<1>3. CASE option_interval(p, i)
  <2> DEFINE u == [t EXCEPT !.stats_interval = i]
             S == {"stats_interval"}
  <2>1. Keeps(t, u, S)
    BY <1>0, FieldNames DEF Keeps
  <2>2. Takes(p, u, {}) \/ Refuses(p)
    BY <1>3 DEF option_interval
  <2>3. /\ S \cap (Shape \cup AsFlags) = {}
        /\ S \cap (Clean \cup {"bidirectional", "reverse", "protocol"}) = {}
    BY DEF Shape, AsFlags, Clean, IfNonzero
  <2> HIDE DEF u
  <2>4. WellFormed(u)
    BY <1>0, <2>1, <2>3, PlainFields
  <2>5. Good(u, {}, S)
    BY <2>1, <2>3, <2>4 DEF Follows, Parsed
  <2> QED BY <2>2, <2>5, TakesMoved
<1>4. CASE option_length(p, i)
  <2>1. Good(t, {"client"}, {})
    BY <1>0 DEF Follows, Keeps
  <2> QED BY <1>4, <2>1, TakesMoved DEF option_length
<1> QED BY <1>1, <1>2, <1>3, <1>4

\* Every option is taken or ends the parser.
LEMMA OptionStep ==
  ASSUME NEW p \in Programs, Types, Parsed(test[p], flags[p]), option(p), SettingsAssumption
  PROVE  Parses(p) /\ (Moved(p) \/ Refuses(p))
<1> USE DEF option
<1>1. CASE \E o \in Numeric, v \in {-1, 0, MostAllowed, MostAllowed + 1} : option_value(p, o, v)
  BY <1>1, ValueStep DEF option_value, SettingsAssumption
<1>2. CASE \E o \in Switches : option_switch(p, o)
  BY <1>2, SwitchStep DEF option_switch, SettingsAssumption
<1>3. CASE \/ \E role \in {"c", "s"} : option_role(p, role)
           \/ option_udp(p) \/ option_reverse(p) \/ option_bidirectional(p)
  <2>1. Moved(p) \/ Refuses(p)
    BY <1>3, ShapeStep
  <2> QED BY <1>3, <2>1 DEF option_role, option_udp, option_reverse, option_bidirectional
<1>4. ASSUME NEW i, NEW j,
             \/ option_bitrate(p, i, j) \/ option_bitrate_limit(p, i, j)
             \/ option_interval(p, i) \/ option_length(p, i)
      PROVE  Parses(p) /\ (Moved(p) \/ Refuses(p))
  <2>1. Moved(p) \/ Refuses(p)
    BY <1>4, NumberStep
  <2> QED BY <1>4, <2>1 DEF option_bitrate, option_bitrate_limit, option_interval, option_length
<1>5. CASE option_refused(p)
  BY <1>5 DEF option_refused
<1> QED BY <1>1, <1>2, <1>3, <1>4, <1>5

-----------------------------------------------------------------------------
(* The steps.                                                              *)

\* A fresh struct.
LEMMA DefaultsParsed ==
  /\ Parsed(iperf_defaults, {})
  /\ iperf_defaults.duration = DURATION /\ iperf_defaults.blksize = DEFAULT_TCP_BLKSIZE
  /\ iperf_defaults.bytes = 0 /\ iperf_defaults.blocks = 0 /\ iperf_defaults.role = "none"
  /\ iperf_defaults.protocol = "tcp" /\ iperf_defaults.bidirectional = FALSE
  /\ iperf_defaults.reverse = FALSE
<1> DEFINE t == iperf_defaults
<1>1. /\ DOMAIN t = Fields
      /\ t.role = "none" /\ t.mode = "RECEIVER" /\ t.protocol = "tcp"
      /\ t.reverse = FALSE /\ t.bidirectional = FALSE /\ t.sender_has_retransmits = FALSE
      /\ t.duration = DURATION /\ t.blksize = DEFAULT_TCP_BLKSIZE
      /\ t.bytes = 0 /\ t.blocks = 0
  BY FieldNames DEF iperf_defaults
<1>2. \A f \in Clean \cup AsFlags : t[f] = 0
  BY FieldNames DEF iperf_defaults, Clean, IfNonzero, AsFlags, Lingers
<1> HIDE DEF t
<1>3. DerivedMode(t) = "RECEIVER" /\ DerivedRetransmits(t) = FALSE
  BY <1>1 DEF DerivedMode, DerivedRetransmits
<1>4. WellFormed(t)
  BY <1>1, <1>2, <1>3 DEF WellFormed
<1> QED BY <1>1, <1>2, <1>4 DEF Parsed, t

\* Two programs that have parsed nothing.
LEMMA InitInv == Init => SettingsInv
<1> SUFFICES ASSUME Init PROVE SettingsInv
  OBVIOUS
<1> USE DEF Init, Programs
<1>1. Types
  BY DEF Types, Pcs
<1>2. Structs
  BY DefaultsParsed DEF Structs, Parsing, Parsed
<1> QED BY <1>1, <1>2 DEF SettingsInv, FreshClient, Waiting, Decided, SettingsAgree, OneEndCondition

\* What a step of the options of p leaves to show.
LEMMA OptionKeeps ==
  ASSUME NEW p \in Programs, SettingsInv, option(p), p = "client" => Listening
  PROVE  SettingsInv'
<1> USE DEF Programs
<1>0. Types /\ Structs /\ Waiting /\ Decided /\ FreshClient
  BY DEF SettingsInv
<1>1. pc[p] = "options" /\ Parsed(test[p], flags[p])
  <2>1. pc[p] = "options"
    BY DEF option, option_value, option_switch, option_role, option_udp, option_reverse,
           option_bidirectional, option_bitrate, option_bitrate_limit, option_interval,
           option_length, option_refused, Parses
  <2> QED BY <1>0, <2>1 DEF Structs
<1>2. Parses(p) /\ (Moved(p) \/ Refuses(p))
  BY <1>0, <1>1, OptionStep, SettingsAssumption
<1>3. given' = [given EXCEPT ![p] = @ + 1] /\ parameters' = parameters
  BY <1>2 DEF Parses
<1>4. pc["client"] \in {"options", "refused"} /\ pc["server"] # "running"
      /\ pc'["client"] \in {"options", "refused"} /\ pc'["server"] # "running"
      /\ Types'
  <2>1. pc["client"] \in {"options", "refused"} /\ pc["server"] # "running"
    BY <1>0, <1>1 DEF Waiting, Listening, Decided
  <2>2. CASE Moved(p)
    BY <1>0, <1>3, <2>1, <2>2 DEF Moved, Types
  <2>3. CASE Refuses(p)
    BY <1>0, <1>3, <2>1, <2>3 DEF Refuses, Types, Pcs
  <2> QED BY <1>2, <2>1, <2>2, <2>3
<1>5. Structs'
  <2>1. CASE Moved(p)
    <3>1. PICK T, F : /\ Parsed(T, F) /\ pc' = pc
                      /\ test' = [test EXCEPT ![p] = T] /\ flags' = [flags EXCEPT ![p] = F]
      BY <2>1 DEF Moved
    <3>2. ASSUME NEW q \in Programs
          PROVE  /\ WellFormed(test'[q])
                 /\ pc'[q] = "options" => Parsed(test'[q], flags'[q])
                 /\ pc'[q] \notin {"options", "refused"} =>
                      /\ test'[q].role # "none"
                      /\ test'[q].sender_has_retransmits = DerivedRetransmits(test'[q])
      <4>1. CASE q = p
        BY <1>0, <1>1, <3>1, <4>1 DEF Types, Parsed
      <4>2. CASE q # p
        BY <1>0, <3>1, <4>2 DEF Types, Structs, Parsing
      <4> QED BY <4>1, <4>2
    <3> QED BY <3>2 DEF Structs, Parsing
  <2>2. CASE Refuses(p)
    BY <1>0, <2>2 DEF Refuses, Structs, Parsing, Types
  <2> QED BY <1>2, <2>1, <2>2
<1>6. FreshClient'
  <2>1. CASE p = "client"
    BY <2>1, <1>0, <1>3 DEF FreshClient, Types
  <2>2. CASE p = "server"
    <3>1. test'["client"] = test["client"] /\ flags'["client"] = flags["client"]
          /\ pc'["client"] = pc["client"] /\ given'["client"] = given["client"]
      BY <1>0, <1>2, <1>3, <2>2 DEF Moved, Refuses, Types
    <3> QED BY <3>1, <1>0 DEF FreshClient
  <2> QED BY <2>1, <2>2
<1>7. Waiting'
  <2>1. CASE p = "client"
    <3>1. test'["server"] = test["server"] /\ pc'["server"] = pc["server"]
      BY <1>0, <1>2, <2>1 DEF Moved, Refuses, Types
    <3> QED BY <3>1, <1>0, <1>4 DEF Waiting
  <2>2. CASE p = "server"
    <3>1. pc'["server"] \in {"options", "refused"}
      BY <1>0, <1>1, <1>2, <2>2 DEF Moved, Refuses, Types
    <3> QED BY <3>1, <1>4 DEF Waiting
  <2> QED BY <2>1, <2>2
<1> QED BY <1>4, <1>5, <1>6, <1>7 DEF SettingsInv, Decided, SettingsAgree, OneEndCondition

\* p goes on to x with the struct T.
Goes(p, x, T) ==
    /\ x \in Pcs \ {"options"}
    /\ pc' = [pc EXCEPT ![p] = x]
    /\ DOMAIN test' = Programs /\ test'[p] = T
    /\ \A q \in Programs \ {p} : test'[q] = test[q]
    /\ flags' = flags /\ given' = given
    /\ WellFormed(T)
    /\ x # "refused" => T.role # "none" /\ T.sender_has_retransmits = DerivedRetransmits(T)

\* The other program is left alone, and the structs stay well formed.
LEMMA GoesOn ==
  ASSUME NEW p \in Programs, NEW x, NEW T, Types, Structs, Goes(p, x, T)
  PROVE  /\ Types' /\ Structs'
         /\ pc'[p] = x /\ test'[p] = T
         /\ \A q \in Programs \ {p} : pc'[q] = pc[q] /\ test'[q] = test[q]
<1>1. /\ Types' /\ pc'[p] = x /\ test'[p] = T
      /\ \A q \in Programs \ {p} : pc'[q] = pc[q] /\ test'[q] = test[q]
  BY DEF Goes, Types
<1>2. ASSUME NEW q \in Programs
      PROVE  /\ WellFormed(test'[q])
             /\ pc'[q] = "options" => Parsed(test'[q], flags'[q])
             /\ pc'[q] \notin {"options", "refused"} =>
                  /\ test'[q].role # "none"
                  /\ test'[q].sender_has_retransmits = DerivedRetransmits(test'[q])
  <2>1. CASE q = p
    BY <1>1, <2>1 DEF Goes
  <2>2. CASE q # p
    <3>1. test'[q] = test[q] /\ pc'[q] = pc[q] /\ flags'[q] = flags[q]
      BY <1>1, <2>2 DEF Goes
    <3> QED BY <3>1 DEF Structs, Parsing
  <2> QED BY <2>1, <2>2
<1>3. Structs'
  BY <1>2 DEF Structs, Parsing
<1> QED BY <1>1, <1>3

\* The fields that end a test.
EndsOf(t) == {f \in {"duration", "bytes", "blocks"} : t[f] # 0}

\* At most one of the three ends a test in each of these sets.
LEMMA EndsCount ==
  ASSUME NEW E \in {{}, {"duration"}, {"bytes"}, {"blocks"}}
  PROVE  Cardinality(E) = IF E = {} THEN 0 ELSE 1
<1>1. CASE E = {}
  BY <1>1, FS_EmptySet
<1>2. CASE \E x : E = {x}
  BY <1>2, FS_Singleton
<1> QED BY <1>1, <1>2

\* What end_of_options makes of a struct that it accepts.
Accepted(p, T, bytes, periods) ==
    T = [test[p] EXCEPT
           !.bytes = bytes,
           !.duration = Duration(p, bytes),
           !.blksize = BlockSize(p),
           !.rate = IF "rate" \in flags[p] THEN @
                    ELSE IF test[p].protocol = "udp" THEN UDP_RATE ELSE 0,
           !.bitrate_limit_stats_per_interval = periods]

\* A struct that the checks after the loop let through: a server has no option of a
\* client, and the end conditions exclude each other.
LEMMA AcceptedIs ==
  ASSUME NEW p \in Programs, NEW bytes, NEW periods, NEW T, Accepted(p, T, bytes, periods),
         Parsed(test[p], flags[p]), ~Incompatible(p, bytes)
  PROVE  /\ WellFormed(T)
         /\ T.role # "none" /\ T.sender_has_retransmits = DerivedRetransmits(T)
         /\ T.role = "s" => ~T.reverse /\ ~T.bidirectional /\ \A f \in Clean : T[f] = 0
         /\ T.protocol = "tcp" => T.blksize # 0
         /\ Cardinality(EndsOf(T)) = IF "duration" \in flags[p] /\ T.duration = 0 THEN 0 ELSE 1
<1> DEFINE t == test[p]
           S == {"bytes", "duration", "blksize", "rate", "bitrate_limit_stats_per_interval"}
<1>0. WellFormed(t) /\ DOMAIN t = Fields
  BY DEF Parsed, WellFormed
<1>1. /\ Keeps(t, T, S)
      /\ T.bytes = bytes /\ T.duration = Duration(p, bytes) /\ T.blksize = BlockSize(p)
      /\ T.rate = IF "rate" \in flags[p] THEN t.rate
                  ELSE IF t.protocol = "udp" THEN UDP_RATE ELSE 0
  BY <1>0, FieldNames DEF Accepted, Keeps
<1>2. S \cap (Shape \cup AsFlags) = {}
  BY DEF Shape, AsFlags
<1>3. WellFormed(T)
  BY <1>0, <1>1, <1>2, PlainFields
<1>4. /\ T.role = t.role /\ T.reverse = t.reverse /\ T.bidirectional = t.bidirectional
      /\ T.protocol = t.protocol /\ T.blocks = t.blocks
  BY <1>1, FieldNames DEF Keeps
<1>5. T.role # "none"
  BY <1>4 DEF Incompatible
<1>6. T.role = "s" => "client" \notin flags[p]
  BY <1>4 DEF Incompatible
<1>7. T.role = "s" => ~T.reverse /\ ~T.bidirectional /\ T.protocol = "tcp" /\ T.rate = 0
  BY <1>1, <1>4, <1>6 DEF Parsed
<1>8. T.sender_has_retransmits = DerivedRetransmits(T)
  BY <1>3, <1>5, <1>7 DEF WellFormed
<1>9. ASSUME T.role = "s", NEW f \in Clean PROVE T[f] = 0
  <2>1. CASE f = "rate"
    BY <2>1, <1>7, <1>9
  <2>2. CASE f # "rate"
    <3>1. t[f] = 0
      BY <1>6, <1>9, <2>2 DEF Parsed
    <3>2. f \in Fields \ S
      BY <2>2, ExchangedFields DEF Clean, IfNonzero, AsFlags
    <3> QED BY <3>1, <3>2, <1>1 DEF Keeps
  <2> QED BY <2>1, <2>2
<1>10. T.protocol = "tcp" => T.blksize # 0
  BY <1>1, <1>4 DEF BlockSize, DEFAULT_TCP_BLKSIZE
<1>11. Cardinality(EndsOf(T)) = IF "duration" \in flags[p] /\ T.duration = 0 THEN 0 ELSE 1
  <2>1. ("duration" \in flags[p] => bytes = 0 /\ T.blocks = 0) /\ (bytes = 0 \/ T.blocks = 0)
    BY <1>4 DEF Incompatible
  <2>2. "duration" \notin flags[p] =>
          T.duration = IF bytes # 0 \/ T.blocks # 0 THEN 0 ELSE DURATION
    BY <1>1, <1>4 DEF Duration, Parsed
  <2>3. EndsOf(T) = (IF T.duration # 0 THEN {"duration"} ELSE {})
                      \cup (IF T.bytes # 0 THEN {"bytes"} ELSE {})
                      \cup (IF T.blocks # 0 THEN {"blocks"} ELSE {})
    BY DEF EndsOf
  <2>4. CASE "duration" \in flags[p]
    <3>1. EndsOf(T) = IF T.duration = 0 THEN {} ELSE {"duration"}
      BY <1>1, <2>1, <2>3, <2>4
    <3> QED BY <3>1, <2>4, EndsCount
  <2>5. CASE "duration" \notin flags[p]
    <3>1. EndsOf(T) \in {{"duration"}, {"bytes"}, {"blocks"}}
      BY <1>1, <2>1, <2>2, <2>3, <2>5 DEF DURATION
    <3> QED BY <3>1, <2>5, EndsCount
  <2> QED BY <2>4, <2>5
<1> QED BY <1>3, <1>5, <1>7, <1>8, <1>9, <1>10, <1>11

\* The end of the options, with the checks.
LEMMA EndOfOptionsKeeps ==
  ASSUME NEW p \in Programs, SettingsInv, end_of_options(p), p = "client" => Listening
  PROVE  SettingsInv'
<1> USE DEF Programs
<1>0. Types /\ Structs /\ Waiting /\ Decided /\ FreshClient
  BY DEF SettingsInv
<1>1. PICK bytes, periods :
        /\ pc[p] = "options" /\ given' = given /\ parameters' = parameters
        /\ \/ Incompatible(p, bytes) /\ Refuses(p)
           \/ /\ ~Incompatible(p, bytes)
              /\ pc' = [pc EXCEPT ![p] = "ready"] /\ flags' = flags
              /\ test' = [test EXCEPT
                    ![p].bytes = bytes,
                    ![p].duration = Duration(p, bytes),
                    ![p].blksize = BlockSize(p),
                    ![p].rate = IF "rate" \in flags[p] THEN @
                                ELSE IF test[p].protocol = "udp" THEN UDP_RATE ELSE 0,
                    ![p].bitrate_limit_stats_per_interval = periods]
  BY DEF end_of_options
<1>2. Parsed(test[p], flags[p]) /\ WellFormed(test[p])
  BY <1>0, <1>1 DEF Structs
<1>3. pc["client"] \in {"options", "refused"} /\ pc["server"] # "running"
  BY <1>0, <1>1 DEF Waiting, Listening, Decided
<1>4. CASE Refuses(p)
  <2>1. Goes(p, "refused", test[p])
    BY <1>0, <1>1, <1>2, <1>4 DEF Goes, Refuses, Types, Pcs
  <2>2. /\ Types' /\ Structs' /\ pc'[p] = "refused" /\ test'[p] = test[p]
        /\ \A q \in Programs \ {p} : pc'[q] = pc[q] /\ test'[q] = test[q]
    BY <1>0, <2>1, GoesOn
  <2>3. flags' = flags /\ test' = test
    BY <1>4 DEF Refuses
  <2>4. FreshClient'
    BY <1>0, <1>1, <2>2, <2>3 DEF FreshClient
  <2>5. Waiting'
    BY <1>0, <1>3, <2>2 DEF Waiting
  <2>6. pc'["client"] \in {"options", "refused"} /\ pc'["server"] # "running"
    BY <1>3, <2>2
  <2> QED BY <2>2, <2>4, <2>5, <2>6 DEF SettingsInv, Decided, SettingsAgree, OneEndCondition
<1>5. CASE ~Incompatible(p, bytes) /\ ~Refuses(p)
  <2> DEFINE T == test'[p]
  <2>1. Accepted(p, T, bytes, periods) /\ test' = [test EXCEPT ![p] = T]
    BY <1>0, <1>1, <1>5 DEF Accepted, Types
  <2>2. /\ WellFormed(T)
        /\ T.role # "none" /\ T.sender_has_retransmits = DerivedRetransmits(T)
        /\ T.role = "s" => ~T.reverse /\ ~T.bidirectional /\ \A f \in Clean : T[f] = 0
        /\ T.protocol = "tcp" => T.blksize # 0
        /\ Cardinality(EndsOf(T)) = IF "duration" \in flags[p] /\ T.duration = 0 THEN 0 ELSE 1
    <3> HIDE DEF T
    <3> QED BY <1>2, <1>5, <2>1, AcceptedIs
  <2>3. Goes(p, "ready", T)
    BY <1>0, <1>1, <1>5, <2>1, <2>2 DEF Goes, Pcs, Types
  <2>4. /\ Types' /\ Structs' /\ pc'[p] = "ready"
        /\ \A q \in Programs \ {p} : pc'[q] = pc[q] /\ test'[q] = test[q]
    BY <1>0, <2>3, GoesOn
  <2>5. flags' = flags
    BY <1>1, <1>5
  <2>6. CASE p = "client"
    <3>1. /\ pc'["client"] = "ready" /\ pc'["server"] = "ready" /\ test'["server"] = test["server"]
          /\ pc["server"] = "ready" /\ test["server"].role = "s"
      BY <2>4, <2>6 DEF Listening
    <3>2. Waiting'
      BY <1>0, <3>1 DEF Waiting
    <3>3. Decided' /\ FreshClient'
      BY <2>2, <2>6, <3>1 DEF Decided, FreshClient
    <3>4. OneEndCondition'
      BY <2>2, <2>5, <2>6, <3>1 DEF OneEndCondition, EndsOf
    <3> QED BY <2>4, <3>1, <3>2, <3>3, <3>4 DEF SettingsInv, SettingsAgree
  <2>7. CASE p = "server"
    <3>1. /\ pc'["server"] = "ready" /\ pc'["client"] = pc["client"]
          /\ test'["client"] = test["client"]
      BY <2>4, <2>7
    <3>2. Waiting'
      BY <1>3, <2>2, <2>7, <3>1 DEF Waiting
    <3>3. Decided' /\ FreshClient'
      BY <1>0, <1>1, <1>3, <2>5, <3>1 DEF Decided, FreshClient
    <3> QED BY <1>3, <2>4, <3>1, <3>2, <3>3 DEF SettingsInv, SettingsAgree, OneEndCondition
  <2> QED BY <2>6, <2>7
<1> QED BY <1>1, <1>4, <1>5

\* The application's client: its struct is fresh.
LEMMA SetUpKeeps ==
  ASSUME SettingsInv, Listening, NEW streams, NEW reverse \in BOOLEAN, NEW d \in Nat \ {0},
         setUpTest(streams, reverse, d)
  PROVE  SettingsInv'
<1> USE DEF Programs
<1>0. Types /\ Structs /\ Waiting /\ Decided /\ FreshClient
  BY DEF SettingsInv
<1>1. /\ pc["client"] = "options" /\ given["client"] = 0
      /\ pc' = [pc EXCEPT !["client"] = "ready"] /\ flags' = flags /\ given' = given
  BY DEF setUpTest
<1>2. test["client"] = iperf_defaults /\ flags["client"] = {}
  BY <1>0, <1>1 DEF FreshClient
<1> DEFINE t == iperf_defaults
           u == iperf_set_test_role(t, "c")
           w == [u EXCEPT !.num_streams = streams, !.duration = d]
           T == IF reverse THEN iperf_set_test_reverse(w, TRUE) ELSE w
           Right(x) == /\ WellFormed(x) /\ x.role = "c"
                       /\ x.sender_has_retransmits = DerivedRetransmits(x)
                       /\ x.duration = d /\ x.bytes = 0 /\ x.blocks = 0
                       /\ x.blksize = DEFAULT_TCP_BLKSIZE
<1>3. test' = [test EXCEPT !["client"] = T]
  BY <1>2 DEF setUpTest
<1>4. /\ WellFormed(u) /\ u.sender_has_retransmits = DerivedRetransmits(u) /\ u.role = "c"
      /\ Keeps(t, u, {"role", "mode", "sender_has_retransmits"})
  BY DefaultsParsed, SetRoleIs DEF Parsed
<1> HIDE DEF u
<1>5. Keeps(u, w, {"num_streams", "duration"}) /\ w.duration = d
  BY <1>4, FieldNames DEF WellFormed, Keeps
<1>6. Right(w) /\ w.bidirectional = FALSE
  <2> HIDE DEF w
  <2>1. {"num_streams", "duration"} \cap (Shape \cup AsFlags) = {}
    BY DEF Shape, AsFlags
  <2>2. WellFormed(w)
    BY <1>4, <1>5, <2>1, PlainFields
  <2>3. w.bytes = 0 /\ w.blocks = 0 /\ w.blksize = DEFAULT_TCP_BLKSIZE
        /\ w.bidirectional = FALSE /\ w.role = "c"
    BY <1>4, <1>5, DefaultsParsed, FieldNames DEF Keeps
  <2>4. w.sender_has_retransmits = DerivedRetransmits(w)
    BY <2>2, <2>3 DEF WellFormed
  <2> QED BY <1>5, <2>2, <2>3, <2>4
<1> HIDE DEF w
<1>7. Right(T)
  <2>1. CASE reverse = TRUE
    <3> DEFINE x == iperf_set_test_reverse(w, TRUE)
    <3>1. /\ WellFormed(x) /\ x.sender_has_retransmits = DerivedRetransmits(x)
          /\ Keeps(w, x, {"reverse", "mode", "sender_has_retransmits"})
      BY <1>6, SetReverseIs
    <3> HIDE DEF x
    <3>2. Right(x)
      BY <1>6, <3>1, FieldNames DEF Keeps
    <3> QED BY <2>1, <3>2 DEF x
  <2>2. CASE reverse = FALSE
    BY <2>2, <1>6
  <2> QED BY <2>1, <2>2
<1> HIDE DEF T
<1>8. Goes("client", "ready", T)
  BY <1>0, <1>1, <1>3, <1>7 DEF Goes, Types, Pcs
<1>9. /\ Types' /\ Structs' /\ pc'["client"] = "ready" /\ test'["client"] = T
      /\ pc'["server"] = "ready" /\ test'["server"] = test["server"]
  BY <1>0, <1>8, GoesOn DEF Listening
<1>10. Waiting'
  BY <1>0, <1>9 DEF Waiting, Listening
<1>11. Decided' /\ FreshClient'
  BY <1>7, <1>9 DEF Decided, FreshClient, DEFAULT_TCP_BLKSIZE
<1>12. EndsOf(T) = {"duration"}
  BY <1>7 DEF EndsOf
<1>13. Cardinality(EndsOf(T)) = 1
  BY <1>12, EndsCount
<1>14. OneEndCondition'
  BY <1>1, <1>2, <1>9, <1>13 DEF OneEndCondition, EndsOf
<1> QED BY <1>9, <1>10, <1>11, <1>14 DEF SettingsInv, SettingsAgree

\* iperf_connect chooses the size of a UDP block that was left open.
LEMMA ConnectKeeps ==
  ASSUME SettingsInv, NEW mss \in Nat \ {0}, iperf_connect(mss)
  PROVE  SettingsInv'
<1> USE DEF Programs
<1>0. Types /\ Structs /\ Waiting /\ Decided /\ FreshClient /\ OneEndCondition
  BY DEF SettingsInv
<1> DEFINE t == test["client"]
           b == IF t.protocol = "udp" /\ t.blksize = 0 THEN mss ELSE t.blksize
           T == [t EXCEPT !.blksize = b]
<1> HIDE DEF b
<1>1. /\ pc["client"] = "ready" /\ t.role = "c"
      /\ pc' = [pc EXCEPT !["client"] = "connected"]
      /\ test' = [test EXCEPT !["client"] = T]
      /\ flags' = flags /\ given' = given
  BY <1>0 DEF iperf_connect, Types, b
<1>2. WellFormed(t) /\ DOMAIN t = Fields /\ t.sender_has_retransmits = DerivedRetransmits(t)
  BY <1>0, <1>1 DEF Structs, WellFormed, Parsing
<1>3. Keeps(t, T, {"blksize"}) /\ T.blksize = b
  BY <1>2, FieldNames DEF Keeps
<1> HIDE DEF T
<1>4. {"blksize"} \cap (Shape \cup AsFlags) = {}
  BY DEF Shape, AsFlags
<1>5. WellFormed(T)
  BY <1>2, <1>3, <1>4, PlainFields
<1>6. T.role = "c" /\ T.duration = t.duration /\ T.bytes = t.bytes /\ T.blocks = t.blocks
  BY <1>1, <1>3, FieldNames DEF Keeps
<1>7. T.sender_has_retransmits = DerivedRetransmits(T)
  BY <1>5, <1>6 DEF WellFormed
<1>8. b # 0
  BY <1>0, <1>1, <1>2 DEF b, Decided, WellFormed
<1>9. Goes("client", "connected", T)
  BY <1>0, <1>1, <1>5, <1>6, <1>7 DEF Goes, Types, Pcs
<1>10. /\ Types' /\ Structs' /\ pc'["client"] = "connected" /\ test'["client"] = T
       /\ pc'["server"] = pc["server"] /\ test'["server"] = test["server"]
  BY <1>0, <1>9, GoesOn
<1>11. pc["server"] # "running"
  BY <1>0, <1>1 DEF Decided
<1>12. Waiting'
  BY <1>0, <1>1, <1>10 DEF Waiting
<1>13. Decided' /\ FreshClient'
  BY <1>3, <1>6, <1>8, <1>10, <1>11 DEF Decided, FreshClient
<1>14. EndsOf(T) = EndsOf(t)
  BY <1>6 DEF EndsOf
<1>15. OneEndCondition'
  BY <1>0, <1>1, <1>6, <1>10, <1>11, <1>14 DEF OneEndCondition, EndsOf
<1> QED BY <1>10, <1>11, <1>12, <1>13, <1>15 DEF SettingsInv, SettingsAgree

\* The document holds what the client has decided.
LEMMA SendKeeps ==
  ASSUME SettingsInv, send_parameters
  PROVE  SettingsInv'
<1> USE DEF Programs
<1>0. Types /\ Structs /\ Waiting /\ Decided /\ FreshClient /\ OneEndCondition
  BY DEF SettingsInv
<1>1. /\ pc["client"] = "connected" /\ pc' = [pc EXCEPT !["client"] = "sent"]
      /\ test' = test /\ flags' = flags /\ given' = given
      /\ parameters' = Document(test["client"])
  BY DEF send_parameters
<1>2. Goes("client", "sent", test["client"])
  BY <1>0, <1>1 DEF Goes, Types, Structs, Parsing, Pcs
<1>3. /\ Types' /\ Structs' /\ pc'["client"] = "sent" /\ pc'["server"] = pc["server"]
  BY <1>0, <1>2, GoesOn
<1>4. pc["server"] # "running"
  BY <1>0, <1>1 DEF Decided
<1>5. Waiting' /\ Decided' /\ FreshClient'
  BY <1>0, <1>1, <1>3, <1>4 DEF Waiting, Decided, FreshClient
<1>6. OneEndCondition'
  BY <1>0, <1>1, <1>3, <1>4 DEF OneEndCondition
<1> QED BY <1>3, <1>4, <1>5, <1>6 DEF SettingsInv, SettingsAgree

\* A document that does not arrive leaves the server as it was.
LEMMA FailsKeeps ==
  ASSUME SettingsInv, get_parameters_fails
  PROVE  SettingsInv'
<1> USE DEF Programs
<1>0. Types /\ Structs /\ Waiting /\ Decided /\ FreshClient /\ OneEndCondition
  BY DEF SettingsInv
<1>1. /\ pc["client"] = "sent" /\ pc["server"] = "ready"
      /\ pc' = [pc EXCEPT !["server"] = "failed"]
      /\ test' = test /\ flags' = flags /\ given' = given
  BY DEF get_parameters_fails
<1>2. Goes("server", "failed", test["server"])
  BY <1>0, <1>1 DEF Goes, Types, Structs, Parsing, Pcs
<1>3. /\ Types' /\ Structs' /\ pc'["client"] = "sent" /\ pc'["server"] = "failed"
  BY <1>0, <1>1, <1>2, GoesOn
<1>4. Waiting' /\ Decided' /\ FreshClient'
  BY <1>0, <1>1, <1>3 DEF Waiting, Decided, FreshClient
<1>5. OneEndCondition'
  BY <1>0, <1>1, <1>3 DEF OneEndCondition
<1> QED BY <1>3, <1>4, <1>5 DEF SettingsInv, SettingsAgree

\* What a server that waits has set, c being the client's struct.
Ready(t, c) ==
    /\ WellFormed(t) /\ t.role = "s" /\ ~t.reverse /\ ~t.bidirectional
    /\ \A f \in Clean : t[f] = 0
    /\ WellFormed(c) /\ c.role = "c" /\ c.blksize # 0

\* The direction and the protocol that get_parameters sets.
LEMMA DirectionApplied ==
  ASSUME NEW t, NEW c, Ready(t, c), HasRetransmits \in BOOLEAN
  PROVE  LET u == Apply(t, Document(c)) IN
         /\ DOMAIN u = Fields /\ u.role = "s" /\ u.protocol = c.protocol
         /\ u.reverse = c.reverse /\ u.bidirectional = c.bidirectional
         /\ u.mode = DerivedMode(u) /\ u.sender_has_retransmits = DerivedRetransmits(u)
<1> DEFINE u == Apply(t, Document(c))
           one == set_protocol(t, c.protocol)
           two == IF c.reverse THEN iperf_set_test_reverse(one, TRUE) ELSE one
           three == IF c.bidirectional THEN iperf_set_test_bidirectional(two) ELSE two
           rt == three.mode # "RECEIVER" /\ c.protocol = "tcp" /\ HasRetransmits
<1>1. /\ DOMAIN u = Fields
      /\ \A f \in Shape \ {"sender_has_retransmits"} : u[f] = three[f]
      /\ u.sender_has_retransmits = (three.sender_has_retransmits \/ rt)
  <2>1. /\ Document(c).protocol = c.protocol /\ Document(c).reverse = c.reverse
        /\ Document(c).bidirectional = c.bidirectional
    BY DEF Document
  <2>2. \A f \in Shape : f \in Fields /\ f \notin Exchanged
    BY ShapeFields
  <2>3. "sender_has_retransmits" \in Shape
    BY DEF Shape
  <2> HIDE DEF one, two, three
  <2>4. u = [f \in Fields |->
               IF f \in Exchanged
               THEN IF f \in DOMAIN Document(c).values
                    THEN IF f \in AsFlags THEN 1 ELSE Document(c).values[f]
                    ELSE IF f \in {"bytes", "blocks"} THEN 0 ELSE t[f]
               ELSE IF f = "sender_has_retransmits" THEN three[f] \/ rt
               ELSE three[f]]
    BY <2>1 DEF Apply, one, two, three
  <2> HIDE DEF u, rt
  <2> QED BY <2>2, <2>3, <2>4
<1>2. WellFormed(c) /\ WellFormed(t) /\ c.protocol \in {"tcp", "udp"}
      /\ c.reverse \in BOOLEAN /\ c.bidirectional \in BOOLEAN /\ ~(c.reverse /\ c.bidirectional)
  BY DEF Ready, WellFormed
<1>3. /\ WellFormed(one) /\ one.sender_has_retransmits = DerivedRetransmits(one)
      /\ one.protocol = c.protocol /\ one.role = "s" /\ one.reverse = FALSE
      /\ one.bidirectional = FALSE
  <2>1. /\ WellFormed(one) /\ one.sender_has_retransmits = DerivedRetransmits(one)
        /\ Keeps(t, one, {"protocol", "sender_has_retransmits"}) /\ one.protocol = c.protocol
    BY <1>2, SetProtocolIs
  <2> HIDE DEF one
  <2> QED BY <1>2, <2>1, FieldNames DEF Keeps, Ready, WellFormed
<1> HIDE DEF one
<1>4. /\ WellFormed(two) /\ two.sender_has_retransmits = DerivedRetransmits(two)
      /\ two.protocol = c.protocol /\ two.role = "s" /\ two.reverse = c.reverse
      /\ two.bidirectional = FALSE
  <2>1. CASE c.reverse = TRUE
    <3> DEFINE x == iperf_set_test_reverse(one, TRUE)
    <3>1. /\ WellFormed(x) /\ x.sender_has_retransmits = DerivedRetransmits(x)
          /\ Keeps(one, x, {"reverse", "mode", "sender_has_retransmits"}) /\ x.reverse = TRUE
      BY <1>3, SetReverseIs
    <3>2. two = x
      BY <2>1
    <3> HIDE DEF two, x
    <3> QED BY <1>3, <2>1, <3>1, <3>2, FieldNames DEF Keeps
  <2>2. CASE c.reverse = FALSE
    BY <1>3, <2>2
  <2> QED BY <1>2, <2>1, <2>2
<1> HIDE DEF two
<1>5. /\ WellFormed(three) /\ three.protocol = c.protocol /\ three.role = "s"
      /\ three.reverse = c.reverse /\ three.bidirectional = c.bidirectional
      /\ (three.sender_has_retransmits \/ rt) = DerivedRetransmits(three)
  <2>1. CASE c.bidirectional = TRUE
    <3> DEFINE x == iperf_set_test_bidirectional(two)
    <3>1. WellFormed(x) /\ Keeps(two, x, {"bidirectional", "mode"}) /\ x.bidirectional = TRUE
      BY <1>2, <1>4, <2>1, SetBidirectionalIs
    <3>2. three = x
      BY <2>1
    <3> HIDE DEF three, x
    <3>3. /\ three.protocol = c.protocol /\ three.role = "s" /\ three.reverse = c.reverse
          /\ three.bidirectional = TRUE
          /\ three.sender_has_retransmits = two.sender_has_retransmits
      BY <1>4, <3>1, <3>2, FieldNames DEF Keeps
    <3>4. two.mode = "RECEIVER"
      <4>1. two.reverse = FALSE
        BY <1>2, <1>4, <2>1
      <4> QED BY <1>4, <4>1 DEF WellFormed, DerivedMode
    <3>5. two.sender_has_retransmits = FALSE
      BY <1>4, <3>4 DEF DerivedRetransmits
    <3>6. three.mode = "BIDIRECTIONAL"
      BY <3>1, <3>2 DEF WellFormed, DerivedMode
    <3>7. DerivedRetransmits(three) = rt
      BY <3>3, <3>6 DEF DerivedRetransmits
    <3> QED BY <2>1, <3>1, <3>2, <3>3, <3>5, <3>7
  <2>2. CASE c.bidirectional = FALSE
    <3>1. three = two
      BY <2>2
    <3>2. DerivedRetransmits(two) = rt
      BY <1>4, <3>1 DEF DerivedRetransmits
    <3>3. rt \in BOOLEAN
      OBVIOUS
    <3> HIDE DEF three, rt
    <3>4. (three.sender_has_retransmits \/ rt) = DerivedRetransmits(three)
      <4>1. three.sender_has_retransmits = rt /\ DerivedRetransmits(three) = rt
        BY <1>4, <3>1, <3>2
      <4> QED BY ONLY <4>1, <3>3
    <3> QED BY <1>4, <2>2, <3>1, <3>4
  <2> QED BY <1>2, <2>1, <2>2
<1> HIDE DEF three, rt, u
<1>6. /\ u.role = three.role /\ u.mode = three.mode /\ u.reverse = three.reverse
      /\ u.bidirectional = three.bidirectional /\ u.protocol = three.protocol
  BY <1>1 DEF Shape
<1>7. DerivedMode(u) = DerivedMode(three) /\ DerivedRetransmits(u) = DerivedRetransmits(three)
  BY <1>6 DEF DerivedMode, DerivedRetransmits
<1>8. u.mode = DerivedMode(u)
  BY <1>5, <1>6, <1>7 DEF WellFormed
<1> QED BY <1>1, <1>5, <1>6, <1>7, <1>8 DEF u

\* The numbers of the document: the server takes over every one that the client
\* has, and what it lacks the server has not set either.
LEMMA NumbersApplied ==
  ASSUME NEW t, NEW c, Ready(t, c)
  PROVE  LET u == Apply(t, Document(c)) IN
         /\ \A f \in Exchanged : (f \in Lingers /\ c[f] = 0) \/ u[f] = c[f]
         /\ \A f \in AsFlags : u[f] \in {0, 1}
         /\ \A f \in Always : u[f] = c[f]
<1> DEFINE u == Apply(t, Document(c))
           sent == Always \cup {g \in IfNonzero \cup AsFlags : c[g] # 0}
<1>1. \A f \in Exchanged :
        u[f] = IF f \in DOMAIN Document(c).values
               THEN IF f \in AsFlags THEN 1 ELSE Document(c).values[f]
               ELSE IF f \in {"bytes", "blocks"} THEN 0 ELSE t[f]
  BY ExchangedFields DEF Apply
<1>2. /\ DOMAIN Document(c).values = sent
      /\ \A f \in sent : Document(c).values[f] = c[f]
  BY DEF Document
<1> HIDE DEF u, sent
<1>3. \A f \in Exchanged :
        u[f] = IF f \in sent THEN IF f \in AsFlags THEN 1 ELSE c[f]
               ELSE IF f \in {"bytes", "blocks"} THEN 0 ELSE t[f]
  BY <1>1, <1>2
<1>4. {"bytes", "blocks"} \subseteq Always /\ Always \cap AsFlags = {}
  BY DEF Always, AsFlags
<1>5. \A f \in AsFlags : c[f] \in {0, 1} /\ t[f] \in {0, 1}
  BY DEF Ready, WellFormed
<1>6. \A f \in Always : u[f] = c[f]
  BY <1>3, <1>4 DEF sent, Exchanged
<1>7. ASSUME NEW f \in AsFlags
      PROVE  u[f] \in {0, 1} /\ (c[f] # 0 => u[f] = c[f]) /\ (c[f] = 0 => u[f] = t[f])
  BY <1>3, <1>4, <1>5 DEF sent, Exchanged
<1>8. ASSUME NEW f \in IfNonzero
      PROVE  (c[f] # 0 => u[f] = c[f]) /\ (c[f] = 0 => u[f] = t[f])
  <2>1. f \notin AsFlags /\ f \notin Always
    BY DEF IfNonzero, AsFlags, Always
  <2> QED BY <1>3, <1>4, <2>1 DEF sent, Exchanged
<1>9. ASSUME NEW f \in Exchanged PROVE (f \in Lingers /\ c[f] = 0) \/ u[f] = c[f]
  <2>1. f \in Always \/ f \in Lingers \/ f = "blksize" \/ f \in Clean
    BY DEF Exchanged, Clean
  <2>2. f \in Clean => t[f] = 0
    BY DEF Ready
  <2>3. f = "blksize" => c[f] # 0
    BY DEF Ready
  <2> QED BY <1>6, <1>7, <1>8, <2>1, <2>2, <2>3 DEF Exchanged
<1> QED BY <1>6, <1>7, <1>9 DEF u

\* The server takes the document over.
LEMMA GetKeeps ==
  ASSUME SettingsInv, get_parameters
  PROVE  SettingsInv'
<1> USE DEF Programs
<1>0. Types /\ Structs /\ Waiting /\ Decided /\ FreshClient /\ OneEndCondition
  BY DEF SettingsInv
<1> DEFINE c == test["client"]
           t == test["server"]
           u == Apply(t, Document(c))
<1>1. /\ pc["client"] = "sent" /\ pc["server"] = "ready"
      /\ pc' = [pc EXCEPT !["server"] = "running"]
      /\ test' = [test EXCEPT !["server"] = u]
      /\ flags' = flags /\ given' = given
  BY <1>0 DEF get_parameters, Decided, Types
<1>2. Ready(t, c)
  BY <1>0, <1>1 DEF Ready, Waiting, Decided, Structs
<1>3. /\ DOMAIN u = Fields /\ u.role = "s" /\ u.protocol = c.protocol
      /\ u.reverse = c.reverse /\ u.bidirectional = c.bidirectional
      /\ u.mode = DerivedMode(u) /\ u.sender_has_retransmits = DerivedRetransmits(u)
  BY <1>2, DirectionApplied, SettingsAssumption DEF SettingsAssumption
<1>4. /\ \A f \in Exchanged : (f \in Lingers /\ c[f] = 0) \/ u[f] = c[f]
      /\ \A f \in AsFlags : u[f] \in {0, 1}
      /\ \A f \in Always : u[f] = c[f]
  BY <1>2, NumbersApplied
<1> HIDE DEF u
<1>5. WellFormed(c)
  BY <1>2 DEF Ready
<1>6. WellFormed(u)
  BY <1>3, <1>4, <1>5 DEF WellFormed
<1>7. Goes("server", "running", u)
  BY <1>0, <1>1, <1>3, <1>6 DEF Goes, Types, Pcs
<1>8. /\ Types' /\ Structs' /\ pc'["client"] = "sent" /\ test'["client"] = c
      /\ pc'["server"] = "running" /\ test'["server"] = u
  BY <1>0, <1>1, <1>7, GoesOn
<1>9. Waiting' /\ Decided' /\ FreshClient'
  BY <1>0, <1>1, <1>3, <1>8 DEF Waiting, Decided, FreshClient
<1>10. <<c.mode, u.mode>> \in {<<"SENDER", "RECEIVER">>, <<"RECEIVER", "SENDER">>,
                               <<"BIDIRECTIONAL", "BIDIRECTIONAL">>}
  <2>1. c.mode = DerivedMode(c) /\ c.role = "c"
    BY <1>2, <1>5 DEF WellFormed, Ready
  <2>2. CASE c.bidirectional = TRUE
    BY <1>3, <2>1, <2>2 DEF DerivedMode
  <2>3. CASE c.bidirectional = FALSE /\ c.reverse = TRUE
    BY <1>3, <2>1, <2>3 DEF DerivedMode
  <2>4. CASE c.bidirectional = FALSE /\ c.reverse = FALSE
    BY <1>3, <2>1, <2>4 DEF DerivedMode
  <2> QED BY <1>5, <2>2, <2>3, <2>4 DEF WellFormed
<1>11. SettingsAgree'
  BY <1>2, <1>3, <1>4, <1>8, <1>10 DEF SettingsAgree, Ready
<1>12. EndsOf(u) = EndsOf(c)
  <2>1. u.duration = c.duration /\ u.bytes = c.bytes /\ u.blocks = c.blocks
    BY <1>4 DEF Always
  <2> QED BY <2>1 DEF EndsOf
<1>13. OneEndCondition'
  BY <1>0, <1>1, <1>8, <1>12 DEF OneEndCondition, EndsOf
<1> QED BY <1>8, <1>9, <1>11, <1>13 DEF SettingsInv

\* A server after iperf_reset_test is a server that has not met a client.
LEMMA ResetIs ==
  ASSUME NEW t, WellFormed(t)
  PROVE  LET u == Reset(t) IN
         /\ WellFormed(u) /\ u.role = "s" /\ u.reverse = FALSE /\ u.bidirectional = FALSE
         /\ u.sender_has_retransmits = DerivedRetransmits(u)
         /\ \A f \in Clean : u[f] = 0
<1> DEFINE u == Reset(t)
           cleared == [f \in DOMAIN t |-> IF f \in Zeroed THEN 0 ELSE t[f]]
           w == [cleared EXCEPT !.role = "s", !.mode = "RECEIVER"]
           x == [w EXCEPT !.protocol = "tcp"]
           y == check_sender_has_retransmits(x)
           S == {"duration", "reverse", "bidirectional", "num_streams", "blksize"}
<1>1. DOMAIN cleared = Fields /\ \A f \in Fields : cleared[f] = IF f \in Zeroed THEN 0 ELSE t[f]
  BY DEF WellFormed
<1> HIDE DEF cleared
<1>2. /\ Keeps(cleared, x, {"role", "mode", "protocol"})
      /\ x.role = "s" /\ x.mode = "RECEIVER" /\ x.protocol = "tcp"
  BY <1>1, FieldNames DEF Keeps
<1>3. u = [y EXCEPT !.duration = DURATION, !.reverse = FALSE, !.bidirectional = FALSE,
                    !.num_streams = 1, !.blksize = DEFAULT_TCP_BLKSIZE]
  BY DEF Reset, set_protocol, cleared
<1> HIDE DEF w, x
<1>4. /\ Keeps(x, y, {"sender_has_retransmits"})
      /\ y.sender_has_retransmits = (x.mode # "RECEIVER" /\ x.protocol = "tcp" /\ HasRetransmits)
  BY <1>2, CheckIs DEF Keeps
<1> HIDE DEF y, u
<1>5. Keeps(y, u, S) /\ u.reverse = FALSE /\ u.bidirectional = FALSE
  BY <1>3, <1>4, FieldNames DEF Keeps
<1>6. u.role = "s" /\ u.mode = "RECEIVER" /\ u.protocol = "tcp"
      /\ u.sender_has_retransmits = FALSE
  BY <1>2, <1>4, <1>5, FieldNames DEF Keeps
<1>7. DerivedMode(u) = "RECEIVER" /\ DerivedRetransmits(u) = FALSE
  BY <1>5, <1>6 DEF DerivedMode, DerivedRetransmits
<1>8. ASSUME NEW f \in Clean \cup AsFlags PROVE u[f] = IF f \in Zeroed THEN 0 ELSE t[f]
  <2>1. f \in Fields \ (Shape \cup S)
    BY ExchangedFields, ShapeFields DEF Clean, IfNonzero, AsFlags, Exchanged
  <2> QED BY <1>1, <1>2, <1>4, <1>5, <2>1 DEF Keeps, Shape
<1>9. Clean \subseteq Zeroed
  BY DEF Clean, IfNonzero, AsFlags, Lingers, Zeroed
<1>10. \A f \in AsFlags : u[f] \in {0, 1}
  BY <1>8 DEF WellFormed
<1>11. WellFormed(u)
  BY <1>5, <1>6, <1>7, <1>10 DEF WellFormed, Keeps
<1> QED BY <1>5, <1>6, <1>7, <1>8, <1>9, <1>11 DEF u

\* The server is ready for the next client, which starts anew.
LEMMA ResetKeeps ==
  ASSUME SettingsInv, iperf_reset_test
  PROVE  SettingsInv'
<1> USE DEF Programs
<1>0. Types /\ Structs
  BY DEF SettingsInv
<1> DEFINE u == Reset(test["server"])
<1>1. /\ DOMAIN test' = Programs /\ test'["client"] = iperf_defaults /\ test'["server"] = u
      /\ pc' \in [Programs -> Pcs] /\ pc'["client"] = "options" /\ pc'["server"] = "ready"
      /\ DOMAIN flags' = Programs /\ flags'["client"] = {}
      /\ given' \in [Programs -> Nat]
  BY <1>0 DEF iperf_reset_test, Types, Pcs
<1>2. /\ WellFormed(u) /\ u.role = "s" /\ u.reverse = FALSE /\ u.bidirectional = FALSE
      /\ u.sender_has_retransmits = DerivedRetransmits(u)
      /\ \A f \in Clean : u[f] = 0
  BY <1>0, ResetIs DEF Structs
<1> HIDE DEF u
<1>3. Types'
  BY <1>1 DEF Types
<1>4. Structs'
  <2>1. WellFormed(iperf_defaults) /\ Parsed(iperf_defaults, {})
    BY DefaultsParsed DEF Parsed
  <2> QED BY <1>1, <1>2, <2>1 DEF Structs, Parsing
<1>5. Waiting' /\ Decided' /\ FreshClient'
  BY <1>1, <1>2 DEF Waiting, Decided, FreshClient
<1> QED BY <1>1, <1>3, <1>4, <1>5 DEF SettingsInv, SettingsAgree, OneEndCondition

-----------------------------------------------------------------------------
(* The theorems.                                                           *)

\* Every step keeps the invariant: no sequence of options, tests and resets
\* leads to a struct whose fields contradict each other.
THEOREM SettingsInvariant == Spec => []SettingsInv
<1>1. SettingsInv /\ [Next]_vars => SettingsInv'
  <2> SUFFICES ASSUME SettingsInv, [Next]_vars PROVE SettingsInv'
    OBVIOUS
  <2>1. CASE UNCHANGED vars
    BY <2>1 DEF vars, SettingsInv, Types, Structs, Parsing, FreshClient, Waiting, Decided,
                SettingsAgree, OneEndCondition
  <2>2. CASE option("server") \/ (Listening /\ option("client"))
    BY <2>2, OptionKeeps DEF Programs
  <2>3. CASE end_of_options("server") \/ (Listening /\ end_of_options("client"))
    BY <2>3, EndOfOptionsKeeps DEF Programs
  <2>4. CASE \E streams \in 1 .. 2, reverse \in BOOLEAN :
               Listening /\ setUpTest(streams, reverse, 1)
    BY <2>4, SetUpKeeps
  <2>5. CASE \E mss \in {MIN_UDP_BLOCKSIZE, MAX_UDP_BLOCKSIZE} : iperf_connect(mss)
    BY <2>5, ConnectKeeps DEF MIN_UDP_BLOCKSIZE, MAX_UDP_BLOCKSIZE
  <2>6. CASE send_parameters
    BY <2>6, SendKeeps
  <2>7. CASE get_parameters
    BY <2>7, GetKeeps
  <2>8. CASE get_parameters_fails
    BY <2>8, FailsKeeps
  <2>9. CASE iperf_reset_test
    BY <2>9, ResetKeeps
  <2> QED BY <2>1, <2>2, <2>3, <2>4, <2>5, <2>6, <2>7, <2>8, <2>9 DEF Next
<1> QED BY <1>1, InitInv, PTL DEF Spec

\* The mode and the retransmission flag of an accepted test follow from its role,
\* direction and protocol, in whatever order the setters ran.
THEOREM ModeFollows == Spec => []ModeIsDerived
<1>1. SettingsInv => ModeIsDerived
  <2> SUFFICES ASSUME SettingsInv, NEW p \in Programs, pc[p] \notin {"options", "refused"}
               PROVE  /\ test[p].mode =
                           IF test[p].bidirectional THEN "BIDIRECTIONAL"
                           ELSE IF (test[p].role = "c") # test[p].reverse THEN "SENDER"
                           ELSE "RECEIVER"
                      /\ test[p].sender_has_retransmits =
                           (HasRetransmits /\ test[p].protocol = "tcp"
                              /\ test[p].mode # "RECEIVER")
    BY DEF ModeIsDerived
  <2>1. /\ WellFormed(test[p]) /\ test[p].role # "none"
        /\ test[p].sender_has_retransmits = DerivedRetransmits(test[p])
    BY DEF SettingsInv, Structs, Parsing
  <2>2. test[p].mode = DerivedMode(test[p])
    BY <2>1 DEF WellFormed
  <2> QED BY <2>1, <2>2 DEF DerivedMode, DerivedRetransmits
<1> QED BY <1>1, SettingsInvariant, PTL

\* The server of a running test has the settings of its client, for every history
\* of earlier tests, and the two sides send in opposite directions.
THEOREM ServerHasSettings == Spec => []SettingsAgree
<1>1. SettingsInv => SettingsAgree
  BY DEF SettingsInv
<1> QED BY <1>1, SettingsInvariant, PTL

\* A test that the parser accepted is ended by exactly one of time, bytes and
\* blocks, or by none if -t 0 asked for it, on the server as on the client.
THEOREM OneEnd == Spec => []OneEndCondition
<1>1. SettingsInv => OneEndCondition
  BY DEF SettingsInv
<1> QED BY <1>1, SettingsInvariant, PTL
=============================================================================

------------------------------ MODULE Settings ------------------------------
(***************************************************************************)
(* How the settings of a test come about: a client program turns its       *)
(* options into a struct iperf_test (iperf_defaults, iperf_parse_arguments *)
(* and the setters they call, iperf_connect for the block size), sends     *)
(* them as one document (send_parameters), and a server program, itself    *)
(* configured by options, takes them over (get_parameters), test after     *)
(* test with iperf_reset_test in between.                                  *)
(*                                                                         *)
(* The programs' main functions are not in the repository; that a client   *)
(* parses, connects and sends once, and that a server resets between two   *)
(* tests, is how the library is meant to be called.  The application calls *)
(* the same setters in a fixed order (setUpTest).                          *)
(*                                                                         *)
(* Options and settings are the members of tables; a numeric argument is   *)
(* a number of a small range, of which 0..MostAllowed stands for what the  *)
(* option's check accepts.  Left out are the options that only choose      *)
(* addresses, ports, files or the form of the output, and the settings     *)
(* that no option of this build can change (flowlabel, fqrate,             *)
(* congestion, server_affinity, mptcp).                                    *)
(***************************************************************************)
EXTENDS Integers, FiniteSets

CONSTANTS
    Numeric,            \* the numeric options a run offers
    Switches,           \* the options without an argument a run offers
    HasRetransmits,     \* has_tcpinfo_retransmits() of the platform
    MaxOptions,         \* bound on a client's command line
    MaxServerOptions,   \* bound on the server's command line
    MaxTests            \* bound on the tests a server ends and resets after

MostAllowed == 2        \* MAX_TIME, MAX_STREAMS, MAX_MSS, ... and 255 for TOS
DURATION == 2           \* the default duration, which the check allows
\* Sizes of a block, in order: a UDP datagram has a least and a largest size.
MIN_UDP_BLOCKSIZE == 2
MAX_UDP_BLOCKSIZE == 3
DEFAULT_TCP_BLKSIZE == 4
MAX_BLOCKSIZE == 5
UDP_RATE == 1
\* Seconds: the least and the largest reporting interval.
MIN_INTERVAL == 1
MAX_INTERVAL == 3
Undefined == {-1, 1000} \* what converting an infinite quotient to int may give

(***************************************************************************)
(* The options that store a number: the field, the least accepted          *)
(* argument and the side whose options they are.  The least argument is    *)
(* -1 where the code only checks the upper bound.                          *)
(***************************************************************************)
NumericTable ==
    [ t            |-> [field |-> "duration",        least |-> 0,  side |-> "client"],
      n            |-> [field |-> "bytes",           least |-> -1, side |-> "client"],
      k            |-> [field |-> "blocks",          least |-> -1, side |-> "client"],
      O            |-> [field |-> "omit",            least |-> 0,  side |-> "client"],
      P            |-> [field |-> "num_streams",     least |-> -1, side |-> "client"],
      w            |-> [field |-> "socket_bufsize",  least |-> -1, side |-> "client"],
      M            |-> [field |-> "mss",             least |-> -1, side |-> "client"],
      S            |-> [field |-> "tos",             least |-> 0,  side |-> "client"],
      dscp         |-> [field |-> "tos",             least |-> 0,  side |-> "client"],
      pacing_timer |-> [field |-> "pacing_timer",    least |-> -1, side |-> "client"],
      connect_time |-> [field |-> "connect_timeout", least |-> -1, side |-> "client"],
      idle_timeout |-> [field |-> "idle_timeout",    least |-> 1,  side |-> "server"],
      rcv_timeout  |-> [field |-> "rcv_timeout",     least |-> 1,  side |-> "both"] ]

\* The options whose argument has no upper bound.
Unbounded == {"n", "k", "pacing_timer", "connect_time"}

\* What is stored for argument v.  Unbounded ones are read by unit_atoi, which
\* converts a double to an unsigned number: 0 or a very large one if the double
\* is negative, as the processor has it; an int takes the lower bits of that.
Converted(o, v) ==
    IF v >= 0 \/ o \notin Unbounded THEN {v}
    ELSE {0, IF o \in {"n", "k"} THEN MostAllowed + 1 ELSE v}

\* The options that set a field to 1, or, for the strings, to a copy.
SwitchTable ==
    [ N       |-> [field |-> "no_delay",           side |-> "client"],
      Z       |-> [field |-> "zerocopy",           side |-> "client"],
      payload |-> [field |-> "repeating_payload",  side |-> "client"],
      output  |-> [field |-> "get_server_output",  side |-> "client"],
      dontfrg |-> [field |-> "dont_fragment",      side |-> "client"],
      rxcopy  |-> [field |-> "skip_rx_copy",       side |-> "client"],
      T       |-> [field |-> "title",              side |-> "client"],
      extra   |-> [field |-> "extra_data",         side |-> "client"],
      count64 |-> [field |-> "udp_counters_64bit", side |-> "both"],
      one_off |-> [field |-> "one_off",            side |-> "server"],
      daemon  |-> [field |-> "daemon",             side |-> "server"],
      F       |-> [field |-> "diskfile_name",      side |-> "both"] ]

ASSUME SettingsAssumption ==
    /\ Numeric \subseteq DOMAIN NumericTable
    /\ Switches \subseteq DOMAIN SwitchTable
    /\ HasRetransmits \in BOOLEAN
    /\ MaxOptions \in Nat /\ MaxServerOptions \in Nat /\ MaxTests \in Nat

NumericFields == {NumericTable[o].field : o \in DOMAIN NumericTable}
SwitchFields == {SwitchTable[o].field : o \in DOMAIN SwitchTable}
OtherFields ==
    {"role", "mode", "reverse", "bidirectional", "protocol", "sender_has_retransmits",
     "blksize", "rate", "burst", "stats_interval", "bitrate_limit",
     "bitrate_limit_interval", "bitrate_limit_stats_per_interval"}
Fields == NumericFields \cup SwitchFields \cup OtherFields

\* get_parameters stores the number for these, and 1 whatever the number for
\* the others of the document.
Always == {"omit", "duration", "bytes", "blocks", "num_streams"}
IfNonzero ==
    {"mss", "socket_bufsize", "blksize", "rate", "burst", "pacing_timer", "tos",
     "title", "extra_data", "zerocopy", "dont_fragment", "skip_rx_copy"}
AsFlags ==
    {"no_delay", "get_server_output", "udp_counters_64bit", "repeating_payload"}
Exchanged == Always \cup IfNonzero \cup AsFlags

VARIABLES
    test,       \* [Programs -> struct iperf_test]
    flags,      \* [Programs -> the flags iperf_parse_arguments has raised]
    length,     \* [Programs -> the local blksize of iperf_parse_arguments]
    pc,         \* [Programs -> where the program is]
    parameters, \* the document in flight, or NoDocument
    given,      \* [Programs -> number of options parsed]
    tests       \* tests the server has been through

vars == <<test, flags, length, pc, parameters, given, tests>>

Programs == {"client", "server"}
NoDocument == [none |-> TRUE]

-----------------------------------------------------------------------------
(* The struct and the setters of the role, the direction and the protocol. *)

\* iperf_new_test clears the struct, iperf_defaults fills it.
iperf_defaults ==
    [f \in Fields |->
        CASE f = "duration" -> DURATION
          [] f \in {"num_streams", "pacing_timer", "rcv_timeout", "stats_interval"} -> 1
          [] f = "connect_timeout" -> -1
          [] f = "blksize" -> DEFAULT_TCP_BLKSIZE
          [] f = "bitrate_limit_interval" -> 2
          [] f = "role" -> "none"
          [] f = "mode" -> "RECEIVER"
          [] f = "protocol" -> "tcp"
          [] f \in {"reverse", "bidirectional", "sender_has_retransmits"} -> FALSE
          [] OTHER -> 0]

check_sender_has_retransmits(t) ==
    [t EXCEPT !.sender_has_retransmits =
        t.mode # "RECEIVER" /\ t.protocol = "tcp" /\ HasRetransmits]

set_protocol(t, p) == check_sender_has_retransmits([t EXCEPT !.protocol = p])

\* The mode of a test that is not bidirectional; without a role it stays.
Direction(t, role, reverse) ==
    IF role = "none" THEN t.mode
    ELSE IF (role = "c") # reverse THEN "SENDER" ELSE "RECEIVER"

\* Mutant: the role decides although the test is bidirectional.
iperf_set_test_role_one_way(t, role) ==
    check_sender_has_retransmits(
        [t EXCEPT !.role = role, !.mode = Direction(t, role, t.reverse)])

iperf_set_test_role(t, role) ==
    check_sender_has_retransmits(
        [t EXCEPT !.role = role,
                  !.mode = IF t.bidirectional /\ ~t.reverse THEN "BIDIRECTIONAL"
                           ELSE Direction(t, role, t.reverse)])

iperf_set_test_reverse(t, reverse) ==
    check_sender_has_retransmits(
        [t EXCEPT !.reverse = reverse, !.mode = Direction(t, t.role, reverse)])

\* Both callers pass 1.
iperf_set_test_bidirectional(t) ==
    [t EXCEPT !.bidirectional = TRUE, !.mode = "BIDIRECTIONAL"]

-----------------------------------------------------------------------------
(* iperf_parse_arguments: one action per kind of option, then the checks.  *)

\* p is in the loop over its options and reads one more.
Parses(p) ==
    /\ pc[p] = "options"
    /\ given[p] < IF p = "client" THEN MaxOptions ELSE MaxServerOptions
    /\ given' = [given EXCEPT ![p] = @ + 1]
    /\ UNCHANGED <<parameters, tests>>

\* The option is taken: the struct becomes t, the flags of fs are raised.
Takes(p, t, fs) ==
    /\ test' = [test EXCEPT ![p] = t]
    /\ flags' = [flags EXCEPT ![p] = @ \cup fs]
    /\ UNCHANGED pc

\* return -1 out of the parser, or exit from the program.
Refuses(p) == pc' = [pc EXCEPT ![p] = "refused"] /\ UNCHANGED <<test, flags>>

\* The flag that an option of one side raises.
Raised(o, side) ==
    (IF side = "both" THEN {} ELSE {side}) \cup (IF o = "t" THEN {"duration"} ELSE {})

option_value(p, o, v) ==
    LET row == NumericTable[o] IN
    /\ Parses(p)
    /\ IF v \in row.least .. MostAllowed \/ (o \in Unbounded /\ v >= row.least)
       THEN \E x \in Converted(o, v) :
              Takes(p, [test[p] EXCEPT ![row.field] = x], Raised(o, row.side))
       ELSE Refuses(p)
    /\ UNCHANGED length

option_switch(p, o) ==
    LET row == SwitchTable[o] IN
    /\ Parses(p)
    /\ Takes(p, [test[p] EXCEPT ![row.field] = 1], Raised(o, row.side))
    /\ UNCHANGED length

\* -s and -c exclude each other.
option_role(p, role) ==
    /\ Parses(p)
    /\ IF test[p].role \in {"none", role}
       THEN Takes(p, iperf_set_test_role(test[p], role), {})
       ELSE Refuses(p)
    /\ UNCHANGED length

option_udp(p) ==
    /\ Parses(p)
    /\ Takes(p, set_protocol(test[p], "udp"), {"client"})
    /\ UNCHANGED length

\* -R and --bidir exclude each other.
option_reverse(p) ==
    /\ Parses(p)
    /\ IF test[p].bidirectional
       THEN Refuses(p)
       ELSE Takes(p, iperf_set_test_reverse(test[p], TRUE), {"client"})
    /\ UNCHANGED length

option_bidirectional(p) ==
    /\ Parses(p)
    /\ IF test[p].reverse
       THEN Refuses(p)
       ELSE Takes(p, iperf_set_test_bidirectional(test[p]), {"client"})
    /\ UNCHANGED length

\* -b rate[/burst]: burst is read only behind a slash (here: if it is not -1).
option_bitrate(p, rate, burst) ==
    /\ Parses(p)
    /\ IF burst = -1
       THEN Takes(p, [test[p] EXCEPT !.rate = rate], {"client", "rate"})
       ELSE IF burst \in 1 .. MostAllowed
       THEN Takes(p, [test[p] EXCEPT !.burst = burst, !.rate = rate], {"client", "rate"})
       ELSE Refuses(p)
    /\ UNCHANGED length

\* --server-bitrate-limit rate[/interval]
option_bitrate_limit(p, rate, interval) ==
    /\ Parses(p)
    /\ IF interval = 0 \/ interval \in MIN_INTERVAL .. MAX_INTERVAL
       THEN Takes(p, [test[p] EXCEPT !.bitrate_limit = rate,
                                     !.bitrate_limit_interval = interval], {"server"})
       ELSE Refuses(p)
    /\ UNCHANGED length

option_interval(p, interval) ==
    /\ Parses(p)
    /\ IF interval = 0 \/ interval \in MIN_INTERVAL .. MAX_INTERVAL
       THEN Takes(p, [test[p] EXCEPT !.stats_interval = interval], {})
       ELSE Refuses(p)
    /\ UNCHANGED length

\* -l is checked after the loop, when the protocol is known.
option_length(p, n) ==
    /\ Parses(p)
    /\ Takes(p, test[p], {"client"})
    /\ length' = [length EXCEPT ![p] = n]

\* --sctp, --nstreams, -L, -A, -C, --fq-rate: IEUNIMP in this build; --version
\* and --help print and exit, and so does an option getopt_long does not know.
option_refused(p) == Parses(p) /\ Refuses(p) /\ UNCHANGED length

\* The block size: the argument of -l or the protocol's default; for UDP 0
\* leaves the choice to iperf_connect.
BlockSize(p) ==
    IF length[p] = 0 /\ test[p].protocol = "tcp" THEN DEFAULT_TCP_BLKSIZE ELSE length[p]

BadBlockSize(p) ==
    \/ BlockSize(p) > MAX_BLOCKSIZE
    \/ /\ test[p].protocol = "udp"
       /\ BlockSize(p) # 0
       /\ BlockSize(p) \notin MIN_UDP_BLOCKSIZE .. MAX_UDP_BLOCKSIZE

\* The size of the file of -F becomes the number of bytes, if nothing else
\* ends the test; stat may fail.
UsesFileSize(p) ==
    /\ test[p].bytes = 0 /\ test[p].blocks = 0 /\ "duration" \notin flags[p]
    /\ test[p].diskfile_name = 1 /\ test[p].role = "c"

\* The checks after the loop that make the parser return -1; bytes is known.
Incompatible(p, bytes) ==
    LET t == test[p] IN
    \/ t.role = "c" /\ "server" \in flags[p]
    \/ t.role = "s" /\ "client" \in flags[p]
    \/ t.role = "c" /\ t.diskfile_name = 1 /\ t.protocol = "udp"
    \/ BadBlockSize(p)
    \/ "duration" \in flags[p] /\ (bytes # 0 \/ t.blocks # 0)
    \/ bytes # 0 /\ t.blocks # 0
    \/ t.role = "none"

\* The number of statistics periods the server's bit rate is averaged over.
StatsPerInterval(t) ==
    IF t.bitrate_limit_interval = 0 THEN {t.bitrate_limit_stats_per_interval}
    ELSE IF t.bitrate_limit_interval <= t.stats_interval THEN {1}
    ELSE IF t.stats_interval = 0 THEN Undefined
    ELSE {(2 * t.bitrate_limit_interval + t.stats_interval) \div (2 * t.stats_interval)}

\* Mutant: the default duration stays beside a number of bytes.
Duration_stays(p, bytes) == test[p].duration

\* The duration gives way to a number of bytes or blocks.
Duration(p, bytes) ==
    IF (bytes # 0 \/ test[p].blocks # 0) /\ "duration" \notin flags[p]
    THEN 0 ELSE test[p].duration

end_of_options(p) ==
    \E bytes \in IF UsesFileSize(p) THEN {0, 1} ELSE {test[p].bytes},
       periods \in StatsPerInterval(test[p]) :
        /\ pc[p] = "options"
        /\ IF Incompatible(p, bytes)
           THEN Refuses(p)
           ELSE /\ pc' = [pc EXCEPT ![p] = "ready"]
                /\ test' = [test EXCEPT
                      ![p].bytes = bytes,
                      ![p].duration = Duration(p, bytes),
                      ![p].blksize = BlockSize(p),
                      ![p].rate = IF "rate" \in flags[p] THEN @
                                  ELSE IF test[p].protocol = "udp" THEN UDP_RATE ELSE 0,
                      ![p].bitrate_limit_stats_per_interval = periods]
                /\ UNCHANGED flags
        /\ UNCHANGED <<length, parameters, given, tests>>

\* The application configures a client test with the setters alone.
setUpTest(streams, reverse, duration) ==
    /\ pc["client"] = "options" /\ given["client"] = 0
    /\ pc' = [pc EXCEPT !["client"] = "ready"]
    /\ LET t == [iperf_set_test_role(test["client"], "c") EXCEPT
                    !.num_streams = streams, !.duration = duration]
       IN test' = [test EXCEPT !["client"] =
                      IF reverse THEN iperf_set_test_reverse(t, TRUE) ELSE t]
    /\ UNCHANGED <<flags, length, parameters, given, tests>>

-----------------------------------------------------------------------------
(* From the client to the server.                                          *)

\* Only the choice of the block size is of interest; mss is what the control
\* connection reports, or the default for a UDP block.
iperf_connect(mss) ==
    /\ pc["client"] = "ready" /\ test["client"].role = "c"
    /\ pc' = [pc EXCEPT !["client"] = "connected"]
    /\ test' = [test EXCEPT !["client"].blksize =
                   IF test["client"].protocol = "udp" /\ @ = 0 THEN mss ELSE @]
    /\ UNCHANGED <<flags, length, parameters, given, tests>>

\* What the document holds: flags and the protocol as names, numbers if they
\* are always sent or not zero.
Document(t) ==
    [protocol |-> t.protocol, reverse |-> t.reverse, bidirectional |-> t.bidirectional,
     values |-> [f \in Always \cup {g \in IfNonzero \cup AsFlags : t[g] # 0} |-> t[f]]]

send_parameters ==
    /\ pc["client"] = "connected"
    /\ pc' = [pc EXCEPT !["client"] = "sent"]
    /\ parameters' = Document(test["client"])
    /\ UNCHANGED <<test, flags, length, given, tests>>

\* The names of the document are looked up in a fixed order: the protocol
\* first, then the direction; numbers that are absent leave the field alone,
\* except bytes and blocks.
Apply(t, d) ==
    LET with_protocol == set_protocol(t, d.protocol)
        with_reverse == IF d.reverse THEN iperf_set_test_reverse(with_protocol, TRUE)
                        ELSE with_protocol
        with_direction == IF d.bidirectional THEN iperf_set_test_bidirectional(with_reverse)
                          ELSE with_reverse
        retransmits == with_direction.mode # "RECEIVER" /\ d.protocol = "tcp" /\ HasRetransmits
        Stored(f) == IF f \in DOMAIN d.values
                     THEN IF f \in AsFlags THEN 1 ELSE d.values[f]
                     ELSE IF f \in {"bytes", "blocks"} THEN 0 ELSE t[f]
    IN  [f \in Fields |->
            IF f \in Exchanged THEN Stored(f)
            ELSE IF f = "sender_has_retransmits" THEN with_direction[f] \/ retransmits
            ELSE with_direction[f]]

get_parameters ==
    /\ pc["client"] = "sent" /\ pc["server"] = "ready"
    /\ pc' = [pc EXCEPT !["server"] = "running"]
    /\ test' = [test EXCEPT !["server"] = Apply(@, parameters)]
    /\ parameters' = NoDocument
    /\ UNCHANGED <<flags, length, given, tests>>

\* JSON_read returns NULL: the connection broke or the time ran out.
get_parameters_fails ==
    /\ pc["client"] = "sent" /\ pc["server"] = "ready"
    /\ pc' = [pc EXCEPT !["server"] = "failed"]
    /\ parameters' = NoDocument
    /\ UNCHANGED <<test, flags, length, given, tests>>

\* Mutant: the next client inherits no_delay.
Zeroed_but_no_delay ==
    {"omit", "socket_bufsize", "rate", "burst", "mss", "tos", "dont_fragment",
     "zerocopy", "skip_rx_copy", "udp_counters_64bit", "title", "extra_data"}

\* The fields iperf_reset_test sets to 0 or NULL.
Zeroed ==
    {"omit", "no_delay", "socket_bufsize", "rate", "burst", "mss", "tos", "dont_fragment",
     "zerocopy", "skip_rx_copy", "udp_counters_64bit", "title", "extra_data"}

\* The struct iperf_reset_test leaves behind.
Reset(t) ==
    LET cleared == [f \in DOMAIN t |-> IF f \in Zeroed THEN 0 ELSE t[f]]
    IN  [set_protocol([cleared EXCEPT !.role = "s", !.mode = "RECEIVER"], "tcp")
            EXCEPT !.duration = DURATION, !.reverse = FALSE, !.bidirectional = FALSE,
                   !.num_streams = 1, !.blksize = DEFAULT_TCP_BLKSIZE]

\* The server's test is over, however it ended; the next client starts anew.
iperf_reset_test ==
    /\ pc["server"] \in {"running", "failed"}
    /\ tests < MaxTests
    /\ tests' = tests + 1
    /\ test' = [client |-> iperf_defaults, server |-> Reset(test["server"])]
    /\ pc' = [client |-> "options", server |-> "ready"]
    /\ flags' = [flags EXCEPT !["client"] = {}]
    /\ length' = [length EXCEPT !["client"] = 0]
    /\ given' = [given EXCEPT !["client"] = 0]
    /\ parameters' = NoDocument

-----------------------------------------------------------------------------
Init ==
    /\ test = [p \in Programs |-> iperf_defaults]
    /\ flags = [p \in Programs |-> {}]
    /\ length = [p \in Programs |-> 0]
    /\ pc = [p \in Programs |-> "options"]
    /\ parameters = NoDocument
    /\ given = [p \in Programs |-> 0]
    /\ tests = 0

option(p) ==
    \/ \E o \in Numeric, v \in {-1, 0, MostAllowed, MostAllowed + 1} :
          v >= NumericTable[o].least - 1 /\ option_value(p, o, v)
    \/ \E o \in Switches : option_switch(p, o)
    \/ \E role \in {"c", "s"} : option_role(p, role)
    \/ option_udp(p)
    \/ option_reverse(p)
    \/ option_bidirectional(p)
    \/ \E burst \in -1 .. 1 : option_bitrate(p, 2, burst)
    \/ \E interval \in {MAX_INTERVAL, MAX_INTERVAL + 1} : option_bitrate_limit(p, 1, interval)
    \/ \E interval \in {0, MAX_INTERVAL + 1} : option_interval(p, interval)
    \/ \E n \in {1, 3, 4, MAX_BLOCKSIZE + 1} : option_length(p, n)
    \/ option_refused(p)

\* A client is started when the server waits for one.
Listening == pc["server"] = "ready" /\ test["server"].role = "s"

Next ==
    \/ option("server")
    \/ end_of_options("server")
    \/ Listening /\ option("client")
    \/ Listening /\ end_of_options("client")
    \/ \E streams \in 1 .. 2, reverse \in BOOLEAN :
          Listening /\ setUpTest(streams, reverse, 1)
    \/ \E mss \in {MIN_UDP_BLOCKSIZE, MAX_UDP_BLOCKSIZE} : iperf_connect(mss)
    \/ send_parameters
    \/ get_parameters
    \/ get_parameters_fails
    \/ iperf_reset_test

Spec == Init /\ [][Next]_vars

-----------------------------------------------------------------------------
(* Properties.                                                             *)

\* The mode of an accepted test and whether its sender reports retransmissions follow
\* from the role, the direction and the protocol alone: the order in which
\* options, setters and the fields of the document set them does not matter
\* (iperf_set_test_role, iperf_set_test_reverse, iperf_set_test_bidirectional,
\* set_protocol, get_parameters, iperf_reset_test).
ModeIsDerived ==
    \A p \in Programs :
        LET t == test[p] IN
        pc[p] \notin {"options", "refused"} =>
            /\ t.mode = IF t.bidirectional THEN "BIDIRECTIONAL"
                        ELSE IF (t.role = "c") # t.reverse THEN "SENDER" ELSE "RECEIVER"
            /\ t.sender_has_retransmits =
                    (HasRetransmits /\ t.protocol = "tcp" /\ t.mode # "RECEIVER")

\* What a client is sent with stays with the server for its next client:
\* neither get_parameters nor iperf_reset_test clears these fields.  The
\* 64-bit counters are cleared, but a server may be started with them.
Lingers == {"pacing_timer", "get_server_output", "repeating_payload",
            "udp_counters_64bit"}

\* A server that runs a test has the settings of this client, whatever the
\* earlier clients asked for and whatever the server's own options were, and
\* the two sides send in opposite directions (send_parameters, get_parameters,
\* iperf_reset_test).  A field of Lingers is only sure to be on if the client
\* wants it on.
SettingsAgree ==
    pc["server"] = "running" =>
        LET c == test["client"]
            s == test["server"]
        IN  /\ \A f \in Exchanged : (f \in Lingers /\ c[f] = 0) \/ s[f] = c[f]
            /\ c.protocol = s.protocol
            /\ c.role = "c" /\ s.role = "s"
            /\ <<c.mode, s.mode>> \in {<<"SENDER", "RECEIVER">>, <<"RECEIVER", "SENDER">>,
                                       <<"BIDIRECTIONAL", "BIDIRECTIONAL">>}

\* A test that the parser accepted, and the same test on the server, is ended
\* by exactly one of time, bytes and blocks; by none of them only if the user
\* asked for no limit with -t 0 (iperf_parse_arguments, get_parameters).
OneEndCondition ==
    LET Ends(t) == {f \in {"duration", "bytes", "blocks"} : t[f] # 0}
        Endless == "duration" \in flags["client"] /\ test["client"].duration = 0
    IN  /\ pc["client"] \in {"ready", "connected", "sent"} =>
               Cardinality(Ends(test["client"])) = IF Endless THEN 0 ELSE 1
        /\ pc["server"] = "running" => Ends(test["server"]) = Ends(test["client"])

=============================================================================

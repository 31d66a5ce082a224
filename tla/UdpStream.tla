----------------------------- MODULE UdpStream -----------------------------
(***************************************************************************)
(* One UDP stream: iperf_udp_send in the sender's worker thread,           *)
(* iperf_udp_recv in the receiver's, and the receiver's main thread, which *)
(* reads the same counters in iperf_stats_callback and copies them in      *)
(* iperf_reset_stats when the omit period is over.  No lock is taken: each *)
(* write of the worker and each read of the main thread is a step.         *)
(*                                                                         *)
(* The network may lose, reorder and repeat datagrams: any datagram ever   *)
(* sent may arrive at any time.  A sequence number travels modulo Modulus: *)
(* 2^32, or 2^64 with udp_counters_64bit.                                  *)
(***************************************************************************)
EXTENDS Integers, FiniteSets

CONSTANTS
  Modulus,      \* how far the number in a datagram counts
  MaxPackets,   \* bound: datagrams sent
  MaxLate       \* bound: datagrams counted as out of order

ASSUME ModulusAssumption == Modulus \in Nat \ {0}
ASSUME BoundsAssumption  == MaxPackets \in Nat /\ MaxLate \in Nat

VARIABLES
  sent,      \* sp->packet_count of the sender
  sending,   \* iperf_udp_send has raised it and is in its write
  wire,      \* the datagrams that have been sent, by number
  arrived,   \* those of them that have come out of the network
  repeated,  \* some datagram has come out more than once
  running,   \* the receiver's test->state is TEST_RUNNING
  step,      \* where the receiver's worker is in iperf_udp_recv
  hand,      \* the number of the datagram it is counting
  seen,      \* the numbers of the datagrams it has counted
  packet_count, cnt_error, outoforder_packets,    \* sp-> of the receiver
  omitting,  \* test->omitting: the omit timer has yet to fire
  main,      \* what the receiver's main thread is in the middle of
  omitted_packet_count, omitted_cnt_error, omitted_outoforder_packets,  \* sp-> of the receiver
  irp,       \* packet_count in the last interval result
  intervals  \* the sum of interval_packet_count over the interval results

network  == <<sent, sending, wire, arrived, repeated>>
worker   == <<step, hand, seen, packet_count, cnt_error, outoforder_packets>>
omit     == <<omitted_packet_count, omitted_cnt_error, omitted_outoforder_packets>>
interval == <<irp, intervals>>
vars     == <<network, running, worker, omitting, main, omit, interval>>

TypeOK ==
  /\ sent     \in Nat
  /\ sending  \in BOOLEAN
  /\ wire     \in SUBSET (Nat \ {0})
  /\ arrived  \in SUBSET wire
  /\ repeated \in BOOLEAN
  /\ running  \in BOOLEAN
  /\ step     \in {"between", "compare", "forward", "late"}
  /\ hand     \in Nat
  /\ seen     \in SUBSET arrived
  /\ packet_count       \in Nat
  /\ cnt_error          \in Nat
  /\ outoforder_packets \in Nat
  /\ omitting \in BOOLEAN
  /\ main     \in {"idle", "interval", "errors", "reordered"}
  /\ omitted_packet_count       \in Nat
  /\ omitted_cnt_error          \in Nat
  /\ omitted_outoforder_packets \in Nat
  /\ irp       \in Nat
  /\ intervals \in Nat

Init ==
  /\ sent     = 0
  /\ sending  = FALSE
  /\ wire     = {}
  /\ arrived  = {}
  /\ repeated = FALSE
  /\ running  = TRUE
  /\ step     = "between"
  /\ hand     = 0
  /\ seen     = {}
  /\ packet_count       = 0
  /\ cnt_error          = 0
  /\ outoforder_packets = 0
  /\ omitting \in BOOLEAN
  /\ main     = "idle"
  /\ omitted_packet_count       = 0
  /\ omitted_cnt_error          = 0
  /\ omitted_outoforder_packets = 0
  /\ irp       = 0
  /\ intervals = 0

\* iperf_udp_send raises packet_count and writes the number into the datagram.
iperf_udp_send ==
  /\ ~sending
  /\ sent < MaxPackets
  /\ sent'    = sent + 1
  /\ sending' = TRUE
  /\ UNCHANGED <<wire, arrived, repeated, running, worker, omitting, main, omit, interval>>

\* Its Nwrite: the datagram is out, or packet_count is lowered again so that the
\* number is used again.
Nwrite ==
  /\ sending
  /\ sending' = FALSE
  /\ \/ wire' = wire \cup {sent} /\ sent' = sent
     \/ sent' = sent - 1 /\ wire' = wire
  /\ UNCHANGED <<arrived, repeated, running, worker, omitting, main, omit, interval>>

\* Datagram p arrives; it is counted only while the test runs.
iperf_udp_recv(p) ==
  /\ step = "between"
  /\ outoforder_packets < MaxLate
  /\ arrived'  = arrived \cup {p}
  /\ repeated' = (repeated \/ p \in arrived)
  /\ IF running THEN step' = "compare" /\ hand' = p
                ELSE UNCHANGED <<step, hand>>
  /\ UNCHANGED <<sent, sending, wire, running, seen, packet_count, cnt_error,
                 outoforder_packets, omitting, main, omit, interval>>

\* The number that the datagram carries.
pcount == hand % Modulus

\* Mutant: a gap of a single datagram goes unnoticed.
Account_off_by_one ==
  /\ step = "compare"
  /\ IF pcount >= packet_count + 1
     THEN /\ step' = "forward"
          /\ cnt_error' = IF pcount > packet_count + 2
                          THEN cnt_error + (pcount - 1) - packet_count ELSE cnt_error
          /\ UNCHANGED outoforder_packets
     ELSE /\ step' = "late"
          /\ outoforder_packets' = outoforder_packets + 1
          /\ UNCHANGED cnt_error
  /\ UNCHANGED <<network, running, hand, seen, packet_count, omitting, main, omit, interval>>

\* The first write of iperf_udp_recv: a gap is a loss, a number that does not go
\* forward is out of order.
Account ==
  /\ step = "compare"
  /\ IF pcount >= packet_count + 1
     THEN /\ step' = "forward"
          /\ cnt_error' = IF pcount > packet_count + 1
                          THEN cnt_error + (pcount - 1) - packet_count ELSE cnt_error
          /\ UNCHANGED outoforder_packets
     ELSE /\ step' = "late"
          /\ outoforder_packets' = outoforder_packets + 1
          /\ UNCHANGED cnt_error
  /\ UNCHANGED <<network, running, hand, seen, packet_count, omitting, main, omit, interval>>

\* The second write of the forward branch: the highest number seen.
Account_forward ==
  /\ step = "forward"
  /\ step' = "between"
  /\ seen' = seen \cup {hand}
  /\ packet_count' = pcount
  /\ UNCHANGED <<network, running, hand, cnt_error, outoforder_packets, omitting, main,
                 omit, interval>>

\* Mutant: a late datagram does not take a loss away.
Account_late_keeps ==
  /\ step = "late"
  /\ step' = "between"
  /\ seen' = seen \cup {hand}
  /\ UNCHANGED <<network, running, hand, packet_count, cnt_error, outoforder_packets,
                 omitting, main, omit, interval>>

\* The second write of the other branch: a late datagram takes a loss away.
Account_late ==
  /\ step = "late"
  /\ step' = "between"
  /\ seen' = seen \cup {hand}
  /\ cnt_error' = IF cnt_error > 0 THEN cnt_error - 1 ELSE cnt_error
  /\ UNCHANGED <<network, running, hand, packet_count, outoforder_packets, omitting, main,
                 omit, interval>>

\* The omit timer, in the thread that also runs iperf_stats_callback, copies the
\* three counters one after the other.
iperf_reset_stats ==
  /\ main = "idle" /\ omitting
  /\ omitting' = FALSE
  /\ main'     = "errors"
  /\ omitted_packet_count' = packet_count
  /\ UNCHANGED <<network, running, worker, omitted_cnt_error, omitted_outoforder_packets,
                 interval>>

iperf_reset_stats_errors ==
  /\ main = "errors"
  /\ main' = "reordered"
  /\ omitted_cnt_error' = cnt_error
  /\ UNCHANGED <<network, running, worker, omitting, omitted_packet_count,
                 omitted_outoforder_packets, interval>>

\* Mutant: packet_count is copied after the others.
iperf_reset_stats_packets_last ==
  /\ main = "reordered"
  /\ main' = "idle"
  /\ omitted_packet_count'       = packet_count
  /\ omitted_outoforder_packets' = outoforder_packets
  /\ UNCHANGED <<network, running, worker, omitting, omitted_cnt_error, interval>>

iperf_reset_stats_reordered ==
  /\ main = "reordered"
  /\ main' = "idle"
  /\ omitted_outoforder_packets' = outoforder_packets
  /\ UNCHANGED <<network, running, worker, omitting, omitted_packet_count, omitted_cnt_error,
                 interval>>

\* The UDP part of iperf_stats_callback reads packet_count for the interval and
\* once more to remember it; the worker thread does not wait for it.
iperf_stats_callback ==
  /\ main = "idle"
  /\ main'     = "interval"
  /\ intervals' = intervals + packet_count - irp
  /\ UNCHANGED <<network, running, worker, omitting, omit, irp>>

\* Mutant: the next interval starts where the last one did.
iperf_stats_callback_save_stale ==
  /\ main = "interval"
  /\ main' = "idle"
  /\ UNCHANGED <<network, running, worker, omitting, omit, interval>>

iperf_stats_callback_save ==
  /\ main = "interval"
  /\ main' = "idle"
  /\ irp'  = packet_count
  /\ UNCHANGED <<network, running, worker, omitting, omit, intervals>>

\* test->state leaves TEST_RUNNING, by a message that the main thread handles.
test_end ==
  /\ main = "idle" /\ running
  /\ running' = FALSE
  /\ UNCHANGED <<network, worker, omitting, main, omit, interval>>

Next ==
  \/ iperf_udp_send
  \/ Nwrite
  \/ \E p \in wire : iperf_udp_recv(p)
  \/ Account
  \/ Account_forward
  \/ Account_late
  \/ iperf_reset_stats
  \/ iperf_reset_stats_errors
  \/ iperf_reset_stats_reordered
  \/ iperf_stats_callback
  \/ iperf_stats_callback_save
  \/ test_end

Spec == Init /\ [][Next]_vars

-----------------------------------------------------------------------------
(* Properties.                                                             *)

\* The datagrams up to the highest number seen that were sent and have not been
\* counted.
Missing == {p \in wire : p <= packet_count} \ seen

\* As long as the numbers do not wrap, the loss that iperf_udp_recv counts in
\* constant space is the true one, in whatever order the datagrams come, until the
\* network repeats one; only between the two writes for a gap is the loss ahead of
\* the highest number.
ExactLoss ==
  ~repeated /\ sent < Modulus /\ step # "forward" => cnt_error = Cardinality(Missing)

\* With repeated datagrams the loss may come out too small, as the comment in
\* iperf_udp_recv fears, but never too large.
LossNotOverstated ==
  sent < Modulus /\ step # "forward" => cnt_error <= Cardinality(Missing)

\* Between two datagrams, the loss counted since the omit period is never more than
\* the packets counted since then, also when numbers wrap and whatever the worker did
\* between the copies of iperf_reset_stats: iperf_print_results has no loss above
\* 100% to print.  It takes the order of the copies, packet_count first.
LossWithinPackets ==
  step # "forward" /\ main # "errors" =>
    cnt_error - omitted_cnt_error <= packet_count - omitted_packet_count

\* However the worker thread and iperf_stats_callback interleave, the intervals of a
\* receiver together never show more packets than its stream.
IntervalsDoNotOvercount ==
  intervals <= packet_count

=============================================================================

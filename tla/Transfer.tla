------------------------------ MODULE Transfer ------------------------------
(***************************************************************************)
(* The data phase of a TCP test without a target rate: the worker threads  *)
(* that send and receive, the byte counters they share with the main       *)
(* thread, the interval statistics and the end of the omitted period that  *)
(* the main thread takes from those counters, the conditions that end the  *)
(* test, the server's limit on the total rate, and the two summaries after *)
(* the exchange of results.                                                *)
(*                                                                         *)
(* Every counter is atomic, but a worker updates four of them for one      *)
(* block, and the main thread reads and clears them one at a time: each of *)
(* these accesses is a step.  Workers are cancelled asynchronously, between*)
(* any two of their steps.  How the phases are negotiated is in            *)
(* ControlProtocol; here the control messages arrive in order.             *)
(***************************************************************************)
EXTENDS Integers, Sequences, FiniteSets, SequencesExt, FiniteSetsExt

CONSTANTS
  Confs,       \* the settings a test may run with
  Block,       \* settings->blksize
  Multisend,   \* test->multisend
  SocketSize,  \* bytes a connection holds between write and read
  RateLimit,   \* bytes per interval that bitrate_limit allows
  Window,      \* bitrate_limit_stats_per_interval
  MaxStats,    \* bound: intervals the server checks against its limit
  MaxEintr,    \* bound: writes cut short by a signal
  MaxNobufs    \* bound: bytes of writes that fail with ENOBUFS half way

Ends == {"client", "server"}

\* A test: which end sends each stream, settings->bytes and ->blocks (0 for no
\* limit; with neither, the test timer ends the test), whether there is an
\* omitted period, the ends whose stats_interval is not zero, whether the server
\* has a bitrate_limit, the size of the client's file (0 for none), what may go wrong
\* with a write, and the bound on the bytes each stream sends after the omitted period.
ConfType == [sender : Seq(Ends), bytes : Nat, blocks : Nat, omit : BOOLEAN,
             interval : SUBSET Ends, limited : BOOLEAN, file : Nat,
             faults : SUBSET {"eintr", "nobufs"}, max_bytes : Seq(Nat)]

ASSUME TransferAssumption ==
  /\ {Block, Multisend, SocketSize, Window} \subseteq Nat \ {0}
  /\ {RateLimit, MaxStats, MaxEintr, MaxNobufs} \subseteq Nat
  /\ Confs \subseteq {c \in ConfType : c.sender # <<>>}
  /\ \A c \in Confs : c.bytes = 0 \/ c.blocks = 0   \* IEENDCONDITIONS (Settings)

VARIABLES
  conf,
  test,     \* per end: the fields of struct iperf_test
  result,   \* per end and stream: the fields of struct iperf_stream_result
  pending,  \* sp->pending_size of the sender
  disk,     \* the sender's file: diskfile_left, the local buffer_left, bytes not yet read
  worker,   \* per end and stream: where its thread is, r and multisend
  wire,     \* per stream: bytes written and not yet read
  open,     \* the server has not closed its stream sockets
  main,     \* per end: where the main thread is, and the locals of iperf_stats_callback
  ctrl,     \* per end: the control messages on their way to it
  rate,     \* the server's bitrate_limit_... fields
  summary,  \* per end: what iperf_print_results printed, <<>> before
  reported, \* per end and stream: sum of the intervals printed since the omitted period
  totals,   \* the totals the server checked against its limit
  eintr,    \* writes cut short so far
  nobufs    \* per stream: bytes of writes that failed with ENOBUFS

vars == <<conf, test, result, pending, disk, worker, wire, open, main, ctrl, rate,
          summary, reported, totals, eintr, nobufs>>

-----------------------------------------------------------------------------
AllStreams  == UNION {DOMAIN c.sender : c \in Confs}
Streams     == DOMAIN conf.sender
NumStreams  == Len(conf.sender)
Other(e)    == CHOOSE o \in Ends : o # e
Sends(e, s) == conf.sender[s] = e
Least(a, b) == IF a < b THEN a ELSE b
\* A control message: a test state, or a document of results.
Message(state) == [state |-> state, doc |-> <<>>]
Results(doc)   == [state |-> "results", doc |-> doc]

\* The server has just said TEST_RUNNING and started its workers.
Init ==
  /\ conf \in Confs
  /\ test = [e \in Ends |->
       [state |-> IF e = "server" THEN "TEST_RUNNING" ELSE "TEST_START",
        done |-> FALSE, omitting |-> conf.omit, bytes_sent |-> 0, blocks_sent |-> 0,
        bytes_received |-> 0, blocks_received |-> 0]]
  \* bytes and interval are the counters of the stream's own direction at this
  \* end (bytes_sent for a sender), peer the other one, told by get_results, and last
  \* what interval_results holds.
  /\ result = [e \in Ends |-> [s \in Streams |->
       [bytes |-> 0, interval |-> 0, bytes_sent_omit |-> 0, peer |-> 0, last |-> 0]]]
  /\ pending = [s \in Streams |-> 0]
  /\ disk = [s \in Streams |-> [diskfile_left |-> 0, buffer_left |-> 0, unread |-> conf.file]]
  /\ worker = [e \in Ends |-> [s \in Streams |->
       [pc |-> IF e = "server" THEN "top" ELSE "none", r |-> 0, multisend |-> 0]]]
  /\ wire = [s \in Streams |-> 0] /\ open = TRUE
  /\ main = [e \in Ends |-> [pc |-> "select", s |-> 0, seen |-> 0, total |-> 0, then |-> "select"]]
  /\ ctrl = [e \in Ends |-> IF e = "client" THEN <<Message("TEST_RUNNING")>> ELSE <<>>]
  /\ rate = [bytes |-> [i \in 0..Window - 1 |-> 0], index |-> 0, count |-> 0, exceeded |-> FALSE]
  /\ summary = [e \in Ends |-> <<>>]
  /\ reported = [e \in Ends |-> [s \in Streams |-> 0]] /\ totals = <<>>
  /\ eintr = 0 /\ nobufs = [s \in Streams |-> 0]

control  == <<main, ctrl, summary>>
counting == <<rate, reported, totals>>
sockets  == <<wire, open, eintr, nobufs>>

-----------------------------------------------------------------------------
(* Worker threads: iperf_client_worker_run and iperf_server_worker_run.    *)

Worker(e, s, pc) == worker' = [worker EXCEPT ![e][s].pc = pc]
MainIdle == UNCHANGED <<conf, control, counting>>

\* while (!test->done && !sp->done): a finished test ends the thread.
worker_ends(e, s) ==
  /\ worker[e][s].pc = "top" /\ test[e].done
  /\ Worker(e, s, "gone")
  /\ UNCHANGED <<test, result, pending, disk, sockets>> /\ MainIdle

\* Mutant: the sender stops one block early.
EndReached_early(e) ==
  \/ conf.bytes # 0 /\ test[e].bytes_sent + Block >= conf.bytes
  \/ conf.blocks # 0 /\ test[e].blocks_sent >= conf.blocks

EndReached(e) ==
  \/ conf.bytes # 0 /\ test[e].bytes_sent >= conf.bytes
  \/ conf.blocks # 0 /\ test[e].blocks_sent >= conf.blocks

\* The head of the loop in iperf_send_mt: the last of the multisend messages is
\* sent without a look at the limits.
iperf_send_mt(e, s) ==
  LET w    == worker[e][s]
      left == IF w.pc = "top" THEN Multisend ELSE w.multisend
  IN /\ Sends(e, s) /\ (w.pc = "next" \/ (w.pc = "top" /\ ~test[e].done))
     /\ worker' = [worker EXCEPT ![e][s] =
          IF left = 0 \/ (left > 1 /\ EndReached(e))
          THEN [pc |-> "top", r |-> 0, multisend |-> 0]
          ELSE [pc |-> IF conf.file = 0 THEN "snd" ELSE "file", r |-> 0, multisend |-> left - 1]]
     /\ UNCHANGED <<test, result, pending, disk, sockets>> /\ MainIdle

\* diskfile_send: fill the buffer from the file.  At its end the test is done, and
\* nothing is sent.
diskfile_send(e, s) ==
  LET d     == disk[s]
      reads == d.diskfile_left < Block /\ ~test[e].done
      n     == IF reads THEN Least(d.unread, Block - d.diskfile_left) ELSE 0
      left  == d.diskfile_left + n
      over  == test[e].done \/ left = 0
  IN /\ worker[e][s].pc = "file"
     /\ disk' = [disk EXCEPT ![s].buffer_left = left, ![s].unread = @ - n]
     /\ pending' = IF reads /\ left # Block THEN [pending EXCEPT ![s] = left] ELSE pending
     /\ test' = [test EXCEPT ![e].done = over]
     /\ Worker(e, s, IF over THEN "test" ELSE "snd")
     /\ UNCHANGED <<result, sockets>> /\ MainIdle

Unsent(s) == IF pending[s] = 0 THEN Block ELSE pending[s]
\* The bound on what a stream sends, less while the sender omits.
MaySend(e, s) ==
  result[e][s].bytes - result[e][s].bytes_sent_omit + Block
    <= IF test[e].omitting THEN Block ELSE conf.max_bytes[s]

\* iperf_tcp_send: Nwrite sends the whole of pending_size unless a signal cuts
\* it short.
iperf_tcp_send(e, s) ==
  /\ worker[e][s].pc = "snd" /\ open /\ MaySend(e, s)
  /\ \E r \in 1..Unsent(s) :
       /\ wire[s] + r <= SocketSize
       /\ r < Unsent(s) => "eintr" \in conf.faults /\ eintr < MaxEintr
       /\ wire' = [wire EXCEPT ![s] = @ + r]
       /\ eintr' = IF r < Unsent(s) THEN eintr + 1 ELSE eintr
       /\ worker' = [worker EXCEPT ![e][s].pc = "bytes", ![e][s].r = r]
  /\ pending' = [pending EXCEPT ![s] = Unsent(s)]
  /\ UNCHANGED <<test, result, disk, open, nobufs>> /\ MainIdle

\* ENOBUFS is a soft error even if part of the block was written: that part is
\* in the connection and in nobody's count.  (If nothing was written it is only tried again.)
write_nobufs(e, s) ==
  /\ worker[e][s].pc = "snd" /\ open /\ MaySend(e, s) /\ "nobufs" \in conf.faults
  /\ \E k \in 1..Unsent(s) - 1 :
       /\ wire[s] + k <= SocketSize /\ nobufs[s] + k <= MaxNobufs
       /\ wire' = [wire EXCEPT ![s] = @ + k]
       /\ nobufs' = [nobufs EXCEPT ![s] = @ + k]
  /\ pending' = [pending EXCEPT ![s] = Unsent(s)]
  /\ Worker(e, s, "top")
  /\ UNCHANGED <<test, result, disk, open, eintr>> /\ MainIdle

\* The socket was closed by the server's main thread: IESTREAMWRITE, IESTREAMREAD.
stream_error(e, s) ==
  /\ ~open /\ (worker[e][s].pc = "snd" \/ (e = "server" /\ worker[e][s].pc = "rcv"))
  /\ Worker(e, s, "gone")
  /\ UNCHANGED <<test, result, pending, disk, sockets>> /\ MainIdle

recv_starts(e, s) ==
  /\ ~Sends(e, s) /\ worker[e][s].pc = "top" /\ ~test[e].done
  /\ Worker(e, s, "rcv")
  /\ UNCHANGED <<test, result, pending, disk, sockets>> /\ MainIdle

CountsIn(e) == test[e].state = "TEST_RUNNING"

\* Mutant: the bytes are looked at and left in the socket.
Taken_not(n, r) == n

\* What a read leaves in the socket.
Taken(n, r) == n - r

\* iperf_tcp_recv: Nrecv_no_select waits for a whole block, or for the end of
\* the stream.  Only bytes received in the right state are counted.  The read and
\* the look at the state are one step: a read that the main thread overtakes does
\* what it would have done after it, for the state changes before the socket closes.
iperf_tcp_recv(e, s) ==
  /\ worker[e][s].pc = "rcv" /\ (open \/ e = "client")
  /\ wire[s] >= Block \/ ~open
  /\ LET r == Least(wire[s], Block)
     IN /\ wire' = [wire EXCEPT ![s] = Taken(@, r)]
        /\ worker' = [worker EXCEPT ![e][s].r = r,
                        ![e][s].pc = IF r = 0 THEN "top"
                                     ELSE IF CountsIn(e) THEN "bytes" ELSE "test"]
  /\ UNCHANGED <<test, result, pending, disk, open, eintr, nobufs>> /\ MainIdle

\* bytes_sent += r, or bytes_received += r.
count_bytes(e, s) ==
  /\ worker[e][s].pc = "bytes"
  /\ result' = [result EXCEPT ![e][s].bytes = @ + worker[e][s].r]
  /\ pending' = IF Sends(e, s) THEN [pending EXCEPT ![s] = @ - worker[e][s].r] ELSE pending
  /\ Worker(e, s, "interval")
  /\ UNCHANGED <<test, disk, sockets>> /\ MainIdle

\* bytes_sent_this_interval += r, or bytes_received_this_interval += r.
count_interval(e, s) ==
  /\ worker[e][s].pc = "interval"
  /\ result' = [result EXCEPT ![e][s].interval = @ + worker[e][s].r]
  /\ Worker(e, s, "test")
  /\ UNCHANGED <<test, pending, disk, sockets>> /\ MainIdle

\* Back in diskfile_send, if r is not the end of the file: what is left in the buffer.
LeftInBuffer(e, s) ==
  IF Sends(e, s) /\ conf.file # 0 /\ worker[e][s].r # 0
  THEN [disk EXCEPT ![s].diskfile_left = disk[s].buffer_left - worker[e][s].r]
  ELSE disk

\* Back in iperf_send_mt and iperf_recv_mt: the counters of the whole test.
count_test(e, s) ==
  /\ worker[e][s].pc = "test"
  /\ test' =
       IF Sends(e, s)
       THEN [test EXCEPT ![e].bytes_sent = @ + worker[e][s].r,
                         ![e].blocks_sent = IF pending[s] = 0 THEN @ + 1 ELSE @]
       ELSE [test EXCEPT ![e].bytes_received = @ + worker[e][s].r, ![e].blocks_received = @ + 1]
  /\ worker' = [worker EXCEPT ![e][s] =
       IF Sends(e, s) THEN [@ EXCEPT !.pc = "next", !.r = 0]
                      ELSE [pc |-> "top", r |-> 0, multisend |-> 0]]
  /\ disk' = LeftInBuffer(e, s)
  /\ UNCHANGED <<result, pending, sockets>> /\ MainIdle

WorkerStep(e, s) ==
  /\ s \in Streams
  /\ \/ worker_ends(e, s) \/ iperf_send_mt(e, s) \/ diskfile_send(e, s) \/ iperf_tcp_send(e, s) \/ write_nobufs(e, s)
     \/ stream_error(e, s) \/ recv_starts(e, s) \/ iperf_tcp_recv(e, s)
     \/ count_bytes(e, s) \/ count_interval(e, s) \/ count_test(e, s)

-----------------------------------------------------------------------------
(* Statistics and reports of the main thread.                              *)

WorkersIdle == UNCHANGED <<conf, pending, disk, sockets>>
At(e, pc)   == main[e].pc = pc
Go(e, pc)   == main' = [main EXCEPT ![e].pc = pc]
\* Call iperf_stats_callback, then go on at "then".
Stats(e, then) ==
  main' = [main EXCEPT ![e] = [pc |-> "read", s |-> 1, seen |-> 0, total |-> 0, then |-> then]]
\* A client looks at the end conditions after its timers; a server selects again.
AfterTimers(e) == IF e = "client" THEN "check" ELSE "select"
\* Timers run while the test does; the server runs them in every state.
TimersRun(e) == At(e, "select") /\ (e = "client" => test[e].state = "TEST_RUNNING")

\* client_stats_timer_proc and server_stats_timer_proc, which have nothing to do when
\* the test is done.
stats_timer(e) ==
  /\ TimersRun(e) /\ e \in conf.interval
  /\ e = "server" => Len(totals) < MaxStats /\ ~rate.exceeded
  /\ IF test[e].done THEN Go(e, AfterTimers(e)) ELSE Stats(e, "report")
  /\ UNCHANGED <<test, result, worker, ctrl, summary, counting>> /\ WorkersIdle

\* iperf_stats_callback, for one stream: the bytes of the interval are read once
\* for the stream,
stats_read(e) ==
  /\ At(e, "read")
  /\ main' = [main EXCEPT ![e].pc = "total", ![e].seen = result[e][main[e].s].interval]
  /\ UNCHANGED <<test, result, worker, ctrl, summary, counting>> /\ WorkersIdle

\* once more for the total,
stats_total(e) ==
  /\ At(e, "total")
  /\ main' = [main EXCEPT ![e].pc = "zero", ![e].total = @ + result[e][main[e].s].interval]
  /\ UNCHANGED <<test, result, worker, ctrl, summary, counting>> /\ WorkersIdle

\* The index of the interval to fill.
NextIndex(i) == IF i + 1 >= Window THEN 0 ELSE i + 1

\* Mutant: the first intervals are averaged with what the array held before.
EnoughIntervals_any(n) == TRUE
EnoughIntervals(n) == n >= Window

\* iperf_check_total_rate: the cyclic array of the last intervals.
iperf_check_total_rate(total) ==
  LET i     == NextIndex(rate.index)
      bytes == [j \in DOMAIN rate.bytes \cup {i} |-> IF j = i THEN total ELSE rate.bytes[j]]
      sum   == SumFunctionOnSet(bytes, 0..Window - 1)
  IN IF test["server"].done \/ ~conf.limited THEN UNCHANGED <<rate, totals>>
     ELSE /\ totals' = Append(totals, total)
          /\ rate' = [bytes |-> bytes, index |-> i, count |-> rate.count + 1,
                      exceeded |-> \/ rate.exceeded
                                  \/ /\ EnoughIntervals(rate.count + 1)
                                     /\ sum \div Window > RateLimit]

\* Mutant: the counter of the interval is not cleared.
Cleared_not(n) == n
Cleared(n) == 0

\* The list holds one interval: a new one takes the place of the old one.
add_to_interval_list(r, bytes) == [r EXCEPT !.last = bytes]

\* and cleared after the interval is stored.  The server ends with the check of the
\* total rate.
stats_zero(e) ==
  LET s    == main[e].s
      last == s = NumStreams
  IN /\ At(e, "zero")
     /\ result' = [result EXCEPT ![e][s] =
          [add_to_interval_list(@, main[e].seen) EXCEPT !.interval = Cleared(result[e][s].interval)]]
     /\ main' = [main EXCEPT ![e].pc = IF last THEN main[e].then ELSE "read",
                             ![e].s  = IF last THEN 0 ELSE s + 1,
                             ![e].seen = 0, ![e].total = IF last THEN 0 ELSE @]
     /\ IF last /\ e = "server" THEN iperf_check_total_rate(main[e].total)
                                ELSE UNCHANGED <<rate, totals>>
     /\ UNCHANGED <<test, worker, ctrl, summary, reported>> /\ WorkersIdle

\* client_omit_timer_proc, server_omit_timer_proc: the omitted period is over and
\* iperf_reset_stats clears the counters, those of the test first,
omit_timer(e) ==
  /\ TimersRun(e) /\ test[e].omitting
  /\ e = "server" => ~rate.exceeded
  /\ test' = [test EXCEPT ![e].omitting = FALSE, ![e].bytes_sent = 0, ![e].blocks_sent = 0]
  /\ main' = [main EXCEPT ![e].pc = "omit", ![e].s = 1]
  /\ UNCHANGED <<result, worker, ctrl, summary, counting>> /\ WorkersIdle

\* then for each stream what was sent so far and what was received so far,
reset_omit(e) ==
  LET s == main[e].s
  IN /\ At(e, "omit")
     /\ result' = [result EXCEPT ![e][s] =
          IF Sends(e, s) THEN [@ EXCEPT !.bytes_sent_omit = result[e][s].bytes]
          ELSE [@ EXCEPT !.bytes_sent_omit = result[e][s].peer, !.bytes = 0]]
     /\ Go(e, "clear")
     /\ UNCHANGED <<test, worker, ctrl, summary, counting>> /\ WorkersIdle

\* and the counter of the interval.
reset_interval(e) ==
  LET s == main[e].s
  IN /\ At(e, "clear")
     /\ result' = [result EXCEPT ![e][s].interval = 0]
     /\ reported' = [reported EXCEPT ![e][s] = 0]
     /\ main' = [main EXCEPT ![e].pc = IF s = NumStreams THEN AfterTimers(e) ELSE "omit",
                             ![e].s  = IF s = NumStreams THEN 0 ELSE s + 1]
     /\ UNCHANGED <<test, worker, ctrl, summary, rate, totals>> /\ WorkersIdle

Mode(e) ==
  CASE \A s \in Streams : Sends(e, s)  -> "SENDER"
    [] \A s \in Streams : ~Sends(e, s) -> "RECEIVER"
    [] OTHER                           -> "BIDIRECTIONAL"

\* lower_mode to upper_mode: the values of stream_must_be_sender, in order.
Passes(e) ==
  CASE Mode(e) = "SENDER"        -> <<TRUE>>
    [] Mode(e) = "RECEIVER"      -> <<FALSE>>
    [] Mode(e) = "BIDIRECTIONAL" -> IF e = "client" THEN <<TRUE, FALSE>> ELSE <<FALSE, TRUE>>

\* What is told of one stream: the bytes its sender sent and its receiver got.
StreamSummary(e, s) ==
  LET r == result[e][s]
  IN [sent     |-> (IF Sends(e, s) THEN r.bytes ELSE r.peer) - r.bytes_sent_omit,
      received |-> IF Sends(e, s) THEN r.peer ELSE r.bytes]

\* The sum over the streams of one direction.
Sum(e, shown, count) == SumFunction([s \in shown |-> StreamSummary(e, s)[count]])

\* iperf_print_results: one pass for each direction, its streams and their sums.
iperf_print_results(e) ==
  [p \in 1..Len(Passes(e)) |->
     LET shown == {s \in Streams : Sends(e, s) = Passes(e)[p]}
     IN [sender       |-> Passes(e)[p],
         streams      |-> [s \in shown |-> StreamSummary(e, s)],
         sum_sent     |-> Sum(e, shown, "sent"),
         sum_received |-> Sum(e, shown, "received")]]

\* The stored interval of each stream is printed; a short one without bytes is not,
\* which adds nothing.
iperf_print_intermediate(e) ==
  reported' = [reported EXCEPT ![e] = [s \in Streams |-> @[s] + result[e][s].last]]

\* The report depends on test->state.
iperf_reporter_callback(e, state) ==
  /\ IF state \in {"TEST_RUNNING", "TEST_END", "DISPLAY_RESULTS"}
     THEN iperf_print_intermediate(e) ELSE UNCHANGED reported
  /\ summary' = IF state \in {"TEST_END", "DISPLAY_RESULTS"}
                THEN [summary EXCEPT ![e] = iperf_print_results(e)] ELSE summary

\* client_reporter_timer_proc, server_reporter_timer_proc: due with the timer of the
\* statistics and created after it; a worker at the end of its file may have set done
\* in between.
reporter_timer(e) ==
  /\ At(e, "report")
  /\ IF test[e].done THEN UNCHANGED <<summary, reported>>
     ELSE iperf_reporter_callback(e, test[e].state)
  /\ Go(e, AfterTimers(e))
  /\ UNCHANGED <<test, result, worker, ctrl, rate, totals>> /\ WorkersIdle

\* Mutant: the counter of the interval is sent.
send_results_interval(e) == [s \in Streams |-> result[e][s].interval]

\* The document of send_results.
send_results(e) ==
  [s \in Streams |-> IF Sends(e, s) THEN result[e][s].bytes - result[e][s].bytes_sent_omit
                     ELSE result[e][s].bytes]

get_results(e, doc) ==
  result' = [result EXCEPT ![e] = [s \in Streams |-> [@[s] EXCEPT !.peer = doc[s]]]]

-----------------------------------------------------------------------------
(* The main thread of the client.                                          *)

Told(e, state) == ctrl[e] # <<>> /\ Head(ctrl[e]).state = state
\* Take the message at hand, send others.
Reply(e, msgs) ==
  ctrl' = [ctrl EXCEPT ![e] = Tail(@), ![Other(e)] = @ \o msgs]
\* pthread_cancel and pthread_join, wherever the threads are.
Cancel(e, streams) ==
  worker' = [worker EXCEPT ![e] = [s \in Streams |->
    IF s \in streams THEN [pc |-> "gone", r |-> 0, multisend |-> 0] ELSE @[s]]]

\* iperf_handle_message_client, TEST_RUNNING: the threads are started.
client_test_running ==
  /\ At("client", "select") /\ Told("client", "TEST_RUNNING")
  /\ test' = [test EXCEPT !["client"].state = "TEST_RUNNING"]
  /\ worker' = [worker EXCEPT !["client"] = [s \in Streams |-> [@[s] EXCEPT !.pc = "top"]]]
  /\ Reply("client", <<>>) /\ Go("client", "check")
  /\ UNCHANGED <<result, summary, counting>> /\ WorkersIdle

\* test_timer_proc; the timer exists only in a test that ends by time, and is due
\* after the omit timer.
test_timer_proc ==
  /\ TimersRun("client") /\ conf.bytes = 0 /\ conf.blocks = 0
  /\ ~test["client"].omitting /\ ~test["client"].done
  /\ test' = [test EXCEPT !["client"].done = TRUE]
  /\ Go("client", "check")
  /\ UNCHANGED <<result, worker, ctrl, summary, counting>> /\ WorkersIdle

\* Is the test done yet?
TestDone ==
  LET t == test["client"]
  IN ~t.omitting /\ (t.done \/ EndReached("client")
       \/ (conf.bytes # 0 /\ t.bytes_received >= conf.bytes)
       \/ (conf.blocks # 0 /\ t.blocks_received >= conf.blocks))

\* Yes: the senders are cancelled, and the last interval is taken.
client_check_done ==
  /\ At("client", "check")
  /\ IF TestDone
     THEN /\ test' = [test EXCEPT !["client"].done = TRUE]
          /\ Cancel("client", {s \in Streams : Sends("client", s)})
          /\ Stats("client", "test_end")
     ELSE Go("client", "select") /\ UNCHANGED <<test, worker>>
  /\ UNCHANGED <<result, ctrl, summary, counting>> /\ WorkersIdle

client_test_end ==
  /\ At("client", "test_end")
  /\ test' = [test EXCEPT !["client"].state = "TEST_END"]
  /\ ctrl' = [ctrl EXCEPT !["server"] = Append(@, Message("TEST_END"))]
  /\ Go("client", "select")
  /\ UNCHANGED <<result, worker, summary, counting>> /\ WorkersIdle

\* iperf_exchange_results of a client: send, then get.
client_exchange_results ==
  /\ At("client", "select") /\ Told("client", "EXCHANGE_RESULTS")
  /\ test' = [test EXCEPT !["client"].state = "EXCHANGE_RESULTS"]
  /\ Reply("client", <<Results(send_results("client"))>>)
  /\ Go("client", "results")
  /\ UNCHANGED <<result, worker, summary, counting>> /\ WorkersIdle

client_get_results ==
  /\ At("client", "results") /\ Told("client", "results")
  /\ get_results("client", Head(ctrl["client"]).doc)
  /\ Reply("client", <<>>) /\ Go("client", "select")
  /\ UNCHANGED <<test, worker, summary, counting>> /\ WorkersIdle

\* DISPLAY_RESULTS: iperf_client_end prints the results and says IPERF_DONE.
client_display_results ==
  /\ At("client", "select") /\ Told("client", "DISPLAY_RESULTS")
  /\ iperf_reporter_callback("client", "DISPLAY_RESULTS")
  /\ test' = [test EXCEPT !["client"].state = "IPERF_DONE"]
  /\ Reply("client", <<Message("IPERF_DONE")>>) /\ Go("client", "join")
  /\ UNCHANGED <<result, worker, rate, totals>> /\ WorkersIdle

\* The receivers are cancelled last.
client_join ==
  /\ At("client", "join")
  /\ Cancel("client", Streams) /\ Go("client", "done")
  /\ UNCHANGED <<test, result, ctrl, summary, counting>> /\ WorkersIdle

\* A failing client reports once more, in iperf_client_end.
GivesUp(e) ==
  /\ Cancel(e, Streams) /\ Go(e, "aborted")
  /\ open' = (open /\ e # "server")
  /\ IF e = "client" THEN iperf_reporter_callback(e, test[e].state)
                     ELSE UNCHANGED <<summary, reported>>
  /\ UNCHANGED <<conf, test, result, pending, disk, wire, ctrl, rate, totals, eintr, nobufs>>

\* The other end gave up: its control connection is closed.
ctrl_closed(e) ==
  At(e, "select") /\ ctrl[e] = <<>> /\ At(Other(e), "aborted") /\ GivesUp(e)

\* Nothing will move until the client ends the test: the senders have reached the
\* limit and the receivers wait for a block that is not there.
Quiet ==
  /\ \A e \in Ends : At(e, "select") /\ ctrl[e] = <<>> /\ test[e].state = "TEST_RUNNING"
  /\ \A e \in Ends, s \in Streams :
       IF Sends(e, s) THEN worker[e][s].pc = "top" /\ EndReached(e)
                      ELSE worker[e][s].pc = "rcv" /\ wire[s] < Block
\* Without a timer the client selects until a message comes.
ClientWakes == "client" \in conf.interval \/ test["client"].omitting

\* Mutant: there is no such timeout.
client_rcv_timeout_none == Quiet /\ FALSE /\ UNCHANGED vars

\* rcv_timeout, far longer than the interval of a timer: a client that receives looks
\* at the end conditions if it got blocks since it last woke, and fails otherwise.
client_rcv_timeout ==
  /\ Quiet /\ Mode("client") # "SENDER"
  /\ IF TestDone
     THEN /\ ~ClientWakes /\ Go("client", "check")
          /\ UNCHANGED <<test, result, worker, ctrl, summary, counting>> /\ WorkersIdle
     ELSE GivesUp("client")

-----------------------------------------------------------------------------
(* The main thread of the server.                                          *)

\* The loop begins with a look at bitrate_limit_exceeded: cleanup_server, IETOTALRATE.
server_total_rate ==
  At("server", "select") /\ rate.exceeded /\ GivesUp("server")

\* rcv_timeout of a server that receives: IENOMSG, if the client sleeps that long.
server_rcv_timeout ==
  Quiet /\ Mode("server") # "SENDER" /\ ~ClientWakes /\ ~rate.exceeded /\ GivesUp("server")

\* iperf_handle_message_server, TEST_END: statistics first,
server_test_end ==
  /\ At("server", "select") /\ ~rate.exceeded /\ Told("server", "TEST_END")
  /\ test' = [test EXCEPT !["server"].state = "TEST_END", !["server"].done = TRUE]
  /\ Stats("server", "test_end")
  /\ ctrl' = [ctrl EXCEPT !["server"] = Tail(@)]
  /\ UNCHANGED <<result, worker, summary, counting>> /\ WorkersIdle

\* then the stream sockets are closed, the report is printed, and results are asked
\* for; the threads are still there.
server_report ==
  /\ At("server", "test_end")
  /\ open' = FALSE
  /\ iperf_reporter_callback("server", "TEST_END")
  /\ test' = [test EXCEPT !["server"].state = "EXCHANGE_RESULTS"]
  /\ ctrl' = [ctrl EXCEPT !["client"] = Append(@, Message("EXCHANGE_RESULTS"))]
  /\ Go("server", "results")
  /\ UNCHANGED <<conf, result, worker, pending, disk, wire, rate, totals, eintr, nobufs>>

\* iperf_exchange_results of a server: get, then send; then DISPLAY_RESULTS.
server_exchange_results ==
  /\ At("server", "results") /\ Told("server", "results")
  /\ get_results("server", Head(ctrl["server"]).doc)
  /\ Reply("server", <<Results(send_results("server")), Message("DISPLAY_RESULTS")>>)
  /\ test' = [test EXCEPT !["server"].state = "DISPLAY_RESULTS"]
  /\ Go("server", "select")
  /\ UNCHANGED <<worker, summary, counting>> /\ WorkersIdle

\* IPERF_DONE: cleanup_server.
server_done ==
  /\ At("server", "select") /\ ~rate.exceeded /\ Told("server", "IPERF_DONE")
  /\ test' = [test EXCEPT !["server"].state = "IPERF_DONE"]
  /\ ctrl' = [ctrl EXCEPT !["server"] = Tail(@)]
  /\ Cancel("server", Streams) /\ Go("server", "done")
  /\ UNCHANGED <<result, summary, counting>> /\ WorkersIdle

\* The main thread at work, in a handler or a callback,
MainStep(e) ==
  \/ stats_read(e) \/ stats_total(e) \/ stats_zero(e) \/ reporter_timer(e)
  \/ reset_omit(e) \/ reset_interval(e)
  \/ e = "client" /\ (client_check_done \/ client_test_end \/ client_join)
  \/ e = "server" /\ server_report
\* or back in select.
ClientSelect ==
  \/ client_test_running \/ client_exchange_results \/ client_get_results
  \/ client_display_results \/ ctrl_closed("client")
ServerSelect ==
  \/ server_total_rate \/ server_test_end \/ server_exchange_results \/ server_done
  \/ server_rcv_timeout \/ ctrl_closed("server")
Timer == test_timer_proc \/ \E e \in Ends : stats_timer(e) \/ omit_timer(e)

Next ==
  \/ \E e \in Ends, s \in AllStreams : WorkerStep(e, s)
  \/ \E e \in Ends : MainStep(e)
  \/ ClientSelect \/ ServerSelect \/ client_rcv_timeout \/ Timer

\* Threads are scheduled.  Due timers run in the order of their times (Timers), and a
\* readable control connection is looked at in every round of the client's loop, so that
\* its periodic timers keep nothing else from running.
Fairness ==
  /\ \A e \in Ends, s \in AllStreams : WF_vars(WorkerStep(e, s))
  /\ \A e \in Ends : WF_vars(MainStep(e))
  /\ SF_vars(ClientSelect \/ client_rcv_timeout)
  /\ SF_vars(omit_timer("client") \/ test_timer_proc)
  /\ WF_vars(ServerSelect) /\ WF_vars(omit_timer("server")) /\ WF_vars(stats_timer("client"))

Spec == Init /\ [][Next]_vars /\ Fairness

-----------------------------------------------------------------------------
ThreadPcs == {"none", "top", "next", "file", "snd", "rcv", "bytes", "interval", "test", "gone"}

\* The type invariant; no counter becomes negative and no message has a wrong shape.
TypeOK ==
  /\ conf \in Confs
  /\ \A e \in Ends :
       /\ test[e].done \in BOOLEAN /\ test[e].omitting \in BOOLEAN
       /\ test[e].bytes_sent \in Nat /\ test[e].bytes_received \in Nat
       /\ \A s \in Streams :
            /\ {result[e][s].bytes, result[e][s].interval, result[e][s].peer} \subseteq Nat
            /\ Sends(e, s) => result[e][s].bytes_sent_omit <= result[e][s].bytes
            /\ worker[e][s].pc \in ThreadPcs /\ worker[e][s].r \in 0..Block
  /\ \A s \in Streams : pending[s] \in 0..Block /\ wire[s] \in 0..SocketSize
  /\ rate.bytes \in [0..Window - 1 -> Nat] /\ rate.index \in 0..Window - 1

Counted(e, s) ==
  IF Sends(e, s) THEN result[e][s].bytes - result[e][s].bytes_sent_omit ELSE result[e][s].bytes

\* The intervals printed for a stream never add up to more than its total: what a worker
\* counts while iperf_stats_callback reads and clears is lost or reported once, and no
\* interval is printed twice, but for the last one of a client that fails.  A block
\* counted across the end of the omitted period may be on both sides of it.
IntervalsWithinTotals ==
  \A e \in Ends, s \in Streams :
    main[e].pc \notin {"omit", "clear", "aborted"} =>
      reported[e][s] + result[e][s].interval
        <= Counted(e, s) + (IF conf.omit THEN Block ELSE 0)

BothPrinted == \A e \in Ends : summary[e] # <<>>
Pass(e, sender) == CHOOSE p \in Range(summary[e]) : p.sender = sender
Directions(e) == {p.sender : p \in Range(summary[e])}

\* The server prints before its threads have stopped, the client prints what the server
\* sends after that: they differ by no more than the block each thread was counting.
ReportsAgree ==
  BothPrinted =>
    /\ Directions("client") = {~d : d \in Directions("server")}
    /\ \A d \in Directions("server") :
         LET mine   == Pass("server", d)
             theirs == Pass("client", ~d)
             late   == IF d THEN theirs.sum_sent - mine.sum_sent
                            ELSE theirs.sum_received - mine.sum_received
         IN late \in 0..Block * Cardinality(DOMAIN mine.streams)

\* A client never reports more bytes received than sent on a stream, but for the block
\* that was written and not counted when the sender was stopped, and for the parts of
\* writes that failed with ENOBUFS.  (With an omitted period the two counts begin at
\* different moments; a client whose server gave up after TEST_END reports 0 for it.)
ReceivedWasSent ==
  summary["client"] # <<>> /\ main["client"].pc # "aborted" /\ ~conf.omit =>
    \A p \in Range(summary["client"]) : \A s \in DOMAIN p.streams :
      p.streams[s].received <= p.streams[s].sent + Block + nobufs[s]

\* A test that ends by its number of bytes has moved that many in one direction,
LimitMoved ==
  summary["client"] # <<>> /\ conf.bytes # 0 =>
    \E p \in Range(summary["client"]) :
      (IF p.sender THEN p.sum_sent ELSE p.sum_received) >= conf.bytes
\* or has sent a file to its end.  (A block of the file whose write fails with ENOBUFS is
\* not sent again.)
FileSent ==
  /\ conf.file # 0
  /\ \/ "nobufs" \in conf.faults
     \/ \E p \in Range(summary["client"]) : \E s \in DOMAIN p.streams :
          p.sender /\ p.streams[s].sent >= conf.file
LimitIsMet == conf.omit \/ LimitMoved \/ FileSent

\* bitrate_limit_exceeded is set exactly when the average of some Window intervals in a
\* row was above the limit.
RateLimitExact ==
  rate.exceeded =
    \E k \in Window..Len(totals) :
      SumFunction(SubSeq(totals, k - Window + 1, k)) \div Window > RateLimit

\* Every test ends at both ends, if only because one of them gives up.
TestEnds == <>(\A e \in Ends : main[e].pc \in {"done", "aborted"})

\* A test ends as soon as one of its limits is reached, unless the server's rate limit
\* stops it or a signal cuts a write.
EndsByItself ==
  [](eintr = 0) => <>(rate.exceeded \/ \A e \in Ends : main[e].pc = "done")
=============================================================================

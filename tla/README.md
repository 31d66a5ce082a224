# A TLA+ development of iperf-ios

iperf-ios is an iOS front end for iperf3: an Objective-C app (`src/Source/UI`,
`src/Source/Backend`) around the C library (`src/Source/iperf3`). The app runs
`iperf_run_client` or `iperf_run_server` on a background queue; the library runs a
main loop, one worker thread per stream and a list of timers, and talks to a peer
over one TCP control connection and several stream connections.

This directory holds models of the parts whose correctness depends on the order of
things: who has sent what, which thread runs, which timer is due, which call fails,
which option came last. TLC checks them on small instances; TLAPS proves the theorems
of the eight `*Proofs` modules for every value of the constants.

In file references below, CL is `iperf_client_api.c`, SV `iperf_server_api.c`, API
`iperf_api.c`, UDP `iperf_udp.c`, TCP `iperf_tcp.c`, all in `src/Source/iperf3`.

## 1. Inventory

| Component | State | Operations | Talks to |
|---|---|---|---|
| Client main loop (CL) | `test->state`, `done`, `streams`, `timer`, `ctrl_sck`, `i_errno` | `iperf_connect`, `iperf_handle_message_client`, `iperf_create_streams`, the end of a test, `cleanup_and_fail`, `iperf_client_end` | server, its threads, timers, app (`done`, `reporter_callback`) |
| Server main loop (SV) | the same, `rec_streams_accepted`, `send_streams_accepted` | `iperf_server_listen`, `iperf_accept`, `iperf_handle_message_server`, stream accept, `server_timer_proc`, `cleanup_server` | clients, its threads, timers |
| Control messages (API, `net.c`) | bytes in flight | state bytes, cookie, parameter and result documents; `Nread` with its timeouts, `Nwrite`, `JSON_read`, `JSON_write` | both loops |
| Settings (API) | `struct iperf_settings`, `mode`, `reverse`, `bidirectional`, protocol | `iperf_defaults`, `iperf_parse_arguments`, the setters, `send_parameters`, `get_parameters`, `iperf_reset_test` | command line or app, peer |
| Descriptors (`net.c`, TCP, UDP, API) | control socket, listener, protocol listener, one socket and one buffer file per stream | `netdial`, `netannounce`, listen, accept, connect, `iperf_new_stream`, `iperf_free_stream`, the clean-ups | both loops, the rest of the process |
| Worker threads (`iperf_client_worker_run` in CL, `iperf_server_worker_run` in SV) | counters of their stream | `iperf_send_mt`, `iperf_recv_mt` until `done` | main loop (created, cancelled, joined), statistics |
| TCP streams (TCP) | sockets, `pending_size` | listen, accept with the cookie check, connect, send, receive | accept queue shared with the control connections |
| UDP streams (UDP) | `packet_count`, `cnt_error`, `outoforder_packets` and the omitted ones | `iperf_udp_send`, `iperf_udp_recv`, the one-datagram handshake of connect and accept | statistics |
| Timers (`timer.c`) | active list, free list | create, run, reset, cancel, timeout | timer procs of both loops |
| Interval statistics (API 3528-3649) | counters of the stream, `interval_results` | `iperf_stats_callback`, `iperf_reset_stats`, `iperf_reporter_callback` | worker threads write what it reads, without a lock |
| Throttle and rate limit (API 1942-2054) | `green_light`, cyclic array of intervals | `iperf_check_throttle`, `iperf_check_total_rate` | worker threads, timers |
| Time (`iperf_time.c`) | none | add, compare, difference of `struct iperf_time` | timers, statistics |
| Test runner (`IPFTestRunner.m`) | `s_currentTestRunner`, `_callback`, `_test` | `startTest`, `stopTest`, stats block, completion block | library thread, main queue |
| View controller (`IPFTestRunnerViewController.m`) | `testRunner`, labels, saved settings | start and stop button, the callback | runner |
| Signals (API, `iperf_got_sigend`) | none | tells the peer, exits | both loops of a command-line peer |
| SCTP, authentication, reports, cJSON, icons | - | - | not reached by the app, or pure formatting |

What is hard here:

- **Two loops and an accept queue.** The server takes control connections of
  newcomers and streams of the running test from one queue, and tells streams apart
  by a cookie and by the order of acceptance.
- **Threads without locks.** `test->done`, `i_errno`, the interval lists and the
  packet and byte counters are shared by the main thread, the library thread and the
  worker threads.
- **Every failure is a jump.** A client that fails sends `IPERF_DONE` wherever the
  server stands, a server sends `SERVER_ERROR`; a close with unread input resets the
  connection and may destroy what was sent before it.
- **Error paths.** Setting up one stream is some twenty system calls, each with its
  own list of what to release, in a process that opens descriptors of its own.
- **UDP has no connections.** Server and client agree on a stream by one datagram each
  way; either may be lost, doubled or overtaken by data.
- **Waiting with a timeout that depends on the state**, in both loops' `select`, and
  reads that give up and return what they have.
- **Callbacks that change the list being walked** (`tmr_run`) and memory that is
  reused (the free list of timers) or freed in another block (`iperf_free_test`).
- **One struct for many clients.** A server reuses its `struct iperf_test`; what
  `iperf_reset_test` forgets is there for the next client.

What makes each component correct:

- control protocol: the two sides never take one message for another; one test at a
  time; both agree on the streams; senders stop before the server closes; all
  threads are gone when a run returns; success is mutual; states come in order; every
  run ends;
- control messages as bytes: only whole messages, in order, reach the protocol; a
  read takes no longer than its timeouts allow and always ends;
- stream setup: every path closes what it opened and nothing else; both ends of a
  connection agree on its number and direction; without loss a setup succeeds; both
  ends return;
- transfer: intervals never add up to more than the total; the reports of both ends
  agree up to the block in hand; nothing is received that was not sent; a limit in
  bytes is reached; the rate limit strikes exactly when it should; every test ends;
- settings: the mode follows from role and direction, whatever the order of the
  options; both sides run with the same settings; one end condition decides;
- pacing: never ahead of the rate by more than a burst; a waiting stream goes on;
- timers: sorted list, no dangling handle, reports follow statistics, the test ends
  when its duration is over;
- UDP: loss is exact without repetition and never overstated with it; intervals never
  add up to more than the stream;
- app: no use after free, the Start button means that nothing is left running, one
  final callback, a client test ends.

`PROJECT.json` lists the hazards of the code, each at its line, with the properties
that watch it or the reason why none does.

## 2. Modules

| Module | Models | Lines it stands for |
|---|---|---|
| `ControlProtocol` | both main loops, messages, accept queue, worker threads, failures, for TCP | most of CL and SV, parts of API, `net.c`, TCP |
| `StreamSetup` | every descriptor of both ends, from the control connection to the clean-up, TCP and UDP | TCP, UDP and `net.c` setup, the callers in CL, SV and API |
| `MessageChannel` | what one direction of the control connection promises | abstract |
| `Framing` | `Nread`, `Nwrite`, `JSON_read`, `JSON_write` over bytes; implements `MessageChannel` | `net.c`, API |
| `Transfer` | the data phase: worker threads, counters, statistics, end conditions, results, rate limit | API, TCP and `net.c` data paths, workers and loops of CL and SV |
| `Pacing` | the throttle of a stream with a target rate | `iperf_check_throttle` and `iperf_send_mt` in API |
| `Settings` | options, setters, parameter documents, reset | option parser, setters, documents and resets in API; `iperf_connect` in CL; `setUpTest` in `IPFTestRunner.m` |
| `Timers` | the timer list with the code that uses it | `timer.c`, timer procs of CL and SV |
| `UdpStream` | loss accounting against a hostile network, with racing statistics | UDP 54-268, API `iperf_reset_stats` and `iperf_stats_callback` |
| `TestRunner` | the app, the main queue and what it shares with the library | `IPFTestRunner.m`, view controller |
| `ControlProtocolProofs`, `TransferProofs`, `FramingProofs`, `SettingsProofs`, `TimersProofs`, `TestRunnerProofs`, `UdpStreamProofs`, `PacingProofs` | inductive invariants and theorems | |
| `MC*` | the names and instances under which TLC runs the models | |

The exact lines of every definition are in `PROJECT.json`.

The models meet at interfaces rather than in one composed state space, and each takes
from another only what that one shows:

- `ControlProtocol` sends messages through FIFO queues: `Framing` shows that the bytes
  below them implement such a channel;
- `StreamSetup` and `Transfer` take the order of the control messages from
  `ControlProtocol`, which shows it (`ProtocolInSync`, `StatesInOrder`);
- `ControlProtocol` keeps of the timers only "null", "set", "due", and `Transfer` lets
  a report follow each round of statistics: `Timers` shows that a due timer does fire
  and that the reporter comes after the statistics;
- `ControlProtocol` takes a stream for one step; `StreamSetup` opens it call by call;
- `Transfer` has no target rate and `Pacing` no limit in bytes;
- `TestRunner` reduces the library run to phases, in the order that `ControlProtocol`
  shows, and to the shared variables.

Definitions named as mutants (`..._no_join`, `..._off_by_one`) are wrong on purpose:
each is a plausible slip in the code, and substituting it for the real definition
makes a property fail.

### ControlProtocol

State: for each client where `iperf_run_client` is (`cPc`), `test->state`,
`test->done`, `i_errno`, the streams made, the worker threads, the test timer and its
end of the control connection; the same for one call of `iperf_run_server`; per
client the two FIFO byte streams `c2s` and `s2c`, one element per state byte, cookie
or document; the accept queue `backlog`; `lost` for a client whose packets no longer
get through.

A loop is cut where it blocks: `select`, the reads inside `iperf_exchange_parameters`
and `iperf_exchange_results`, between the connects of `iperf_create_streams`, and in
the joins at the end. Everything between two such points is one action, the trailing
calls included. Actions keep the name of the function or of the case of
`iperf_handle_message_*`; for example

- `client_check_done` is the part of the client loop that looks at `done`, joins the
  senders and sends `TEST_END`;
- `server_accept_stream` accepts one stream and, after the last one, sends
  `TEST_START`, creates the timers and the threads and sends `TEST_RUNNING`;
- `server_timer_proc` closes the control connection and frees the streams; because
  the closed descriptor stays in `read_set`, the next `select` fails
  (`server_select_fails`);
- `cleanup_server` cancels and joins the threads of whatever streams are left.

Closing a socket with unread input resets the connection: `AfterClose` lets the reset
overtake, and so discard, what the peer has not read yet (a rule of TCP, not of the
code). The constant `Faults` chooses what the environment may do: fail a connect,
lose a client, be late, send a signal, press Stop. Not modelled here: the contents of
documents (`Settings`, `Transfer`), the calls that set up one stream, UDP streams among
them (`StreamSetup`), the bitrate limit (`Transfer`), the idle timeout and
`server_duration`, which the app does not set.

### StreamSetup

Each C function that opens or closes something is a sequence of *rows*, one per
statement that touches a resource or per group of system calls with the same error
path; a function that calls another contains its rows. A row that can fail names what
the function releases before it returns -1. So `netdial(o, dial)` is
`create_socket(o)`, then `timeout_connect` whose failures also release the socket and
the address list, then the free of the list. `Program[opt][p]` strings the rows of a
whole test together; a failure continues at the rows that release what the test still
holds, as the `goto` and `return -1` of the code do.

State: per process its place in the program, the descriptor table, the local variables
that hold descriptors (`loc`), those of the test (`held`), the address lists, the
streams; the datagrams in flight, the accept queue, whether the UDP listener is bound
and to whom it is connected; and, in `hist`, what only the properties look at.
Descriptor numbers are handed out lowest first, and the app opens descriptors of its
own, so closing a number twice is seen for what it can do. `Faults` chooses `done`
(sending `IPERF_DONE` fails), `lose`, `dup`, `late` (a reply after the client's
timeout) and `overtake` (a later TCP connection is established first). With the option
`diskfile` a stream has a file next to its buffer, opened by `iperf_new_stream` and
closed by `iperf_free_stream` (`Files`). In reverse and bidirectional tests the server's
data may overtake its last reply: `udp_data_first` skips a datagram and counts the four
bytes that were read of it, `udp_too_much_data` gives up at `MaxWait`.

### MessageChannel and Framing

`MessageChannel` is the promise: messages are taken whole, in order, none twice, none
made up, until the reader gives up, up to the first message that the writer has torn.
`Framing` has bytes instead: each is known by the message, the part (state, header,
body) and the position it was written for. `Nwrite` writes any number of bytes, and may
be cut short by a signal after some of them, which `JSON_write` takes for success, for
the length in front of a document as for the document. A document cut short does not
parse, and costs no more than the test; a length cut short puts the reader out of step
with the writer. `cut` remembers the documents this happened to, and is what the channel
calls torn. The writer may close anywhere. `Nread` takes what has arrived, and gives up
as its two timeouts say. A header that is put together from bytes of different writes
may be read as any length up to `MaxLen`, and what starts in the middle of a document
may parse. The refinement mapping counts a message as sent when its first byte is, and
`WholeMessages == Channel!Spec` is checked as a property.

### Transfer

Per end and stream: the counters of `iperf_stream_result`, the thread's place, and
the bytes in the connection. For one block a worker updates the stream's counter, the
one of the interval, the test's bytes and the test's blocks, one step each; the main
thread reads, adds up and clears the interval counter in three steps of
`iperf_stats_callback`, and clears everything at the end of the omitted period in
`iperf_reset_stats`; a thread may be cancelled between any two of its steps. Writes
are partial, may be cut by a signal, or fail with `ENOBUFS`; `pending_size` carries
what is left of a block, and with `-F` `diskfile_send` reads the file behind it. The
conditions that end a test, `TEST_END`, the joins, the exchange of results and the sums
of `iperf_print_results` follow, and on the server `iperf_check_total_rate` with its
cyclic array. A test has a limit of bytes or one of blocks and not both, as
`iperf_parse_arguments` demands (`IEENDCONDITIONS`, see `Settings`); `LimitIsMet` lets a
test with `-F` end with its file before it has moved its bytes.

### Pacing

Everything `iperf_check_throttle` compares is the difference between what the rate
allows since the start and what was sent: the *credit*. A tick of the clock adds to
it, a message takes from it. While no time has passed since the start the average is
a division by zero and the light stays on (`at_once` records what went out by then).
The sleep comes in pieces shorter than a second, each of which may be interrupted, and
is truncated to whole units; after it the light goes on without another look at the
clock.

### Settings

Options and settings are rows of tables (`NumericTable`, `SwitchTable`): the field, the
least accepted argument and the side the option belongs to; options with more to them
(`-s`, `-c`, `-u`, `-R`, `--bidir`, `-b`, `--server-bitrate-limit`, `-i`, `-l`) are actions of their
own, and `end_of_options` is the checks after the loop. `Converted` is `unit_atoi`: a
negative argument of `-n`, `-k`, `-w` and their like is accepted, and becomes 0 or a
huge number, since converting a negative double to an unsigned type is undefined. `setUpTest` is the app's way to
set the same fields. The document carries the fields of `Exchanged`; the three groups
say how `get_parameters` takes them over. The `main` functions of the programs are
not in the repository: that a client parses, connects and sends once, and that a server
calls `iperf_reset_test` between two tests, is how the library is meant to be used.

### Timers

The active list is a sequence of Timer structs, the free list another one. `tmr_run`
is cut at each iteration: `t` is the next pointer it has read *before* it calls the
proc. The clock moves by any of `Jumps` between two looks at it, so the loop may be
arbitrarily late. Create, reset (by the omit timer), cancel and reuse are actions in
the order the client and the server perform them; `create_timers` is one action per
timer, since they come with one `now`.

### UdpStream

Any datagram ever sent may arrive at any time, never, or several times. The number
travels modulo `Modulus`, standing for 2^32 or 2^64. Nothing here is locked, so what
the worker writes and what the main thread reads are steps of their own: the worker
takes a datagram (`iperf_udp_recv`), writes the loss of a gap or the count of late
datagrams (`Account`), then the highest number (`Account_forward`) or the loss it takes
away (`Account_late`); `iperf_stats_callback` reads `packet_count` twice, and
`iperf_reset_stats` copies the three counters one after the other. The sender raises its
count before the write and lowers it if the write fails (`Nwrite`). The bytes that
`iperf_reset_stats` clears are in `Transfer`.

### TestRunner

Main-thread actions are button presses and one block of the main queue at a time; the
library run is a sequence of phases with the effects the app can see: streams appear,
results appear, `done`, `i_errno`, calls of `reporter_callback`, which append a block
to the main queue. Each run may fail in each phase; a client that terminates makes the
server report once more (`clientTerminates`). A test whose `iperf_defaults` fails is
never freed (`"leaked"` in `heap`).

## 3. Runs

Passing runs (states are distinct states, complete search):

| Run | Instance | Shows |
|---|---|---|
| `two_clients` | 2 clients, 1 stream, upload; connects may fail, signals, stops (62 166) | one of two competing clients is served and the other turned away while connections of both interleave in the accept queue: `TypeOK`, `ProtocolInSync`, `OneTestAtATime`, `FinishedTogether` |
| `bidirectional` | 1 client, 1+1 streams, all faults (31 279) | both directions in one test, with everything that may go wrong: `StreamsAgree`, `SendersStoppedFirst`, `ClientThreadsJoined`, `StatesInOrder`, `ClientsReturn`, `ServerReturns` |
| `stream_setup` | TCP and UDP, all modes, each option in some test, one failing call, one stranger, one descriptor of the app, blocks of 16 bytes (`MIN_UDP_BLOCKSIZE`), up to nine overtaking datagrams, all faults (480 328) | what can be left open and what cannot, which role a stream gets on each side, when UDP setup may fail, that both return: `NothingLeaks`, `RolesAgree`, `QuietNetworkConnects`, `BothReturn` |
| `framing` | three scripts of states and documents, header of 2 bytes, `max_size` 4, timeouts 3 and 1 (48 128) | bytes in any pieces, stalls, lengths and documents cut short: `WholeMessages` (the refinement), `ReadsAreBounded`, `ReaderEnds` |
| `transfer` | nine tests: by bytes, blocks and time, in all directions, with omitted period, failing writes, rate limit at a receiving and at a sending server, file, without intervals (483 063) | what the numbers say about the bytes moved: `IntervalsWithinTotals`, `ReportsAgree`, `ReceivedWasSent`, `LimitIsMet`, `RateLimitExact`, `TestEnds` |
| `settings` | up to 3 options of the client, 2 of the server, two tests with a reset between them (2 125 089) | `ModeIsDerived`, `SettingsAgree`, `OneEndCondition` |
| `pacing` | messages of 2 ticks, burst 3 or none, sleeps of 3 (430 245) | `NeverAheadOfRate`, `LightComesOn` |
| `runner` | 2 tests, 2 streams, 2 firings of the periodic timers, client or server (29 973) | `NoUseAfterFree`, `StartMeansIdle`, `OneFinalCallback`, `ClientTestEnds` |
| `timers` | 4 Timer structs, duration 2, omit 3, interval 2, jumps of 1 or 5, clock to 8, 2 tests (158 514) | `ListSorted`, `HandlesLive`, `ReporterFollowsStats`, `DurationIsKept` |
| `udp_loss` | modulus 4, 5 datagrams sent, 3 counted as late (1 139 527) | `ExactLoss`, `LossNotOverstated`, `LossWithinPackets`, `IntervalsDoNotOvercount` |

Runs that show where the code departs from what the documentation or a comment says:

| Run | Property | What happens |
|---|---|---|
| `stop_forgotten` | `StopIsNotForgotten` | `create_client_timers` clears `test->done` (CL:230), so a Stop before `TEST_START` is lost; Help.md:57 says tests can be stopped at any time |
| `cleanup_closes_twice` | `ClosesOnlyItsOwn` | the stream sockets are closed at `TEST_END` (SV:276) and again by `cleanup_server` (SV:487, "Close open streams"), when the number may belong to another descriptor of the app |

### Known not to hold

These definitions are kept in the modules; naming one of them in a cfg gives the
counterexample.

| Module | Definition | Why |
|---|---|---|
| `ControlProtocol` | `SecondTestSeesBusy` | `iperf_accept` closes with the cookie unread, the reset can overtake `ACCESS_DENIED` (SV:222); Help.md:29 promises "Server is busy" |
| `ControlProtocol` | `ServerReturns` with `Mode = "RECEIVER"` | a server that only sends has no timeout in `select` before the timers are made and after `TEST_END` (SV:617), against the comment at SV:610 |
| `ControlProtocol` | `ServerThreadsJoined` | `server_timer_proc` frees the streams first (SV:329), so that `cleanup_server`, "Cancel outstanding threads", finds none |
| `TestRunner` | `SavedOnlyAfterSuccess` | settings are saved after "Server is busy" too (view controller :185), against the comment at :194 |
| `TestRunner` | `NeverCrashes` | the final report of a failed client follows a NULL interval result (`IPFTestRunner.m`:176) |
| `TestRunner` | `StopEndsTest` | the server loop never reads `test->done` (SV:595): Stop does not end a server test |
| `Transfer` | `EndsByItself` | with `-n` and `-i 0` nothing wakes the client's `select` (CL:634) when the bytes are sent; it looks at them (CL:742) after `rcv_timeout` |
| `Transfer` | `LimitMoved` with an omitted period | `iperf_reset_stats` (API:3493) does not clear the test's `bytes_received` and `blocks_received`, so a reverse test by bytes ends early |

Seen while modelling, and part of what the properties above allow for:

- `iperf_udp_connect`, `iperf_udp_accept`, `iperf_new_stream` and
  `iperf_common_sockopts` return without closing the socket they were given
  (`LeavesSocket` in `NothingLeaks`); `iperf_client_end` returns before it closes the
  control socket when `IPERF_DONE` cannot be sent. `iperf_new_stream` also leaves the
  buffer file open when the disk file cannot be opened (API:4681), and the disk file when
  the stream cannot be initialised (API:4701).
- When the `Nwrite` of a length is cut short (`net.c`:546), `JSON_write` (API:2840, which
  looks for `< 0`) goes on with the document, and `JSON_read`, "NULL if there was an
  error" (API:2865), may return a piece of the document that happens to parse.
  `WholeMessages` promises nothing from that document on.
- The copies of `cnt_error` and `outoforder_packets` (API:3504 and 3505) race with the
  worker, which counts a late datagram (UDP:155) before it takes the loss away
  (UDP:164): what is reported as lost and as out of order after an omitted period may
  each be off by the datagrams counted meanwhile, and the loss may come out as -1.
  `LossWithinPackets` bounds it from above only.
- `IntervalsDoNotOvercount` is about a receiver: a sender raises `packet_count` for a
  datagram it is still writing (UDP:219) and lowers it if the write fails (UDP:252), so an
  interval of a sender may show one packet more than its stream.
- A denied TCP connection is closed inside `iperf_tcp_accept` and its number returned;
  `is_closed` tells it from a stream only while nobody has reused the number. With a
  TOS given, setting it on the closed socket ends the server's test.
- TCP connections may be accepted in another order than they were made; in a
  bidirectional test the roles then differ (`RolesAgree` excludes it by
  `hist.overtaken`). In a bidirectional UDP test, one datagram of data that overtakes
  the last reply ends the test; in a reverse test so many do that their first four bytes
  add up to two blocks (UDP:602-620), although nothing was lost. `QuietNetworkConnects`
  allows for exactly these two.
- A write that fails with `ENOBUFS` half way sends bytes that are not counted. Bytes
  counted between the read and the clearing of an interval belong to no interval. A
  client that fails prints its last interval again.
- A client whose server gives up after `TEST_END` was sent, and before the results,
  prints a summary in which the peer's side is 0 (`ReceivedWasSent` leaves it out).
- With `-F` the last block is short and the receiver, which waits for whole blocks,
  does not take it; a soft error drops what was read from the file, so that such a test
  may end with less than its file and less than its limit of bytes (`FileSent`).
- `pacing_timer`, `get_server_output` and `repeating_payload` stay with the server for
  its next client (`Lingers`); the server accepts `--udp-counters-64bit`; `-P`, `-M`,
  `-n`, `-k`, `-w`, `--pacing-timer` and `--connect-timeout` have no lower bound; `bitrate_limit_stats_per_interval` may exceed the array it
  indexes, or be an infinity with `-i 0`.

### Bounds and why they suffice

- *Clients, streams.* Two clients are enough for the race for `ctrl_sck` and for
  foreign connections between one's own streams; a third is in the position of the
  second. One stream each way gives a first and a last stream, so the partial states
  of `iperf_create_streams` and of the server's accept loop occur. The theorems remove
  both bounds for everything but the liveness properties.
- *What the theorems remove.* The safety properties of `Framing`, `Settings`, `Timers`,
  `TestRunner`, `Transfer`, `UdpStream` and `Pacing` are proved for all values of the
  constants; what is said below about these modules is why their liveness properties
  are worth their run.
- *StreamSetup.* The four option sets use every row of every function at least once;
  one failing call reaches each error path once, which is what an error path is
  written for. Each process always has one of its nine descriptor
  numbers free, so the table never limits a test; one descriptor of the app is enough to take a number
  that was closed too early. `iperf_udp_connect` gives up in a reverse test after nine
  datagrams of data with blocks of 16 bytes, the smallest that UDP tests allow: the run
  has nine.
- *Framing.* A header of two bytes and documents of up to five can be cut before,
  inside and after both parts; in all three scripts a message follows a document, to be
  read in its place if the length was cut; a document longer than `max_size` is among them.
- *Transfer.* Blocks of two bytes and a socket of three make writes and reads partial;
  a window of two over three intervals makes the cyclic array wrap. A test has at least
  one stream, in the run and in the proofs: with `-P 0` no stream is made, nothing is
  counted, and there is nothing to say. One failing write
  of each kind is enough for a block that is finished by a later call.
- *Settings.* Three options reach every pair of options in both orders with a third
  between or after them; arguments are the ends of each range and what lies just
  outside. `HasRetransmits` is `TRUE`, since only then can `sender_has_retransmits` be
  wrong; the iOS build has it `FALSE`.
- *Pacing.* Credit above `MaxCredit` changes nothing any more, since the light is on
  and a burst is smaller. The theorem removes every bound but `MaxCredit` and
  `MaxAtOnce`, which it leaves arbitrary.
- *Timers.* Four structs are one for each handle, so creation in a second test must
  reuse freed ones; a jump of 5 makes several timers due at once, in one `tmr_run`,
  and the omit timer (3) fires between two firings of the others (2 and 4).
- *UDP.* Five datagrams with modulus 4 go past the wrap, so that a number is met again;
  three late ones are enough for two in a row between the copies of `iperf_reset_stats`
  and one after them. The theorems hold for all numbers.
- *App.* Two runs show what one test leaves for the next; two ticks give a first
  report and one with a result list that has already been reported.

### Fairness

- `ControlProtocol`: weak fairness of each loop, of the clocks that make a timer due
  and of the server's worker threads: the operating system schedules runnable
  threads, `select` returns when a descriptor is ready, time passes. None for the user,
  signals, losses, or failures. `ClientsReturn` leaves out clients the network has lost:
  the client's `select` has no timeout before its timers exist.
- `StreamSetup`: weak fairness of the two processes, none of the environment.
- `Framing`: weak fairness of the reader and of the clock; the writer may stop for ever.
- `Transfer`: weak fairness of every thread and of the server's `select` and timers.
  Strong fairness of the client's look at its control connection and of its omit and
  test timers: a periodic statistics timer can be due again and again, but the loop
  looks at a readable connection in every round, and `tmr_run` runs due timers in the
  order of their times, so it cannot keep the others from running for ever.
- `Pacing`: weak fairness of the clock and of the worker thread.
- `TestRunner`: the main queue is drained, the library run and its clock go on, and a
  server answers a client's negotiation. None for the buttons, for failures, or for a
  client coming to a server.
- `Timers`: the loop keeps calling `tmr_run`, since `select` is bounded by
  `tmr_timeout`. The clock itself is not fair.
- `Settings` and `UdpStream` state no liveness.

Deadlock is checked where the system goes on for ever or `Quiet` marks the states in
which resting is right. It is not checked in `stream_setup`, `framing`, `transfer`,
`settings` and `cleanup_closes_twice`, which model one test (or, for `settings`, a
bounded number) and stop when it is over; in the first three a liveness property says
that they stop nowhere else.

## 4. Proofs

All proofs are checked by TLAPS (SMT, Zenon, LS4). Liveness and facts about `ENABLED`
are out of its reach and stay with TLC. The library's induction rules take an operator
as a parameter, which the provers cannot instantiate; where a proof is by induction (the
lists of `TimersProofs`, the sums of `TransferProofs`) it is over a set that has a least
element outside it (`WFMin`).

### ControlProtocolProofs

Assumptions: `NoClient` is no client, at least one stream, a known mode. Nothing is
assumed of the number of clients, of the faults or of fairness.

The properties are far from inductive: that the client never reads an unexpected
message depends on everything that both sides have written, in which order, and what
a reset may have discarded. The argument is about *places in a script*. What the server
may send is one fixed sequence (`Down`: `PARAM_EXCHANGE`, `CREATE_STREAMS`,
`TEST_START`, `TEST_RUNNING`, `EXCHANGE_RESULTS`, results, `DISPLAY_RESULTS`), cut
short anywhere by a message that is the last one read; so is what the client may send
(`Up`: cookie, parameters, `TEST_END`, results). `Place` and `Wrote` read off a
client's state how far it has come in both, `Sent` and `Got` do so for the server.
The invariant `ControlInv` consists of

- `TypeOK`;
- `ServerInv`, `ClientInv(c)`: which program points go with which states, and what
  the threads do there;
- `DownInv(c)`, `UpInv(c)`: the messages on the way are exactly those in the places
  between writer and reader (`Follow`), and certain messages imply certain facts:
  results on the way down mean the client has sent `TEST_END`, `TEST_END` on the way
  up means its senders have stopped;
- `BacklogInv`: a control connection is in the accept queue once, and only control
  connections wait there before a client is served;
- `ServedInv`: at most one client has been served, where being served includes having
  an answer other than a refusal on the way.

Clients only depend on their own queues and on the server, so a step of a client is
proved to keep the invariant of its own part (`ClientStepKeeps`, by action) and to
leave the others alone (`OtherClients`); a step of the server likewise touches the
client it serves or the one at the head of the accept queue (`UntouchedByServer`).

`StreamsAgree` needs a count on top. `StreamsInv` says of every client that is served,
has made streams or is about to (`Makes`) that the streams the server has accepted and
those that wait in the accept queue are together at most those the client has made;
that `TEST_START` is on its way only when all have been accepted; and that a client
that has read it has made all and has none waiting. The streams that wait are counted
as the cardinality of their places in the queue, so an accept moves one from the second
number to the first, and `AllAccepted` leaves none over. That nobody else's connection
is counted rests on `ServedInv`.

| Theorem | States |
|---|---|
| `ControlInvariant` | `Spec => []ControlInv` |
| `TypesHold` | `TypeOK` |
| `AlwaysInSync` | `ProtocolInSync`: no `IEMESSAGE` on either side |
| `AlwaysOneTest` | `OneTestAtATime` |
| `SendersStopFirst` | `SendersStoppedFirst` |
| `ClientsJoinThreads` | `ClientThreadsJoined` |
| `FinishTogether` | `FinishedTogether` |
| `StreamsAlwaysAgree` | `StreamsAgree` |
| `StatesFollowOrder` | `StatesInOrder`, an action property |

### UdpStreamProofs

Assumptions: `Modulus` is a positive integer, the bounds are natural numbers.
`UdpInv` adds to `TypeOK`

- `WireInv`: the datagrams sent are `1 .. sent`, less the one being written;
- `HandInv`: what the place of the worker between its two writes says about the datagram
  in its hand;
- `LossInv`: as long as the numbers fit, `cnt_error` is at most the number of gaps below
  `packet_count`, and equal to it until the network repeats a datagram, with the gap
  that is counted before the highest number while the worker is in between;
- `OmitInv`: what counts as delivered, `packet_count` less `cnt_error`, has not become
  less since the copies, if the middle of the forward branch is taken for its end;
- `IntervalInv`: between the two reads of `iperf_stats_callback` the sum of the intervals
  may be ahead of the last remembered count but not of the counter.

The theorems are `LossIsExact`, `LossIsNotOverstated`, `LossStaysWithinPackets`,
`IntervalsAreNotOvercounted` and `TypeCorrect`. `LossStaysWithinPackets` needs no
assumption on the numbers: a gap adds one packet more than losses, a late datagram only
takes a loss away, and `packet_count` is copied first.

### PacingProofs

Assumptions (`PacingAssumption`): the rate, the size of a message, the longest sleep
and `MaxCredit` are positive, bursts are natural numbers. `NeverAheadOfRate` is not
inductive: the burst that is under way when the light goes off was allowed by a credit
of an earlier moment. `PacingInv` adds

- `Sends`: while the light is on, the credit is at least what it was when the call of
  `iperf_send_mt` began, which was at least -1, less what this call has sent;
- `NotMoved`: before the clock moves the credit is what went out at once;
- `NowIsOld`: the clock that `iperf_check_throttle` looks at is not ahead of the real
  one, and if it showed that no time had passed, the credit is still covered by what
  went out at once;
- `Sleeps`: the present piece of the sleep and what is left of it end with the credit
  restored, up to the one bit that truncation loses.

`BurstArithmetic` collects the facts about products that the steps need. The theorems
are `PacingTypeCorrect` and `RateIsKept`, which states `NeverAheadOfRate` for every
rate, message size, burst and length of a sleep.

### TestRunnerProofs

Assumptions: at least one test and one stream, client or server. The argument is about
one run at a time. `RunnerInv` says that only the run the view controller holds has a
library call, a callback or an `iperf_test` (`OneRun`); that the blocks of the main
queue belong to it, and that its completion block, once dispatched, is the last
(`QueueInv`); that tests to come are untouched (`Future`); and that a returned call has
a result and a freed test was announced once (`EndInv`). Without the order of the queue
`NoUseAfterFree` is not inductive: a statistics block behind the completion block would
read a freed test. Theorems: `NothingFreedIsUsed` (`NoUseAfterFree`),
`StartFindsNothing` (`StartMeansIdle`), `AnnouncedOnce` (`OneFinalCallback`).

### FramingProofs

Assumptions: lengths and timeouts positive, scripts any sequences of numbers.

- `ReadsBounded` (`ReadsAreBounded`) rests on `TimeInv`: until the first short read
  only one `select` was waited for, that read came within `ReadTimeout`, and the last
  `select` was called before the overall timeout had passed.
- `MessagesAreWhole` is the refinement `Spec => WholeMessages`, step by step, with no
  hypothesis on what is cut short. `FramingInv` follows the bytes from the start of the
  read in progress to the next byte the writer will write, as long as the reader has not
  come to a document whose length was cut (`Intact`): each is one that can follow the one
  before (`Chained`), the bytes of a length are next to each other (`HeadersWhole`), and
  the first is the first byte of the part the reader waits for (`ReaderInv`). After a
  document that was cut short the reader meets bytes of the next message within it:
  `JSON_read` fails then, and the invariant need not say more, since a reader that has
  given up promises nothing.

### TimersProofs

Assumptions: finitely many Timer structs, positive duration and interval, any omit
period, clock and jumps. Lists are reasoned about as orders: lemmas state what
`list_add`, `list_remove` and `tmr_cancel` do by which timers a list has and which
comes before which. `TimersInv` has the soundness of both lists, of the handles, what
is armed in each phase (`Phases`), and `Rhythm`: between two rounds the statistics
timer is right before the reporter timer and due at the same time (`Even`); after it
has fired, `tmr_run` is at the reporter timer, and the statistics timer waits behind
everything due by the reporter timer's next turn (`Odd`). This is what `tmr_run`'s
saved next pointer and the insertion behind equals buy, and it survives the omit
timer's resets, late calls and the freeing of one-shot timers. Theorems:
`ListIsSorted`, `HandlesAreLive`, `ReporterKeepsUp` (`ReporterFollowsStats`).

### SettingsProofs

Assumptions: only that the options are rows of the tables. `SettingsInv` follows one
`struct iperf_test`: what every setter keeps (`WellFormed`: the mode is the one derived
from role and direction, and so is `sender_has_retransmits` except for a bidirectional
struct whose role is not set to client yet), what holds among the options (`Parsed`),
what a server that waits for a client has not set (`Clean`: otherwise a value of an
earlier client could survive, since `get_parameters` takes several fields over only if
they are not zero), and what the document says (`Decided`). Theorems: `ModeFollows`
(`ModeIsDerived`), `ServerHasSettings` (`SettingsAgree`), `OneEnd`
(`OneEndCondition`).

### TransferProofs

Assumptions: block, socket and window sizes positive, at least one stream in each
configuration; any number of streams, in any directions, with any limit, omitted
period, file and faults, but not a limit of bytes and one of blocks at once.

The properties are about sums that two threads change without a lock, so the invariant
has to know where each thread is. `TransferInv` consists of

- `Shapes`: the types, `TypeOK` among them;
- `Stages`: what the place of a worker between its four counters says about the bytes
  in its hand;
- `Walks`: where the main thread is in its walk over the streams, and that what it has
  read of an interval is still there;
- `Omits`: what is subtracted for the omitted period is at most what was counted;
- `Phase`: ten phases from `Starting` to `Finished`, each with the states of both ends,
  the places of both main threads and the control messages on their way; in the last
  ones the results document on its way, or already taken over, is consistent with what
  the client counts (`Answered`);
- `ServerSide`: what the server has stopped and closed in each of its states;
- `Withins`: `IntervalsWithinTotals` with two more terms, the interval that is stored
  and still to be printed, and the bytes that are in the total and not yet in the
  interval;
- `Flows`: what arrived or is on its way is at most what the sender counted, plus the
  block of a thread that was cancelled between its write and its counter, plus what
  failed writes sent (`nobufs`).

Steps fall into a few kinds, each with one lemma: a worker changes its own stream only
(`Steady`), the main thread leaves the workers alone (`Calm`), an end gives up
(`GivesUpInv`). Theorems: `TransferTypes` (`TypeOK`), `IntervalsFit`
(`IntervalsWithinTotals`), `ReceivedIsSent` (`ReceivedWasSent`).

The other three theorems compare sums over any number of streams or intervals. The
community modules define a sum by taking the elements of a set out in an order that
nobody knows; `SumExists` and `SumUnique` show that this recursion determines one
function on the subsets of a finite set, by induction on their size, and `SumRemoves`
that any element may be the first. What the proofs use is the rest of that section: the
sum changes by what one term changes (`SumChanges`), is not changed by renaming its
terms (`SumMoved`), grows with its terms (`SumGrows`), and moves by at most k times the
number of terms if each moves by at most k (`SumNear`). `PrintIsTable` and `TableRows`
turn what `iperf_print_results` prints, one pass for each direction the end has streams
of, into such sums.

- `RateLimitIsExact` (`RateLimitExact`) rests on `RateInv`: the cell of the cyclic array
  that is `a` places before `bitrate_limit_last_interval_index` holds the interval that
  is `a` before the last, for every `a` below the window (`Holds`). `WindowSum` then
  renames the cells, so that the sum over the array is the sum over the last intervals;
  an interval added later leaves the earlier windows alone (`Windows`).
- `LimitAlwaysMet` (`LimitIsMet`) rests on `LimitInv`. The client looks at
  `test->bytes_sent`, and prints the sum of the streams' counters, which a thread has
  raised before: `Tallied` says that the first never exceeds the sum of the second less
  what each thread has still to add. Once the client is done the streams have moved the
  bytes (`Moved`) or a file has been read to its end (`FileRead`), and it is done before
  it says `TEST_END` (`Closing`). That the end of a file means that the file was sent is
  `FilesKept`: every byte of it is counted, in the buffer, or not yet read, wherever the
  thread is in `diskfile_send`. Without `FilesKept` and the places of the threads
  in `Booked` neither part is inductive.
- `ReportsAlwaysAgree` (`ReportsAgree`) rests on `ReportInv`, which follows the server's
  numbers: from its report, printed when its sockets are closed and its threads may
  still hold a block each (`Pend`), to what it has counted when it answers, to the
  document on its way, to the `peer` counters of the client (`Heard`) and to the
  client's report, each of them at most a block per stream from the first (`Near`).
  `PeersInv` adds that the client subtracts nothing from what its server sent, since
  there was nothing to copy when its omitted period ended. A client that gives up prints
  before the server does or not at all.

### Only model-checked

- All liveness: `ClientsReturn`, `ServerReturns`, `BothReturn`, `ReaderEnds`, `TestEnds`,
  `LightComesOn`, `ClientTestEnds`, `DurationIsKept`.
- `NothingLeaks`, `RolesAgree` and `QuietNetworkConnects` of `StreamSetup`: its programs
  are tables of rows, so an invariant would have one case per row, and for any number of
  streams the rows themselves are known only by induction.

## 5. Not modelled

- SCTP (`HAVE_SCTP_H` is not set in the iOS build) and authentication (needs OpenSSL):
  not in the app.
- Formatting and wording of reports, units, locale, error strings; the sums behind the
  reports are in `Transfer`.
- Options that only choose addresses, ports, files or the form of the output, and
  settings that no option of this build can change (flowlabel, fqrate, congestion,
  affinity, mptcp).
- What a socket option does to throughput: in `StreamSetup` it is a call that may fail.
- Jitter, a floating-point average (UDP 172-195), and the carry of microseconds in
  `iperf_time.c`: arithmetic of a line each, without state.
- `idle_timeout` and `server_duration` in the server's loop, which the app never sets.
- cJSON: vendored. TCP info and window sizes: values read from the kernel.
- Help, icons, labels: no state the rest depends on.
- Inside functions that are modelled:
  - the client accepts an `IPERF_DONE` from its server (CL:374), which a server never
    sends; the initialisation and timers of `TEST_START` do not fail (CL:353-361), and
    the test has a duration, without which `create_client_timers` leaves `done` alone
    (CL:229); failures after `netdial` have the error of the connect (CL:442, 462);
    `pthread_cancel` and `pthread_join` do not fail (CL:764-777, 805-818);
  - the server's socket options, timers and threads do not fail in `ControlProtocol`
    (SV:735-739, 828-932; the calls that hold descriptors do in `StreamSetup`), and
    `TEST_START` and `TEST_RUNNING` are sent in one step, since the server reads nothing
    in between; after `server_timer_proc` has closed the control connection its number is
    not reused before the next `select` (SV:329);
  - numbers in a document keep their value, which holds up to 2^53: cJSON carries a
    double (`cjson.c`:375-383, API:2455, 2478);
  - a read of `iperf_tcp_recv` is not cut short by a signal (`net.c`:499-502), and it
    looks at `test->state` in the step that takes the bytes; the file of `-F` can always
    be read (API:4856).
- Memory model: reads and writes of a shared field are atomic in the models. The code
  uses atomic counters for the bytes and aligned words elsewhere. The walk of
  `interval_results` by the app's main thread while the library thread relinks it
  (API:2961) is one step, since what it sees depends on the memory model.

## 6. What remains

Every part of the program with control of its own is modelled, and every safety property
that a run checks is proved but for the three of `StreamSetup`. Of these `RolesAgree` is
the one to prove next: it follows from the order of the accept queue and of the datagrams
rather than from the rows, once the roles are counted by streams instead of by rows.

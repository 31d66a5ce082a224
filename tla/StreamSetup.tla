----------------------------- MODULE StreamSetup -----------------------------
(***************************************************************************)
(* How the two ends of a test open, hand over and close their descriptors: *)
(* the control connection, the listening sockets, and one socket and one   *)
(* buffer file per stream (net.c, iperf_tcp.c, iperf_udp.c and the parts   *)
(* of iperf_client_api.c, iperf_server_api.c and iperf_api.c that call     *)
(* them).                                                                  *)
(*                                                                         *)
(* Each C function is a sequence of rows, one per statement that touches a *)
(* resource or per group of system calls with the same error path.  A row  *)
(* that can fail names what the function releases before it returns -1; a  *)
(* function that calls another one contains its rows.  The program of a    *)
(* process ends with the rows that release what the test still holds;      *)
(* every failure continues there.                                          *)
(*                                                                         *)
(* Descriptor numbers are handed out lowest first, as POSIX requires, and  *)
(* the app around the library opens descriptors of its own, so a close of  *)
(* a number that was closed before is seen for what it can do.  UDP        *)
(* datagrams may be lost, duplicated and reordered.  Control messages are  *)
(* only what each side has announced: ControlProtocol models them.         *)
(***************************************************************************)
EXTENDS Integers, Sequences, FiniteSets, SequencesExt

CONSTANTS
  Options,     \* the configurations of the test to choose from
  NumStreams,  \* test->num_streams
  MaxFd,       \* descriptor numbers are 1..MaxFd; 0 stands for -1
  MaxApp,      \* descriptors the rest of the app opens in one process
  MaxData,     \* data datagrams in flight before the client is set up
  MaxFails,    \* system calls that fail during the setup
  MaxStray,    \* connections of strangers while streams are set up
  BlkSize,     \* settings->blksize, in units of the four bytes of a reply
  Faults       \* subset of {"done", "lose", "dup", "late", "overtake"}

ASSUME StreamSetupAssumption ==
  /\ \A o \in Options :
       /\ o.proto \in {"tcp", "udp"}
       /\ o.mode \in {"SENDER", "RECEIVER", "BIDIRECTIONAL"}
       /\ {o.bind_address, o.bind_port, o.bind_dev} \subseteq BOOLEAN
       /\ {o.sockopts, o.small_bufs, o.tos, o.diskfile} \subseteq BOOLEAN
  /\ {NumStreams, BlkSize, MaxFd} \subseteq Nat \ {0}
  /\ {MaxApp, MaxData, MaxFails, MaxStray} \subseteq Nat
  /\ Faults \subseteq {"done", "lose", "dup", "late", "overtake"}

Procs == {"client", "server"}
Fds == 1..MaxFd

\* The stream sockets of one test, in the order the client connects them.
Ports == 1..(NumStreams * 2)

-----------------------------------------------------------------------------
(***************************************************************************)
(* Rows.  `call' is what happens, `arg' the variable or state it is about, *)
(* `undo' what is released when it fails ("-prot" forgets a variable       *)
(* without closing it), `fn' the function, and `can' whether it can fail.  *)
(***************************************************************************)
Sys(call, arg, undo) ==
  [call |-> call, arg |-> arg, undo |-> undo, fn |-> "", can |-> TRUE]

Do(call, arg) ==
  [call |-> call, arg |-> arg, undo |-> {}, fn |-> "", can |-> FALSE]

When(cond, row) == IF cond THEN <<row>> ELSE <<>>

\* The rows of function fn: the ones of the functions it calls keep theirs.
In(fn, rows) ==
  [i \in DOMAIN rows |-> IF rows[i].fn = "" THEN [rows[i] EXCEPT !.fn = fn] ELSE rows[i]]

\* The rows of a callee whose failure makes the caller release more.
AndUndo(rows, more) == [i \in DOMAIN rows |-> [rows[i] EXCEPT !.undo = @ \cup more]]

create_socket(o) == In("create_socket",
     When(o.bind_address, Sys("lookup", "local_res", {}))
  \o <<Sys("lookup", "server_res", {"local_res"}),
       Sys("socket", "s", {"local_res", "server_res"})>>
  \o When(o.bind_dev, Sys("opt", "bindtodevice", {"s", "local_res", "server_res"}))
  \o When(o.bind_address \/ o.bind_port, Sys("bind", "s", {"s", "local_res", "server_res"}))
  \o When(o.bind_address, Do("free", "local_res")))

\* A connect with a timeout makes the socket non-blocking and back again.
timeout_connect(dial) == In("timeout_connect",
     When(dial, Sys("opt", "nonblock", {}))
  \o <<Sys(IF dial THEN "dial" ELSE "opt", "connect", {})>>
  \o When(dial, Sys("opt", "block", {})))

netdial(o, dial) == In("netdial",
     create_socket(o)
  \o AndUndo(timeout_connect(dial), {"s", "server_res"})
  \o <<Do("free", "server_res")>>)

netannounce(o, v, listens) ==
     <<Sys("lookup", "res", {}), Sys("socket", v, {"res"})>>
  \o When(o.bind_dev, Sys("opt", "bindtodevice", {v, "res"}))
  \o <<Sys("opt", "reuseaddr and v6only", {v, "res"}),
       Sys(IF listens THEN "bind" ELSE "bind_udp", v, {v, "res"}), Do("free", "res")>>
  \o When(listens, Sys("opt", "listen", {v}))

\* Socket options of a stream, set when the client asked for one of them.
SetOptions(undo) ==
  <<Sys("opt", "nodelay, mss, rcvbuf and sndbuf", undo)>>

\* Both sizes are read back; a smaller one than asked for is an error.
CheckSizes(undo) == <<Sys("opt", "check sndbuf and rcvbuf", undo)>>

iperf_tcp_listen(o) == In("iperf_tcp_listen",
     <<Do("copy", "listener")>>
  \o (IF o.sockopts
      THEN   <<Do("close", "listener"), Sys("lookup", "res", {}), Sys("socket", "s", {"res"})>>
          \o SetOptions({"s", "res"})
          \o <<Sys("opt", "reuseaddr and v6only", {"s", "res"}),
               Sys("bind", "s", {"s", "res"}), Do("free", "res"),
               Sys("opt", "listen", {"s"}), Do("keep", "listener")>>
      ELSE <<>>)
  \o CheckSizes({"s"}))

\* Mutant: the cookie that cannot be sent leaves the socket open.
ConnectStream_keeps_socket ==
  <<Sys("connect", "s", {"s", "server_res"}), Do("free", "server_res"), Sys("cookie", "s", {})>>

\* The options set just before the connect may fail without consequence.
ConnectStream ==
  <<Sys("connect", "s", {"s", "server_res"}), Do("free", "server_res"), Sys("cookie", "s", {"s"})>>

iperf_tcp_connect(o) == In("iperf_tcp_connect",
     create_socket(o)
  \o (IF o.sockopts THEN SetOptions({"s", "server_res"}) ELSE <<>>)
  \o CheckSizes({"s", "server_res"})
  \o ConnectStream)

iperf_udp_buffercheck(set) == In("iperf_udp_buffercheck",
  When(set, Sys("opt", "rcvbuf and sndbuf", {})) \o <<Sys("opt", "check sndbuf and rcvbuf", {})>>)

\* Run once more with a larger buffer when the default one is too small.
CheckBuffers(o) ==
  iperf_udp_buffercheck(o.sockopts)
  \o (IF o.small_bufs /\ ~o.sockopts THEN iperf_udp_buffercheck(TRUE) ELSE <<>>)

iperf_udp_listen(o) == In("iperf_udp_listen", netannounce(o, "s", FALSE))

iperf_udp_connect(o) == In("iperf_udp_connect",
     netdial(o, FALSE)
  \o CheckBuffers(o)
  \o <<Sys("hello", "write", {}), Sys("reply?", "read", {})>>)

\* Mutant: the reply is sent before the next listener is bound.
iperf_udp_accept_replies_first(o) == In("iperf_udp_accept",
     <<Do("copy", "prot"), Sys("hello?", "s", {}), Sys("connect_udp", "s", {})>>
  \o CheckBuffers(o)
  \o <<Sys("reply", "s", {})>>
  \o AndUndo(netannounce(o, "t", FALSE), {"-prot"}) \o <<Do("keep_t", "prot")>>)

iperf_udp_accept(o) == In("iperf_udp_accept",
     <<Do("copy", "prot"), Sys("hello?", "s", {}), Sys("connect_udp", "s", {})>>
  \o CheckBuffers(o)
  \o AndUndo(netannounce(o, "t", FALSE), {"-prot"})
  \o <<Do("keep_t", "prot"), Sys("reply", "s", {})>>)

iperf_tcp_accept == In("iperf_tcp_accept",
  <<Sys("accept", "s", {}), Sys("cookie?", "s", {"s"})>>)

iperf_common_sockopts(o) == In("iperf_common_sockopts", When(o.tos, Sys("tos", "s", {})))

\* A stream without diskfile_name keeps -1 in diskfile_fd.
iperf_new_stream(o, sender) == In("iperf_new_stream",
     <<Sys("socket", "b", {}), Sys("opt", "unlink, ftruncate and mmap", {})>>
  \o When(o.diskfile, Sys("socket", "d", {}))
  \o <<Sys("opt", "readentropy and iperf_init_stream", {"b"}), Do("add", sender)>>)

-----------------------------------------------------------------------------
(***************************************************************************)
(* The two programs.                                                       *)
(***************************************************************************)
\* The roles of the client's streams, in the order it creates them.
ClientRoles(o) ==
  CASE o.mode = "SENDER"   -> [i \in 1..NumStreams |-> "sender"]
    [] o.mode = "RECEIVER" -> [i \in 1..NumStreams |-> "receiver"]
    [] OTHER               -> [i \in 1..(2 * NumStreams) |->
                                 IF i <= NumStreams THEN "sender" ELSE "receiver"]

\* Mutant: the streams the server sends on come first.
ServerRoles_send_first(o) ==
  LET streams_to_send == IF o.mode = "SENDER" THEN 0 ELSE NumStreams
  IN  [i \in DOMAIN ClientRoles(o) |-> IF i <= streams_to_send THEN "sender" ELSE "receiver"]

\* The server fills the streams it receives on first, then the others.
ServerRoles(o) ==
  LET streams_to_rec == IF o.mode = "RECEIVER" THEN 0 ELSE NumStreams
  IN  [i \in DOMAIN ClientRoles(o) |-> IF i <= streams_to_rec THEN "receiver" ELSE "sender"]

iperf_create_streams(o) ==
  FlattenSeq([i \in DOMAIN ClientRoles(o) |->
       (IF o.proto = "tcp" THEN iperf_tcp_connect(o) ELSE iperf_udp_connect(o))
    \o iperf_new_stream(o, ClientRoles(o)[i])])

ClientSetup(o) == In("iperf_connect",
     netdial([o EXCEPT !.bind_port = FALSE], TRUE)
  \o <<Do("keep", "ctrl"), Sys("opt", "nodelay", {}), Sys("say", "COOKIE", {}),
       Sys("await", "PARAM_EXCHANGE", {}), Sys("say", "PARAMS", {}),
       Sys("await", "CREATE_STREAMS", {})>>
  \o iperf_create_streams(o)
  \o <<Sys("await", "TEST_RUNNING", {}), Do("say", "TEST_END"), Sys("await", "RESULTS", {})>>)

iperf_client_end == In("iperf_client_end",
  <<Do("close_streams", ""), Sys("done", "IPERF_DONE", {}), Do("close", "ctrl")>>)

\* iperf_accept closes the control socket on failure and keeps its number.
iperf_accept(o) == AndUndo(In("iperf_accept",
     <<Sys("opt", "nodelay", {}), Sys("await", "COOKIE", {}),
       Sys("say", "PARAM_EXCHANGE", {}), Sys("await", "PARAMS", {})>>
  \o AndUndo(IF o.proto = "tcp" THEN iperf_tcp_listen(o) ELSE iperf_udp_listen(o), {"SERVER_ERROR"})
  \o <<Do("keep", "prot"), Sys("say", "CREATE_STREAMS", {})>>), {"ctrl"})

accept_streams(o) ==
  FlattenSeq([i \in DOMAIN ServerRoles(o) |->
       (IF o.proto = "tcp" THEN iperf_tcp_accept ELSE iperf_udp_accept(o))
    \o iperf_common_sockopts(o) \o <<Do("is_closed", Len(iperf_common_sockopts(o)) + 2)>>
    \o iperf_new_stream(o, ServerRoles(o)[i])])

all_accepted(o) ==
     (IF o.proto = "udp" THEN <<Do("close", "prot")>>
      ELSE IF o.sockopts
           THEN <<Do("close", "listener"), Do("forget", "listener")>>
                \o netannounce(o, "s", TRUE) \o <<Do("keep", "listener")>>
           ELSE <<>>)
  \o <<Do("forget", "prot"), Sys("opt", "total_requested_rate, TEST_START and timers", {})>>

ServerSetup(o) == In("iperf_run_server",
     netannounce(o, "s", TRUE)
  \o <<Do("keep", "listener"), Sys("answer", "s", {}), Do("keep", "ctrl")>>
  \o iperf_accept(o)
  \o accept_streams(o)
  \o all_accepted(o)
  \o <<Sys("say", "TEST_RUNNING", {}), Sys("await", "TEST_END", {}),
       Do("close_streams", ""), Sys("say", "RESULTS", {}), Sys("await", "IPERF_DONE", {})>>)

cleanup_server == In("cleanup_server",
  <<Do("close_streams", ""), Do("close", "ctrl"), Do("forget", "ctrl"),
    Do("close", "listener"), Do("forget", "listener"), Do("close", "prot"), Do("forget", "prot")>>)

iperf_free_test == In("iperf_free_test", <<Do("close_files", "")>>)

Setup == [o \in Options |-> [p \in Procs |->
            IF p = "client" THEN ClientSetup(o) ELSE ServerSetup(o)]]

Program == [o \in Options |-> [p \in Procs |->
               Setup[o][p]
            \o (IF p = "client" THEN iperf_client_end ELSE cleanup_server)
            \o iperf_free_test]]

-----------------------------------------------------------------------------
VARIABLES
  opt,      \* the options of this test
  pc,       \* the row each process is at
  table,    \* each process' descriptors: "free", "lib" or "app"
  loc,      \* local variables: socket s, new listener t, buffer file b, diskfile d
  addrs,    \* address lists that getaddrinfo returned and nobody freed
  held,     \* test->ctrl_sck, test->listener, test->prot_listener
  streams,  \* test->streams, in order
  said,     \* what each process has announced on the control connection
  net,      \* UDP datagrams in flight
  backlog,  \* TCP connections waiting for accept; 0 is a stranger's
  cookies,  \* the connections whose cookie has been written
  bound,    \* is an unconnected UDP socket bound to the server's port?
  peer,     \* the port of the connection the server is setting up
  got,      \* length read while the client waits for a reply
  at,       \* where each process failed: <<function, argument>>
  hist      \* what the environment did, and whether a close hit the app

vars == <<opt, pc, table, loc, addrs, held, streams, said, net, backlog, cookies,
          bound, peer, got, at, hist>>
process == <<table, loc, addrs, held, streams>>

Other(p) == IF p = "client" THEN "server" ELSE "client"
Row(p) == Program[opt][p][pc[p]]
Running(p) == pc[p] <= Len(Setup[opt][p])
Returned(p) == pc[p] > Len(Program[opt][p])
CurrentPort == Len(streams["client"]) + 1

\* The connections that are streams of the server.
ServerPorts == {streams["server"][i].port : i \in DOMAIN streams["server"]}

Init ==
  /\ opt \in Options
  /\ pc = [p \in Procs |-> 1]
  /\ table = [p \in Procs |-> [f \in Fds |-> "free"]]
  /\ loc = [p \in Procs |-> [s |-> 0, t |-> 0, b |-> 0, d |-> 0]]
  /\ addrs = [p \in Procs |-> {}]
  /\ held = [p \in Procs |-> [ctrl |-> 0, listener |-> 0, prot |-> 0]]
  /\ streams = [p \in Procs |-> <<>>]
  /\ said = [p \in Procs |-> {}]
  /\ net = {} /\ backlog = <<>> /\ cookies = {} /\ bound = FALSE
  /\ peer = 0 /\ got = 0
  /\ at = [p \in Procs |-> <<>>]
  /\ hist = [fails |-> 0, lost |-> FALSE, overtaken |-> FALSE, stray |-> 0, foreign |-> FALSE]

NewFd(p) == Min({f \in Fds : table[p][f] = "free"})
Take(p) == table' = [table EXCEPT ![p][NewFd(p)] = "lib"]

\* close(2) of a set of numbers, whoever they belong to by now, n being 1
\* when that is because a system call failed.
CloseAfter(p, nums, n) ==
  /\ table' = [table EXCEPT ![p] = [f \in Fds |-> IF f \in nums THEN "free" ELSE @[f]]]
  /\ hist' = [hist EXCEPT !.foreign = @ \/ \E f \in nums \cap Fds : table[p][f] = "app",
                          !.fails = @ + n]

Close(p, nums) == CloseAfter(p, nums, 0)

Advance(p) == pc' = [pc EXCEPT ![p] = @ + 1]

Sockets(p) == {streams[p][i].socket : i \in DOMAIN streams[p]}
Files(p) == UNION {{streams[p][i].buffer, streams[p][i].diskfile} : i \in DOMAIN streams[p]}

\* A call that fails: release what the function releases, then clean up.
Fails(p, n) ==
  /\ pc' = [pc EXCEPT ![p] = Len(Setup[opt][p]) + 1]
  /\ CloseAfter(p, {loc[p][v] : v \in Row(p).undo \cap {"s", "t", "b"}}
                   \cup {held[p][v] : v \in Row(p).undo \cap {"ctrl"}}, n)
  /\ addrs' = [addrs EXCEPT ![p] = @ \ Row(p).undo]
  /\ held' = [held EXCEPT ![p].prot = IF "-prot" \in Row(p).undo THEN 0 ELSE @]
  /\ said' = [said EXCEPT ![p] = @ \cup (Row(p).undo \cap {"SERVER_ERROR"})]
  /\ at' = [at EXCEPT ![p] = Append(@, <<Row(p).fn, Row(p).arg>>)]
  /\ UNCHANGED <<opt, loc, streams, net, backlog, cookies, bound, peer, got>>

system_call_fails(p) ==
  /\ Running(p) /\ Row(p).can /\ hist.fails < MaxFails
  /\ Row(p).call \notin {"await", "reply?"}
  /\ Fails(p, 1)

\* The calls that only touch the process itself.
local_call(p) ==
  /\ ~Returned(p)
  /\ LET row == Row(p) IN
       \/ /\ row.call \in {"opt", "bind"}
          /\ UNCHANGED <<table, loc, addrs, held, hist>>
       \/ /\ row.call = "tos" /\ table[p][loc[p].s] # "free"
          /\ UNCHANGED <<table, loc, addrs, held, hist>>
       \/ /\ row.call = "lookup" /\ addrs' = [addrs EXCEPT ![p] = @ \cup {row.arg}]
          /\ UNCHANGED <<table, loc, held, hist>>
       \/ /\ row.call = "free" /\ addrs' = [addrs EXCEPT ![p] = @ \ {row.arg}]
          /\ UNCHANGED <<table, loc, held, hist>>
       \/ /\ row.call = "socket"
          /\ Take(p) /\ loc' = [loc EXCEPT ![p][row.arg] = NewFd(p)]
          /\ UNCHANGED <<addrs, held, hist>>
       \/ /\ row.call = "copy" /\ loc' = [loc EXCEPT ![p].s = held[p][row.arg]]
          /\ UNCHANGED <<table, addrs, held, hist>>
       \/ /\ row.call = "keep" /\ held' = [held EXCEPT ![p][row.arg] = loc[p].s]
          /\ UNCHANGED <<table, loc, addrs, hist>>
       \/ /\ row.call = "keep_t" /\ held' = [held EXCEPT ![p][row.arg] = loc[p].t]
          /\ UNCHANGED <<table, loc, addrs, hist>>
       \/ /\ row.call = "forget" /\ held' = [held EXCEPT ![p][row.arg] = 0]
          /\ UNCHANGED <<table, loc, addrs, hist>>
       \/ /\ row.call = "close" /\ Close(p, {held[p][row.arg]})
          /\ UNCHANGED <<loc, addrs, held>>
       \/ /\ row.call = "close_streams" /\ Close(p, Sockets(p))
          /\ UNCHANGED <<loc, addrs, held>>
       \/ /\ row.call = "close_files" /\ Close(p, Files(p))
          /\ UNCHANGED <<loc, addrs, held>>
  /\ Advance(p)
  /\ UNCHANGED <<opt, streams, said, net, backlog, cookies, bound, peer, got, at>>

-----------------------------------------------------------------------------
(***************************************************************************)
(* Control messages, as what each side has announced.                      *)
(***************************************************************************)
At(p, call) == Running(p) /\ Row(p).call = call

dial ==
  /\ At("client", "dial") /\ Running("server") /\ held["server"].listener # 0
  /\ said' = [said EXCEPT !["client"] = @ \cup {"DIAL"}]
  /\ Advance("client")
  /\ UNCHANGED <<opt, process, net, backlog, cookies, bound, peer, got, at, hist>>

answer ==
  /\ At("server", "answer") /\ "DIAL" \in said["client"]
  /\ Take("server") /\ loc' = [loc EXCEPT !["server"].s = NewFd("server")]
  /\ Advance("server")
  /\ UNCHANGED <<opt, addrs, held, streams, said, net, backlog, cookies, bound, peer, got, at, hist>>

say(p) ==
  /\ At(p, "say")
  /\ said' = [said EXCEPT ![p] = @ \cup {Row(p).arg}]
  /\ Advance(p)
  /\ UNCHANGED <<opt, process, net, backlog, cookies, bound, peer, got, at, hist>>

\* The first message sets test->state, which is 0 until then: IN_TEST.
await(p) ==
  /\ At(p, "await") /\ Row(p).arg \in said[Other(p)]
  /\ said' = [said EXCEPT ![p] = @ \cup {"IN_TEST"}]
  /\ Advance(p)
  /\ UNCHANGED <<opt, process, net, backlog, cookies, bound, peer, got, at, hist>>

\* A process has closed its control socket, or has returned.
HungUp(p) ==
  ~Running(p) /\ (Returned(p) \/ held[p].ctrl \notin {f \in Fds : table[p][f] # "free"})

\* The end of the control connection, or a listener that is gone.
Gone(p) ==
  \/ At(p, "await") /\ Row(p).arg \notin said[Other(p)] /\ HungUp(Other(p))
  \/ At(p, "accept") /\ backlog = <<>> /\ HungUp(Other(p))
  \/ /\ At(p, "hello?") /\ HungUp(Other(p))
     /\ \A m \in net : m.kind # "hello" \/ m.port \in ServerPorts
  \/ (At(p, "dial") \/ At(p, "connect")) /\ ~Running(Other(p))

peer_gone(p) ==
  /\ Gone(p)
  /\ Fails(p, 0)

\* iperf_client_end sends IPERF_DONE when test->state is positive, and
\* returns before it closes the control socket when that fails.
send_done ==
  /\ ~Returned("client") /\ Row("client").call = "done"
  /\ LET tells == "IN_TEST" \in said["client"] /\ "SERVER_ERROR" \notin said["server"] IN
       \/ /\ said' = [said EXCEPT !["client"] = IF tells THEN @ \cup {"IPERF_DONE"} ELSE @]
          /\ Advance("client") /\ UNCHANGED at
       \/ /\ tells /\ "done" \in Faults
          /\ pc' = [pc EXCEPT !["client"] = @ + 2]
          /\ at' = [at EXCEPT !["client"] = Append(@, <<Row("client").fn, "IPERF_DONE">>)]
          /\ UNCHANGED said
  /\ UNCHANGED <<opt, process, net, backlog, cookies, bound, peer, got, hist>>

-----------------------------------------------------------------------------
(***************************************************************************)
(* Streams.                                                                *)
(***************************************************************************)
\* iperf_add_stream numbers the streams 1, 3, 4, ...
StreamId(k) == IF k = 1 THEN 1 ELSE k + 1

iperf_add_stream(p) ==
  /\ At(p, "add")
  /\ streams' = [streams EXCEPT ![p] = Append(@,
        [socket |-> loc[p].s, buffer |-> loc[p].b, diskfile |-> loc[p].d,
         role |-> Row(p).arg, id |-> StreamId(Len(@) + 1),
         port |-> IF p = "client" THEN CurrentPort ELSE peer])]
  /\ Advance(p)
  /\ UNCHANGED <<opt, table, loc, addrs, held, said, net, backlog, cookies, bound, peer, got, at, hist>>

tcp_connect ==
  /\ At("client", "connect") /\ Running("server")
  /\ backlog' = Append(backlog, CurrentPort)
  /\ Advance("client")
  /\ UNCHANGED <<opt, process, said, net, cookies, bound, peer, got, at, hist>>

tcp_cookie ==
  /\ At("client", "cookie")
  /\ cookies' = cookies \cup {CurrentPort}
  /\ Advance("client")
  /\ UNCHANGED <<opt, process, said, net, backlog, bound, peer, got, at, hist>>

tcp_accept ==
  /\ At("server", "accept") /\ backlog # <<>>
  /\ peer' = Head(backlog) /\ backlog' = Tail(backlog)
  /\ Take("server") /\ loc' = [loc EXCEPT !["server"].s = NewFd("server")]
  /\ Advance("server")
  /\ UNCHANGED <<opt, addrs, held, streams, said, net, cookies, bound, got, at, hist>>

tcp_cookie_matches ==
  /\ At("server", "cookie?") /\ peer \in cookies
  /\ Advance("server")
  /\ UNCHANGED <<opt, process, said, net, backlog, cookies, bound, peer, got, at, hist>>

\* A wrong or missing cookie: the socket is closed and its number returned.
tcp_cookie_differs ==
  /\ At("server", "cookie?") /\ peer \notin cookies
  /\ peer = 0 \/ ~Running("client")
  /\ Close("server", {loc["server"].s})
  /\ Advance("server")
  /\ UNCHANGED <<opt, loc, addrs, held, streams, said, net, backlog, cookies, bound, peer, got, at>>

\* iperf_common_sockopts on the number of a closed socket.
tos_of_closed ==
  /\ At("server", "tos") /\ table["server"][loc["server"].s] = "free"
  /\ Fails("server", 0)

\* A closed socket is no error: the server waits for the next connection.
is_closed ==
  /\ At("server", "is_closed")
  /\ pc' = [pc EXCEPT !["server"] =
              IF table["server"][loc["server"].s] = "free" THEN @ - Row("server").arg ELSE @ + 1]
  /\ UNCHANGED <<opt, process, said, net, backlog, cookies, bound, peer, got, at, hist>>

udp_bind ==
  /\ At("server", "bind_udp")
  /\ bound' = TRUE
  /\ Advance("server")
  /\ UNCHANGED <<opt, process, said, net, backlog, cookies, peer, got, at, hist>>

\* A datagram to a port nobody listens on is dropped.
udp_hello ==
  /\ At("client", "hello")
  /\ net' = net \cup {m \in {[kind |-> "hello", port |-> CurrentPort, n |-> 0]} : bound}
  /\ got' = 0
  /\ Advance("client")
  /\ UNCHANGED <<opt, process, said, backlog, cookies, bound, peer, at, hist>>

udp_recvfrom ==
  /\ At("server", "hello?") /\ bound
  /\ \E m \in net, again \in IF "dup" \in Faults THEN BOOLEAN ELSE {FALSE} :
       /\ m.kind = "hello" /\ m.port \notin ServerPorts
       /\ peer' = m.port
       /\ net' = IF again THEN net ELSE net \ {m}
  /\ Advance("server")
  /\ UNCHANGED <<opt, process, said, backlog, cookies, bound, got, at, hist>>

udp_connect_peer ==
  /\ At("server", "connect_udp")
  /\ bound' = FALSE
  /\ Advance("server")
  /\ UNCHANGED <<opt, process, said, net, backlog, cookies, peer, got, at, hist>>

udp_reply ==
  /\ At("server", "reply")
  /\ net' = net \cup {[kind |-> "reply", port |-> peer, n |-> 0]}
  /\ Advance("server")
  /\ UNCHANGED <<opt, process, said, backlog, cookies, bound, peer, got, at, hist>>

udp_connected ==
  /\ At("client", "reply?")
  /\ \E m \in net : m.kind = "reply" /\ m.port = CurrentPort /\ net' = net \ {m}
  /\ Advance("client")
  /\ UNCHANGED <<opt, process, said, backlog, cookies, bound, peer, got, at, hist>>

\* Mutant: datagrams that come first are not allowed for.
MaxWait_in_order == 1

\* Only test->reverse lets the client read past datagrams that come first;
\* each counts as the four bytes of the buffer it is read into.
MaxWait == 1 + (IF opt.mode = "RECEIVER" THEN 2 * BlkSize ELSE 0)

udp_data_first ==
  /\ At("client", "reply?")
  /\ \E m \in net :
       /\ m.kind = "data" /\ m.port = CurrentPort /\ m.n = got
       /\ got + 1 < MaxWait
       /\ net' = net \ {m}
  /\ got' = got + 1
  /\ UNCHANGED <<opt, pc, process, said, backlog, cookies, bound, peer, at, hist>>

udp_too_much_data ==
  /\ At("client", "reply?")
  /\ \E m \in net : m.kind = "data" /\ m.port = CurrentPort
  /\ got + 1 >= MaxWait
  /\ Fails("client", 0)

\* An answer is still on its way: only a late one can miss SO_RCVTIMEO.
Expected ==
  \/ \E m \in net :
       /\ m.port = CurrentPort
       /\ m.kind = "hello" => Running("server") /\ m.port \notin ServerPorts
  \/ peer = CurrentPort /\ Running("server") /\ CurrentPort \notin ServerPorts

\* Mutant: SO_RCVTIMEO is not set.
udp_timeout_never ==
  /\ At("client", "reply?") /\ ~Expected /\ net # {}
  /\ Fails("client", 0)

udp_timeout ==
  /\ At("client", "reply?") /\ ~Expected
  /\ Fails("client", 0)

-----------------------------------------------------------------------------
(***************************************************************************)
(* The environment: the network, strangers, and the rest of the app.       *)
(***************************************************************************)
udp_late ==
  /\ "late" \in Faults /\ At("client", "reply?") /\ Expected
  /\ pc' = [pc EXCEPT !["client"] = Len(Setup[opt]["client"]) + 1]
  /\ at' = [at EXCEPT !["client"] = Append(@, <<"iperf_udp_connect", "read">>)]
  /\ hist' = [hist EXCEPT !.lost = TRUE]
  /\ UNCHANGED <<opt, process, said, net, backlog, cookies, bound, peer, got>>

\* Data that is lost here need not be sent at all.
udp_lose ==
  /\ "lose" \in Faults
  /\ \E m \in net : m.kind # "data" /\ net' = net \ {m}
  /\ hist' = [hist EXCEPT !.lost = TRUE]
  /\ UNCHANGED <<opt, pc, process, said, backlog, cookies, bound, peer, got, at>>

\* The last reply may be overtaken: the server sends as soon as it runs.
udp_data ==
  /\ "TEST_RUNNING" \in said["server"] /\ At("client", "reply?") /\ Running("server")
  /\ LET sent == {m \in net : m.kind = "data"} IN
       /\ Cardinality(sent) + got < MaxData
       /\ net' = net \cup {[kind |-> "data", port |-> CurrentPort, n |-> Cardinality(sent) + got]}
  /\ \E i \in DOMAIN streams["server"] :
       streams["server"][i].role = "sender" /\ streams["server"][i].port = CurrentPort
  /\ UNCHANGED <<opt, pc, process, said, backlog, cookies, bound, peer, got, at, hist>>

\* A lost segment makes a later connection the first to be established.
tcp_overtake ==
  /\ "overtake" \in Faults /\ Len(backlog) > 1 /\ 0 \notin Range(backlog)
  /\ backlog' = <<backlog[2], backlog[1]>> \o SubSeq(backlog, 3, Len(backlog))
  /\ hist' = [hist EXCEPT !.overtaken = TRUE]
  /\ UNCHANGED <<opt, pc, process, said, net, cookies, bound, peer, got, at>>

tcp_stray ==
  /\ opt.proto = "tcp" /\ At("server", "accept") /\ hist.stray < MaxStray
  /\ backlog' = Append(backlog, 0)
  /\ hist' = [hist EXCEPT !.stray = @ + 1]
  /\ UNCHANGED <<opt, pc, process, said, net, cookies, bound, peer, got, at>>

\* The numbers the library remembers; the app's other descriptors are none
\* of its business.
Remembered(p) == Sockets(p) \cup {loc[p].s} \cup {held[p][v] : v \in {"ctrl", "listener", "prot"}}

app_opens(p) ==
  /\ Cardinality({f \in Fds : table[p][f] = "app"}) < MaxApp /\ ~hist.foreign
  /\ NewFd(p) \in Remembered(p) /\ ~Returned(p)
  /\ table' = [table EXCEPT ![p][NewFd(p)] = "app"]
  /\ UNCHANGED <<opt, pc, loc, addrs, held, streams, said, net, backlog, cookies, bound,
                 peer, got, at, hist>>

ClientStep ==
  \/ local_call("client") \/ dial \/ say("client") \/ await("client") \/ peer_gone("client")
  \/ send_done \/ iperf_add_stream("client") \/ tcp_connect \/ tcp_cookie
  \/ udp_hello \/ udp_connected \/ udp_data_first \/ udp_too_much_data \/ udp_timeout

ServerStep ==
  \/ local_call("server") \/ answer \/ say("server") \/ await("server") \/ peer_gone("server")
  \/ iperf_add_stream("server") \/ tcp_accept \/ tcp_cookie_matches \/ tcp_cookie_differs
  \/ tos_of_closed \/ is_closed \/ udp_bind \/ udp_recvfrom \/ udp_connect_peer \/ udp_reply

Environment ==
  \/ \E p \in Procs : system_call_fails(p)
  \/ udp_late \/ udp_lose \/ udp_data \/ tcp_overtake \/ tcp_stray
  \/ app_opens("server")

Next == ClientStep \/ ServerStep \/ Environment

\* Both processes keep running; nothing is assumed of the environment.
Spec == Init /\ [][Next]_vars /\ WF_vars(ClientStep) /\ WF_vars(ServerStep)

-----------------------------------------------------------------------------
TypeOK ==
  /\ opt \in Options
  /\ \A p \in Procs :
       /\ pc[p] \in 1..(Len(Program[opt][p]) + 1)
       /\ table[p] \in [Fds -> {"free", "lib", "app"}]
       /\ loc[p] \in [{"s", "t", "b", "d"} -> 0..MaxFd]
       /\ held[p] \in [{"ctrl", "listener", "prot"} -> 0..MaxFd]
       /\ addrs[p] \subseteq {"local_res", "server_res", "res"}
       /\ Len(streams[p]) <= 2 * NumStreams
  /\ net \subseteq [kind : {"hello", "reply", "data"}, port : Ports, n : 0..MaxData]
  /\ backlog \in Seq({0} \cup Ports) /\ cookies \subseteq Ports
  /\ bound \in BOOLEAN /\ peer \in {0} \cup Ports /\ got \in 0..MaxData

\* The functions that return without closing the socket they were given or
\* had opened.
LeavesSocket ==
  {"iperf_udp_connect", "iperf_udp_buffercheck", "iperf_udp_accept", "iperf_common_sockopts",
   "iperf_new_stream"}

\* A process that has returned has closed every descriptor it opened and
\* freed every address list: every error path of net.c and iperf_tcp.c gives
\* back what it took, and so does every successful test; and no address list
\* outlives the call that made it.  What the code does lose is the socket and
\* the buffer file of a stream whose setup fails in one of the functions
\* above, its diskfile, and the control socket of a client that cannot send IPERF_DONE.
NothingLeaks ==
  \A p \in Procs :
    /\ Returned(p) =>
         \A f \in Fds : table[p][f] = "lib" =>
           \/ f \in {loc[p].s, loc[p].b, loc[p].d} /\ at[p] # <<>> /\ at[p][1][1] \in LeavesSocket
           \/ f = held[p].ctrl /\ <<"iperf_client_end", "IPERF_DONE">> \in Range(at[p])
    /\ ~Running(p) \/ Row(p).call \in {"add", "say", "await"} => addrs[p] = {}

\* Once the server runs the test, both ends of a connection have the same
\* stream number and complementary roles, although the server tells its
\* streams apart by the order of their arrival only; a TCP connection that
\* is established before an earlier one breaks it, and so does a denied
\* connection whose number the app took before is_closed looked at it.
RolesAgree ==
  "TEST_RUNNING" \in said["server"] /\ ~hist.overtaken /\ 0 \notin ServerPorts =>
    \A i \in DOMAIN streams["client"], j \in DOMAIN streams["server"] :
      streams["client"][i].port = streams["server"][j].port =>
        /\ streams["client"][i].id = streams["server"][j].id
        /\ streams["client"][i].role # streams["server"][j].role

\* The client gives up on a UDP stream only when the hello or the reply was
\* lost or late, when the server failed, or when too much data overtook the
\* reply: the next listener is bound before the reply that lets the client go
\* on.  Too much is any datagram in a bidirectional test, and in a reverse
\* test more datagrams than twice the quarter of blksize, as each counts for
\* the four bytes that were read of it.
QuietNetworkConnects ==
  <<"iperf_udp_connect", "read">> \in Range(at["client"]) =>
     \/ hist.lost \/ at["server"] # <<>>
     \/ /\ "TEST_RUNNING" \in said["server"]
        /\ \/ opt.mode = "BIDIRECTIONAL"
           \/ opt.mode = "RECEIVER" /\ got >= 2 * BlkSize

\* The client always returns, whatever is lost, and a server whose client
\* has connected returns too.
BothReturn ==
  /\ <>Returned("client")
  /\ ("DIAL" \in said["client"]) ~> Returned("server")

\* iperf_server_api.c:482 and :492 say that cleanup_server closes open
\* streams and open test sockets: no close hits a descriptor that the rest
\* of the app has opened meanwhile.
ClosesOnlyItsOwn == ~hist.foreign
=============================================================================

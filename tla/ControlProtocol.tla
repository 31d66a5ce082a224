-------------------------- MODULE ControlProtocol --------------------------
(***************************************************************************)
(* The control protocol of an iperf3 TCP test as the two main loops run    *)
(* it: iperf_run_client (iperf_client_api.c) for every client and one call *)
(* of iperf_run_server (iperf_server_api.c), which serves one client and   *)
(* turns the others away.                                                  *)
(*                                                                         *)
(* A control connection is a pair of FIFO byte streams.  What is carried   *)
(* is abstracted to one element per state byte, cookie or JSON document.   *)
(* Control and stream connections wait in the one accept queue of the      *)
(* server's TCP listener, which both iperf_accept and iperf_tcp_accept     *)
(* take from.                                                              *)
(*                                                                         *)
(* A main loop is split where it blocks: in select, in the reads inside    *)
(* iperf_exchange_parameters and iperf_exchange_results, and between the   *)
(* connects of iperf_create_streams.  The worker threads run beside it,    *)
(* and stopTest of the app (IPFTestRunner.m) may set test->done at any     *)
(* moment.                                                                 *)
(***************************************************************************)
EXTENDS Integers, Sequences, FiniteSets

CONSTANTS
  Clients,      \* the processes that run iperf_run_client
  NoClient,     \* ctrl_sck = -1 on the server
  NumStreams,   \* test->num_streams
  Mode,         \* test->mode of the clients
  Faults        \* what the environment may do; see FaultKinds

FaultKinds == {"connect",   \* a connect, a listen or an allocation may fail
               "lose",      \* the network may stop carrying a client's packets
               "late",      \* an answer may take longer than Nread waits for it
               "signal",    \* a peer that runs iperf_got_sigend may be killed
               "stop"}      \* the user may press Stop

ASSUME ClientsAssumption == NoClient \notin Clients
ASSUME StreamsAssumption == NumStreams \in Nat \ {0}
ASSUME ModeAssumption    == Mode \in {"SENDER", "RECEIVER", "BIDIRECTIONAL"}
ASSUME FaultsAssumption  == Faults \subseteq FaultKinds

\* How many streams iperf_create_streams makes, over all its calls.
AllStreams == IF Mode = "BIDIRECTIONAL" THEN 2 * NumStreams ELSE NumStreams
Streams    == 1 .. AllStreams

\* sp->sender on the client: iperf_handle_message_client creates the senders
\* before the receivers when the test is bidirectional.
ClientSends(i) ==
  \/ Mode = "SENDER"
  \/ Mode = "BIDIRECTIONAL" /\ i <= NumStreams

\* test->mode of the server once get_parameters has read the client's.
ServerMode ==
  CASE Mode = "SENDER"        -> "RECEIVER"
    [] Mode = "RECEIVER"      -> "SENDER"
    [] OTHER                  -> "BIDIRECTIONAL"

\* Mutant: the streams of the way back are forgotten in a bidirectional test.
streams_to_send_one_way == IF ServerMode = "SENDER" THEN NumStreams ELSE 0

streams_to_rec  == IF ServerMode = "SENDER"   THEN 0 ELSE NumStreams
streams_to_send == IF ServerMode = "RECEIVER" THEN 0 ELSE NumStreams

\* test->state, as carried by a state byte; "NONE" is the 0 of a new test.
Positive == {"TEST_START", "TEST_RUNNING", "TEST_END", "PARAM_EXCHANGE",
             "CREATE_STREAMS", "EXCHANGE_RESULTS", "DISPLAY_RESULTS",
             "IPERF_START", "IPERF_DONE", "SERVER_TERMINATE",
             "CLIENT_TERMINATE"}
States   == Positive \cup {"NONE", "ACCESS_DENIED", "SERVER_ERROR"}
Messages == States \cup {"cookie", "params", "results"}
Errors   == {"IENONE", "IECONNECT", "IERECVMESSAGE", "IECTRLCLOSE",
             "IEMESSAGE", "IEACCESSDENIED", "IESTREAMCONNECT",
             "IESTREAMLISTEN", "IERECVRESULTS", "IERECVPARAMS",
             "IERECVCOOKIE", "IESENDMESSAGE", "IESENDPARAMS",
             "IESENDRESULTS", "IENOMSG", "IELISTEN", "IESELECT",
             "IESTREAMREAD", "IESTREAMWRITE", "IEPTHREADCREATE",
             "IESERVERTERM", "IECLIENTTERM"}
ThreadStates == {"none", "running", "exited", "joined"}

VARIABLES
  cPc,      \* where iperf_run_client is
  cState,   \* client's test->state
  cDone,    \* client's test->done
  cErr,     \* i_errno of the client's process
  cMade,    \* streams on the client's test->streams
  cThread,  \* the worker thread of each of them
  cTimer,   \* test->timer: "null", "set", or "due"
  cEnd,     \* client's end of the control connection
  sPc,      \* where iperf_run_server is
  sState,   \* server's test->state
  sDone,    \* server's test->done
  sErr,     \* i_errno of the server's process
  sCtrl,    \* whose connection ctrl_sck is, or NoClient
  sRec,     \* rec_streams_accepted
  sSend,    \* send_streams_accepted
  sThread,  \* the worker thread of each accepted stream
  sFreed,   \* server_timer_proc has emptied test->streams
  sTimer,   \* test->timer of the server
  sShut,    \* the server has closed its stream sockets
  sEnd,     \* server's end of each control connection
  c2s, s2c, \* what is in flight or unread on the control connection
  backlog,  \* the listener's accept queue
  lost      \* the network carries nothing for this client any more

clientVars == <<cPc, cState, cDone, cErr, cMade, cThread, cTimer, cEnd>>
serverVars == <<sPc, sState, sDone, sErr, sCtrl, sRec, sSend, sThread,
                sFreed, sTimer, sShut>>
netVars    == <<sEnd, c2s, s2c, backlog, lost>>
vars       == <<clientVars, serverVars, netVars>>

ClientPcs == {"connect", "select", "streams", "results", "tail", "join",
              "fail", "finished", "failed"}
ServerPcs == {"listen", "select", "params", "results", "exit", "abort",
              "finished", "failed"}
Returned  == {"finished", "failed"}

TypeOK ==
  /\ cPc     \in [Clients -> ClientPcs]
  /\ cState  \in [Clients -> States]
  /\ cDone   \in [Clients -> BOOLEAN]
  /\ cErr    \in [Clients -> Errors]
  /\ cMade   \in [Clients -> 0 .. AllStreams]
  /\ cThread \in [Clients -> [Streams -> ThreadStates]]
  /\ cTimer  \in [Clients -> {"null", "set", "due"}]
  /\ cEnd    \in [Clients -> {"none", "open", "closed"}]
  /\ sPc     \in ServerPcs
  /\ sState  \in States
  /\ sDone   \in BOOLEAN
  /\ sErr    \in Errors
  /\ sCtrl   \in Clients \cup {NoClient}
  /\ sRec    \in 0 .. streams_to_rec
  /\ sSend   \in 0 .. streams_to_send
  /\ sThread \in [Streams -> ThreadStates]
  /\ sFreed  \in BOOLEAN
  /\ sTimer  \in {"null", "set", "due"}
  /\ sShut   \in BOOLEAN
  /\ sEnd    \in [Clients -> {"none", "queued", "open", "closed"}]
  /\ c2s     \in [Clients -> Seq(Messages)]
  /\ s2c     \in [Clients -> Seq(Messages)]
  /\ backlog \in Seq(Clients \X {"ctrl", "stream"})
  /\ lost    \in [Clients -> BOOLEAN]

Init ==
  /\ cPc     = [c \in Clients |-> "connect"]
  /\ cState  = [c \in Clients |-> "NONE"]
  /\ cDone   = [c \in Clients |-> FALSE]
  /\ cErr    = [c \in Clients |-> "IENONE"]
  /\ cMade   = [c \in Clients |-> 0]
  /\ cThread = [c \in Clients |-> [i \in Streams |-> "none"]]
  /\ cTimer  = [c \in Clients |-> "null"]
  /\ cEnd    = [c \in Clients |-> "none"]
  /\ sPc     = "listen"
  /\ sState  = "NONE"
  /\ sDone   = FALSE
  /\ sErr    = "IENONE"
  /\ sCtrl   = NoClient
  /\ sRec    = 0
  /\ sSend   = 0
  /\ sThread = [i \in Streams |-> "none"]
  /\ sFreed  = FALSE
  /\ sTimer  = "null"
  /\ sShut   = FALSE
  /\ sEnd    = [c \in Clients |-> "none"]
  /\ c2s     = [c \in Clients |-> <<>>]
  /\ s2c     = [c \in Clients |-> <<>>]
  /\ backlog = <<>>
  /\ lost    = [c \in Clients |-> FALSE]

-----------------------------------------------------------------------------
(* The network.                                                            *)

Set(f, c, v) == [f EXCEPT ![c] = v]

\* The listener is open from iperf_server_listen to cleanup_server.
Listening == sPc \notin {"listen"} \cup Returned

\* Nwrite on the control connection.  Bytes for a socket that its peer has
\* closed go nowhere.
ClientWrites(c, ms) ==
  c2s' = IF sEnd[c] = "closed" THEN c2s ELSE Set(c2s, c, c2s[c] \o ms)
ServerWrites(c, ms) ==
  s2c' = IF cEnd[c] = "closed" THEN s2c ELSE Set(s2c, c, s2c[c] \o ms)

\* What close may do to the bytes the peer has not read: a socket closed with
\* unread input resets the connection, and a reset may overtake them.
AfterClose(unread, outgoing) ==
  IF unread = <<>> THEN {outgoing} ELSE {outgoing, <<>>}

\* The packets of client c stop arriving, in both directions.
lose(c) ==
  /\ "lose" \in Faults
  /\ ~lost[c]
  /\ cEnd[c] = "open"
  /\ lost' = Set(lost, c, TRUE)
  /\ UNCHANGED <<clientVars, serverVars, sEnd, c2s, s2c, backlog>>

-----------------------------------------------------------------------------
(* The client: iperf_run_client.                                           *)

\* goto cleanup_and_fail with i_errno = e.
ClientFails(c, e) ==
  /\ cPc'  = Set(cPc, c, "fail")
  /\ cErr' = Set(cErr, c, e)

iperf_connect(c) ==
  /\ cPc[c] = "connect"
  /\ \/ /\ Listening
        /\ cPc'     = Set(cPc, c, "select")
        /\ cEnd'    = Set(cEnd, c, "open")
        /\ sEnd'    = Set(sEnd, c, "queued")
        /\ c2s'     = Set(c2s, c, <<"cookie">>)
        /\ backlog' = Append(backlog, <<c, "ctrl">>)
        /\ UNCHANGED cErr
     \/ /\ ~Listening \/ "connect" \in Faults
        /\ ClientFails(c, "IECONNECT")
        /\ UNCHANGED <<cEnd, sEnd, c2s, backlog>>
  /\ UNCHANGED <<cState, cDone, cMade, cThread, cTimer, serverVars, s2c, lost>>

\* select reports ctrl_sck readable and the one-byte read returns m.
ClientReads(c, m) ==
  /\ cPc[c] = "select"
  /\ ~lost[c]
  /\ s2c[c] # <<>>
  /\ m = Head(s2c[c])
  /\ s2c' = Set(s2c, c, Tail(s2c[c]))

\* PARAM_EXCHANGE and CREATE_STREAMS of iperf_handle_message_client.
client_param_exchange(c) ==
  /\ ClientReads(c, "PARAM_EXCHANGE")
  /\ cState' = Set(cState, c, "PARAM_EXCHANGE")
  /\ \/ /\ ClientWrites(c, <<"params">>)
        /\ UNCHANGED <<cPc, cErr>>
     \/ /\ sEnd[c] = "closed"
        /\ ClientFails(c, "IESENDPARAMS")
        /\ UNCHANGED c2s
  /\ UNCHANGED <<cDone, cMade, cThread, cTimer, cEnd, serverVars, sEnd,
                 backlog, lost>>

client_create_streams(c) ==
  /\ ClientReads(c, "CREATE_STREAMS")
  /\ cState' = Set(cState, c, "CREATE_STREAMS")
  /\ cPc'    = Set(cPc, c, "streams")
  /\ UNCHANGED <<cDone, cErr, cMade, cThread, cTimer, cEnd, serverVars, sEnd,
                 c2s, backlog, lost>>

\* Mutant: the loop of iperf_create_streams runs once too often.
iperf_create_streams_off_by_one(c) ==
  /\ cPc[c] = "streams"
  /\ \/ /\ Listening
        /\ ~lost[c]
        /\ backlog' = Append(backlog, <<c, "stream">>)
        /\ cMade'   = Set(cMade, c, cMade[c] + 1)
        /\ cPc'     = IF cMade[c] = AllStreams THEN Set(cPc, c, "select") ELSE cPc
        /\ UNCHANGED cErr
     \/ /\ ~Listening \/ lost[c]
        /\ ClientFails(c, "IESTREAMCONNECT")
        /\ UNCHANGED <<backlog, cMade>>
  /\ UNCHANGED <<cState, cDone, cThread, cTimer, cEnd, serverVars, sEnd, c2s,
                 s2c, lost>>

\* One round of the loop of iperf_create_streams: connect, send the cookie,
\* iperf_new_stream.
iperf_create_streams(c) ==
  /\ cPc[c] = "streams"
  /\ \/ /\ Listening
        /\ ~lost[c]
        /\ backlog' = Append(backlog, <<c, "stream">>)
        /\ cMade'   = Set(cMade, c, cMade[c] + 1)
        /\ cPc'     = IF cMade[c] + 1 = AllStreams
                      THEN Set(cPc, c, "select") ELSE cPc
        /\ UNCHANGED cErr
     \/ /\ ~Listening \/ lost[c] \/ "connect" \in Faults
        /\ ClientFails(c, "IESTREAMCONNECT")
        /\ UNCHANGED <<backlog, cMade>>
  /\ UNCHANGED <<cState, cDone, cThread, cTimer, cEnd, serverVars, sEnd, c2s,
                 s2c, lost>>

\* TEST_START: create_client_timers also clears test->done.
client_test_start(c) ==
  /\ ClientReads(c, "TEST_START")
  /\ cState' = Set(cState, c, "TEST_START")
  /\ cDone'  = Set(cDone, c, FALSE)
  /\ cTimer' = Set(cTimer, c, "set")
  /\ UNCHANGED <<cPc, cErr, cMade, cThread, cEnd, serverVars, sEnd, c2s,
                 backlog, lost>>

\* TEST_RUNNING, and the start of the worker threads later in the same
\* iteration; pthread_create may fail after some of them.
client_test_running(c) ==
  /\ ClientReads(c, "TEST_RUNNING")
  /\ cState' = Set(cState, c, "TEST_RUNNING")
  /\ \/ /\ cThread' = Set(cThread, c, [i \in Streams |-> "running"])
        /\ cPc'     = Set(cPc, c, "tail")
        /\ UNCHANGED cErr
     \/ \E n \in Streams :
          /\ "connect" \in Faults
          /\ cThread' = Set(cThread, c,
                            [i \in Streams |-> IF i < n THEN "running" ELSE "none"])
          /\ ClientFails(c, "IEPTHREADCREATE")
  /\ UNCHANGED <<cDone, cMade, cTimer, cEnd, serverVars, sEnd, c2s, backlog, lost>>

\* pthread_cancel and pthread_join of the threads in the set S.
Joined(thread, S) ==
  [i \in Streams |-> IF i \in S /\ thread[i] # "none" THEN "joined" ELSE thread[i]]

\* Mutant: TEST_END is sent while the senders still run.
client_check_done_no_join(c) ==
  LET done == cDone[c] \/ cTimer[c] = "due" IN
  /\ \/ cPc[c] = "tail"
     \/ cPc[c] = "select" /\ cState[c] = "TEST_RUNNING" /\ done
  /\ cTimer' = IF cTimer[c] = "due" THEN Set(cTimer, c, "null") ELSE cTimer
  /\ cPc'    = Set(cPc, c, "select")
  /\ IF ~done
     THEN UNCHANGED <<cState, cDone, c2s>>
     ELSE /\ cDone'  = Set(cDone, c, TRUE)
          /\ cState' = Set(cState, c, "TEST_END")
          /\ ClientWrites(c, <<"TEST_END">>)
  /\ UNCHANGED <<cErr, cThread, cMade, cEnd, serverVars, sEnd, s2c, backlog, lost>>

\* The rest of an iteration in TEST_RUNNING: tmr_run, then the check whether
\* the test is done, which stops the senders and sends TEST_END.  After a
\* select that timed out it is worth a step only if there is something to do.
client_check_done(c) ==
  LET done == cDone[c] \/ cTimer[c] = "due" IN
  /\ \/ cPc[c] = "tail"
     \/ cPc[c] = "select" /\ cState[c] = "TEST_RUNNING" /\ done
  /\ cTimer' = IF cTimer[c] = "due" THEN Set(cTimer, c, "null") ELSE cTimer
  /\ IF ~done
     THEN /\ cPc' = Set(cPc, c, "select")
          /\ UNCHANGED <<cState, cDone, cErr, cThread, c2s>>
     ELSE /\ cDone'   = Set(cDone, c, TRUE)
          /\ cThread' = Set(cThread, c, Joined(cThread[c], {i \in Streams : ClientSends(i)}))
          /\ cState'  = Set(cState, c, "TEST_END")
          /\ \/ /\ ClientWrites(c, <<"TEST_END">>)
                /\ cPc' = Set(cPc, c, "select")
                /\ UNCHANGED cErr
             \/ /\ sEnd[c] = "closed"
                /\ ClientFails(c, "IESENDMESSAGE")
                /\ UNCHANGED c2s
  /\ UNCHANGED <<cMade, cEnd, serverVars, sEnd, s2c, backlog, lost>>

\* In reverse and bidirectional tests select gives up when no block has come
\* for rcv_timeout.
client_rcv_timeout(c) ==
  /\ cPc[c] = "select"
  /\ cState[c] = "TEST_RUNNING"
  /\ Mode # "SENDER"
  /\ lost[c] \/ "late" \in Faults
  /\ ClientFails(c, "IENOMSG")
  /\ UNCHANGED <<cState, cDone, cMade, cThread, cTimer, cEnd, serverVars, netVars>>

\* Mutant: the client sends its results and does not wait for the server's.
client_exchange_results_no_wait(c) ==
  /\ ClientReads(c, "EXCHANGE_RESULTS")
  /\ cState' = Set(cState, c, "EXCHANGE_RESULTS")
  /\ ClientWrites(c, <<"results">>)
  /\ UNCHANGED <<cPc, cErr, cDone, cMade, cThread, cTimer, cEnd, serverVars,
                 sEnd, backlog, lost>>

\* EXCHANGE_RESULTS: iperf_exchange_results sends, then waits in get_results.
client_exchange_results(c) ==
  /\ ClientReads(c, "EXCHANGE_RESULTS")
  /\ cState' = Set(cState, c, "EXCHANGE_RESULTS")
  /\ \/ /\ ClientWrites(c, <<"results">>)
        /\ cPc' = Set(cPc, c, "results")
        /\ UNCHANGED cErr
     \/ /\ sEnd[c] = "closed"
        /\ ClientFails(c, "IESENDRESULTS")
        /\ UNCHANGED c2s
  /\ UNCHANGED <<cDone, cMade, cThread, cTimer, cEnd, serverVars, sEnd,
                 backlog, lost>>

\* JSON_read in get_results: the document, or whatever else ends the wait.
client_get_results(c) ==
  /\ cPc[c] = "results"
  /\ \/ /\ ~lost[c]
        /\ s2c[c] # <<>>
        /\ s2c' = Set(s2c, c, Tail(s2c[c]))
        /\ IF Head(s2c[c]) = "results"
           THEN cPc' = Set(cPc, c, "select") /\ UNCHANGED cErr
           ELSE ClientFails(c, "IERECVRESULTS")
     \/ /\ \/ s2c[c] = <<>> /\ sEnd[c] = "closed"
           \/ lost[c]
           \/ "late" \in Faults
        /\ ClientFails(c, "IERECVRESULTS")
        /\ UNCHANGED s2c
  /\ UNCHANGED <<cState, cDone, cMade, cThread, cTimer, cEnd, serverVars, sEnd,
                 c2s, backlog, lost>>

\* iperf_client_end: the stream sockets are closed, IPERF_DONE is sent unless
\* the state is negative or 0, the control socket is closed.
iperf_client_end(c, state) ==
  /\ cState' = Set(cState, c, IF state \in Positive /\ cEnd[c] = "open"
                              THEN "IPERF_DONE" ELSE state)
  /\ cEnd'   = Set(cEnd, c, IF cEnd[c] = "open" THEN "closed" ELSE cEnd[c])
  /\ \E out \in AfterClose(s2c'[c],
                 IF state \in Positive /\ cEnd[c] = "open" /\ sEnd[c] # "closed"
                 THEN Append(c2s[c], "IPERF_DONE") ELSE c2s[c]) :
       c2s' = Set(c2s, c, out)

\* DISPLAY_RESULTS: the last message of a test that went well.
client_display_results(c) ==
  /\ ClientReads(c, "DISPLAY_RESULTS")
  /\ iperf_client_end(c, "DISPLAY_RESULTS")
  /\ cPc' = Set(cPc, c, "join")
  /\ UNCHANGED <<cDone, cErr, cMade, cThread, cTimer, serverVars, sEnd, backlog,
                 lost>>

\* The messages that end the test: ACCESS_DENIED, SERVER_ERROR (with the
\* server's i_errno), SERVER_TERMINATE; anything else is a protocol error.
client_refused(c) ==
  \E m \in Messages \ {"PARAM_EXCHANGE", "CREATE_STREAMS", "TEST_START",
                       "TEST_RUNNING", "EXCHANGE_RESULTS", "DISPLAY_RESULTS"} :
    /\ ClientReads(c, m)
    /\ cState' = Set(cState, c, IF m \in States THEN m ELSE "NONE")
    /\ ClientFails(c, CASE m = "ACCESS_DENIED"    -> "IEACCESSDENIED"
                        [] m = "SERVER_ERROR"     -> "IESTREAMLISTEN"
                        [] m = "SERVER_TERMINATE" -> "IESERVERTERM"
                        [] OTHER                  -> "IEMESSAGE")
    /\ UNCHANGED <<cDone, cMade, cThread, cTimer, cEnd, serverVars, sEnd, c2s,
                   backlog, lost>>

\* The read of the state byte returns 0, or -1 after a reset.
client_ctrl_closed(c) ==
  /\ cPc[c] = "select"
  /\ ~lost[c]
  /\ s2c[c] = <<>>
  /\ sEnd[c] = "closed"
  /\ \E e \in {"IECTRLCLOSE", "IERECVMESSAGE"} : ClientFails(c, e)
  /\ UNCHANGED <<cState, cDone, cMade, cThread, cTimer, cEnd, serverVars, netVars>>

\* Mutant: the receivers are left running.
client_join_nothing(c) ==
  /\ cPc[c] = "join"
  /\ cPc' = Set(cPc, c, "finished")
  /\ UNCHANGED <<cThread, cState, cDone, cErr, cMade, cTimer, cEnd, serverVars, netVars>>

\* After the loop: the receivers are cancelled and joined; return 0.
client_join(c) ==
  /\ cPc[c] = "join"
  /\ cThread' = Set(cThread, c, Joined(cThread[c], {i \in Streams : ~ClientSends(i)}))
  /\ cPc'     = Set(cPc, c, "finished")
  /\ UNCHANGED <<cState, cDone, cErr, cMade, cTimer, cEnd, serverVars, netVars>>

\* cleanup_and_fail: i_errno is put back after the joins; return -1.
client_cleanup_and_fail(c) ==
  /\ cPc[c] = "fail"
  /\ cThread' = Set(cThread, c, Joined(cThread[c], Streams))
  /\ UNCHANGED s2c
  /\ iperf_client_end(c, cState[c])
  /\ cPc' = Set(cPc, c, "failed")
  /\ UNCHANGED <<cDone, cErr, cMade, cTimer, serverVars, sEnd, backlog, lost>>

\* The test timer of the client becomes due.
client_clock(c) ==
  /\ cTimer[c] = "set"
  /\ cPc[c] \notin Returned
  /\ cTimer' = Set(cTimer, c, "due")
  /\ UNCHANGED <<cPc, cState, cDone, cErr, cMade, cThread, cEnd, serverVars, netVars>>

\* iperf_client_worker_run leaves its loop, or iperf_send_mt / iperf_recv_mt
\* fails on a socket that one of the ends has closed.
client_worker(c, i) ==
  /\ cThread[c][i] = "running"
  /\ cThread' = [cThread EXCEPT ![c][i] = "exited"]
  /\ \/ cDone[c] /\ UNCHANGED cErr
     \/ /\ ClientSends(i) /\ sShut /\ ~lost[c]
        /\ cErr' = Set(cErr, c, "IESTREAMWRITE")
     \/ /\ ~ClientSends(i) /\ cPc[c] = "join"
        /\ cErr' = Set(cErr, c, "IESTREAMREAD")
  /\ UNCHANGED <<cPc, cState, cDone, cMade, cTimer, cEnd, serverVars, netVars>>

\* -[IPFTestRunner stopTest] while a client test runs.
client_stopTest(c) ==
  /\ "stop" \in Faults
  /\ cPc[c] \notin Returned
  /\ ~cDone[c]
  /\ cDone' = Set(cDone, c, TRUE)
  /\ UNCHANGED <<cPc, cState, cErr, cMade, cThread, cTimer, cEnd, serverVars, netVars>>

\* iperf_got_sigend in a client: CLIENT_TERMINATE, then the process exits.
client_sigend(c) ==
  /\ "signal" \in Faults
  /\ cPc[c] \notin Returned
  /\ cEnd[c] = "open"
  /\ cState'  = Set(cState, c, "CLIENT_TERMINATE")
  /\ cDone'   = Set(cDone, c, TRUE)
  /\ cErr'    = Set(cErr, c, "IECLIENTTERM")
  /\ cThread' = Set(cThread, c, [i \in Streams |->
                  IF cThread[c][i] = "none" THEN "none" ELSE "exited"])
  /\ cPc'     = Set(cPc, c, "failed")
  /\ cEnd'    = Set(cEnd, c, "closed")
  /\ \E out \in AfterClose(s2c[c], IF sEnd[c] = "closed" THEN c2s[c]
                                   ELSE Append(c2s[c], "CLIENT_TERMINATE")) :
       c2s' = Set(c2s, c, out)
  /\ UNCHANGED <<cMade, cTimer, serverVars, sEnd, s2c, backlog, lost>>

-----------------------------------------------------------------------------
(* The server: iperf_run_server.                                           *)

\* cleanup_server(test); return -1, with i_errno = e.
ServerAborts(e) ==
  /\ sPc'  = "abort"
  /\ sErr' = e

\* A select that serves a socket.  server_timer_proc leaves a closed descriptor
\* in test->read_set, with which select fails.
Selecting == sPc = "select" /\ ~sFreed

iperf_server_listen ==
  /\ sPc = "listen"
  /\ \/ /\ sPc'    = "select"
        /\ sState' = "IPERF_START"
        /\ UNCHANGED sErr
     \/ /\ "connect" \in Faults
        /\ ServerAborts("IELISTEN")
        /\ UNCHANGED sState
  /\ UNCHANGED <<clientVars, sDone, sCtrl, sRec, sSend, sThread, sFreed, sTimer,
                 sShut, netVars>>

\* iperf_set_send_state(test, m), then on to pc; the write may fail when the
\* client has closed its end.
SendState(c, ms, m, pc) ==
  /\ sState' = m
  /\ \/ /\ ServerWrites(c, ms)
        /\ sPc' = pc
        /\ UNCHANGED sErr
     \/ /\ cEnd[c] = "closed"
        /\ ServerAborts("IESENDMESSAGE")
        /\ UNCHANGED s2c

\* Mutant: ctrl_sck is not looked at before a control connection is taken.
iperf_accept_always ==
  LET c == Head(backlog)[1] IN
  /\ Selecting
  /\ sState # "CREATE_STREAMS"
  /\ backlog # <<>>
  /\ backlog' = Tail(backlog)
  /\ sCtrl' = c
  /\ sEnd'  = Set(sEnd, c, "open")
  /\ c2s[c] # <<>>
  /\ c2s' = Set(c2s, c, Tail(c2s[c]))
  /\ SendState(c, <<"PARAM_EXCHANGE">>, "PARAM_EXCHANGE", "params")
  /\ UNCHANGED <<clientVars, sDone, sRec, sSend, sThread, sFreed, sTimer, sShut, lost>>

\* iperf_accept while no test runs: read the cookie, send PARAM_EXCHANGE and
\* wait for the parameters.
iperf_accept ==
  LET c == Head(backlog)[1] IN
  /\ Selecting
  /\ sState # "CREATE_STREAMS"
  /\ sCtrl = NoClient
  /\ backlog # <<>>
  /\ backlog' = Tail(backlog)
  /\ sCtrl' = c
  /\ sEnd'  = Set(sEnd, c, "open")
  /\ \/ /\ ~lost[c]
        /\ c2s[c] # <<>>
        /\ c2s' = Set(c2s, c, Tail(c2s[c]))
        /\ SendState(c, <<"PARAM_EXCHANGE">>, "PARAM_EXCHANGE", "params")
     \/ /\ lost[c] \/ c2s[c] = <<>> \/ "late" \in Faults
        /\ ServerAborts("IERECVCOOKIE")
        /\ UNCHANGED <<sState, c2s, s2c>>
  /\ UNCHANGED <<clientVars, sDone, sRec, sSend, sThread, sFreed, sTimer, sShut, lost>>

\* Turning away connection k of the backlog's head: ACCESS_DENIED, close.
\* unread is what close finds in the socket's receive buffer.
Deny(unread) ==
  LET c == Head(backlog)[1] IN
  IF Head(backlog)[2] = "stream"
  THEN UNCHANGED <<sEnd, c2s, s2c>>
  ELSE /\ sEnd' = Set(sEnd, c, "closed")
       /\ c2s'  = Set(c2s, c, <<>>)
       /\ \E out \in AfterClose(unread, Append(s2c[c], "ACCESS_DENIED")) :
            s2c' = Set(s2c, c, out)

\* iperf_accept during a test: the cookie of the newcomer is not read.
iperf_accept_busy ==
  /\ Selecting
  /\ sState # "CREATE_STREAMS"
  /\ sCtrl # NoClient
  /\ backlog # <<>>
  /\ backlog' = Tail(backlog)
  /\ Deny(c2s[Head(backlog)[1]])
  /\ UNCHANGED <<clientVars, serverVars, lost>>

\* get_parameters and the rest of iperf_exchange_parameters: the stream
\* listener, then CREATE_STREAMS, or SERVER_ERROR if it cannot be opened.
server_get_parameters ==
  LET c == sCtrl IN
  /\ sPc = "params"
  /\ \/ /\ ~lost[c]
        /\ c2s[c] # <<>>
        /\ c2s' = Set(c2s, c, Tail(c2s[c]))
        /\ \/ /\ Head(c2s[c]) = "params"
              /\ SendState(c, <<"CREATE_STREAMS">>, "CREATE_STREAMS", "select")
           \/ /\ Head(c2s[c]) = "params"
              /\ "connect" \in Faults
              /\ sState' = "SERVER_ERROR"
              /\ ServerWrites(c, <<"SERVER_ERROR">>)
              /\ ServerAborts("IESTREAMLISTEN")
           \/ /\ Head(c2s[c]) # "params"
              /\ ServerAborts("IERECVPARAMS")
              /\ UNCHANGED <<sState, s2c>>
     \/ /\ \/ c2s[c] = <<>> /\ cEnd[c] = "closed"
           \/ lost[c]
           \/ "late" \in Faults
        /\ ServerAborts("IERECVPARAMS")
        /\ UNCHANGED <<sState, c2s, s2c>>
  /\ UNCHANGED <<clientVars, sDone, sCtrl, sRec, sSend, sThread, sFreed, sTimer,
                 sShut, sEnd, backlog, lost>>

\* Line 846 of iperf_server_api.c: all the streams are there.
AllAccepted(rec, send) == rec = streams_to_rec /\ send = streams_to_send

\* Mutant: TEST_RUNNING overtakes TEST_START.
server_accept_stream_swapped ==
  LET isRec == sRec # streams_to_rec
      rec   == IF isRec THEN sRec + 1 ELSE sRec
      send  == IF isRec THEN sSend ELSE sSend + 1
  IN
  /\ Selecting
  /\ sState = "CREATE_STREAMS"
  /\ backlog # <<>>
  /\ Head(backlog) = <<sCtrl, "stream">>
  /\ backlog' = Tail(backlog)
  /\ sRec'    = rec
  /\ sSend'   = send
  /\ IF ~AllAccepted(rec, send)
     THEN UNCHANGED <<sPc, sState, sErr, sDone, sTimer, sThread, s2c>>
     ELSE /\ SendState(sCtrl, <<"TEST_RUNNING", "TEST_START">>, "TEST_RUNNING", "select")
          /\ sDone'   = FALSE
          /\ sTimer'  = "set"
          /\ sThread' = [i \in Streams |-> "running"]
  /\ UNCHANGED <<clientVars, sCtrl, sFreed, sShut, sEnd, c2s, lost>>

\* iperf_tcp_accept, then the classification of the stream, receivers first;
\* the last one starts the test: TEST_START, the timers, TEST_RUNNING and the
\* worker threads.
server_accept_stream ==
  LET c     == Head(backlog)[1]
      isRec == sRec # streams_to_rec
      rec   == IF isRec THEN sRec + 1 ELSE sRec
      send  == IF isRec THEN sSend ELSE sSend + 1
  IN
  /\ Selecting
  /\ sState = "CREATE_STREAMS"
  /\ backlog # <<>>
  /\ Head(backlog) = <<sCtrl, "stream">>
  /\ ~lost[c]
  /\ backlog' = Tail(backlog)
  /\ sRec'  = rec
  /\ sSend' = send
  /\ IF ~AllAccepted(rec, send)
     THEN UNCHANGED <<sPc, sState, sErr, sDone, sTimer, sThread, s2c>>
     ELSE /\ SendState(c, <<"TEST_START", "TEST_RUNNING">>, "TEST_RUNNING", "select")
          /\ IF sPc' = "abort"
             THEN UNCHANGED <<sDone, sTimer, sThread>>
             ELSE /\ sDone'   = FALSE
                  /\ sTimer'  = "set"
                  /\ sThread' = [i \in Streams |-> "running"]
  /\ UNCHANGED <<clientVars, sCtrl, sFreed, sShut, sEnd, c2s, lost>>

\* The same accept for a connection with another cookie, or whose cookie does
\* not come in time: ACCESS_DENIED, close; is_closed then skips the stream.
server_reject_stream ==
  /\ Selecting
  /\ sState = "CREATE_STREAMS"
  /\ backlog # <<>>
  /\ \/ Head(backlog) # <<sCtrl, "stream">>
     \/ lost[Head(backlog)[1]]
     \/ "late" \in Faults
  /\ backlog' = Tail(backlog)
  /\ Deny(LET c == Head(backlog)[1]
          IN  IF lost[c] \/ "late" \in Faults THEN c2s[c] ELSE Tail(c2s[c]))
  /\ UNCHANGED <<clientVars, serverVars, lost>>

\* Mutant: the server does not wait for the client's results before it sends its own.
server_test_end_eager ==
  LET c == sCtrl IN
  /\ Selecting
  /\ c # NoClient
  /\ ~lost[c]
  /\ c2s[c] # <<>>
  /\ Head(c2s[c]) = "TEST_END"
  /\ c2s'   = Set(c2s, c, Tail(c2s[c]))
  /\ sDone' = TRUE
  /\ sShut' = TRUE
  /\ SendState(c, <<"EXCHANGE_RESULTS", "results", "DISPLAY_RESULTS">>,
               "EXCHANGE_RESULTS", "results")
  /\ UNCHANGED <<clientVars, sCtrl, sRec, sSend, sThread, sFreed, sTimer, sEnd,
                 backlog, lost>>

\* TEST_END in iperf_handle_message_server, up to the wait for the results.
server_test_end ==
  LET c == sCtrl IN
  /\ Selecting
  /\ c # NoClient
  /\ ~lost[c]
  /\ c2s[c] # <<>>
  /\ Head(c2s[c]) = "TEST_END"
  /\ c2s'   = Set(c2s, c, Tail(c2s[c]))
  /\ sDone' = TRUE
  /\ sShut' = TRUE
  /\ SendState(c, <<"EXCHANGE_RESULTS">>, "EXCHANGE_RESULTS", "results")
  /\ UNCHANGED <<clientVars, sCtrl, sRec, sSend, sThread, sFreed, sTimer, sEnd,
                 backlog, lost>>

\* The rest of TEST_END: get_results, send_results, DISPLAY_RESULTS.
server_get_results ==
  LET c == sCtrl IN
  /\ sPc = "results"
  /\ \/ /\ ~lost[c]
        /\ c2s[c] # <<>>
        /\ c2s' = Set(c2s, c, Tail(c2s[c]))
        /\ IF Head(c2s[c]) = "results"
           THEN SendState(c, <<"results", "DISPLAY_RESULTS">>, "DISPLAY_RESULTS", "select")
           ELSE ServerAborts("IERECVRESULTS") /\ UNCHANGED <<sState, s2c>>
     \/ /\ \/ c2s[c] = <<>> /\ cEnd[c] = "closed"
           \/ lost[c]
           \/ "late" \in Faults
        /\ ServerAborts("IERECVRESULTS")
        /\ UNCHANGED <<sState, c2s, s2c>>
  /\ UNCHANGED <<clientVars, sDone, sCtrl, sRec, sSend, sThread, sFreed, sTimer,
                 sShut, sEnd, backlog, lost>>

\* The other messages: IPERF_DONE and CLIENT_TERMINATE leave the loop, TEST_START
\* is ignored, anything else is a protocol error.
server_other_message ==
  LET c == sCtrl
      m == Head(c2s[c])
  IN
  /\ Selecting
  /\ c # NoClient
  /\ ~lost[c]
  /\ c2s[c] # <<>>
  /\ m # "TEST_END"
  /\ c2s' = Set(c2s, c, Tail(c2s[c]))
  /\ sState' = CASE m = "CLIENT_TERMINATE"              -> "IPERF_DONE"
                 [] m \in States \ {"CLIENT_TERMINATE"} -> m
                 [] OTHER                               -> sState
  /\ sPc'    = CASE m \in {"IPERF_DONE", "CLIENT_TERMINATE"} -> "exit"
                 [] m = "TEST_START"                         -> "select"
                 [] OTHER                                    -> "abort"
  /\ sErr'   = CASE m \in {"IPERF_DONE", "TEST_START"} -> sErr
                 [] m = "CLIENT_TERMINATE"             -> "IECLIENTTERM"
                 [] OTHER                              -> "IEMESSAGE"
  /\ sShut'  = (sShut \/ m = "CLIENT_TERMINATE")
  /\ UNCHANGED <<clientVars, sDone, sCtrl, sRec, sSend, sThread, sFreed, sTimer,
                 sEnd, s2c, backlog, lost>>

\* The read of the state byte returns 0 (the loop ends as if the test were
\* over) or, after a reset, -1.
server_ctrl_closed ==
  /\ Selecting
  /\ sCtrl # NoClient
  /\ ~lost[sCtrl]
  /\ c2s[sCtrl] = <<>>
  /\ cEnd[sCtrl] = "closed"
  /\ \/ /\ sState' = "IPERF_DONE"
        /\ sErr' = "IECTRLCLOSE"
        /\ sPc'  = "exit"
     \/ /\ ServerAborts("IERECVMESSAGE")
        /\ UNCHANGED sState
  /\ UNCHANGED <<clientVars, sDone, sCtrl, sRec, sSend, sThread, sFreed, sTimer,
                 sShut, netVars>>

\* Mutant: the receive timeout is armed in TEST_RUNNING only, as the client's is.
server_rcv_timeout_running ==
  /\ Selecting
  /\ sState = "TEST_RUNNING"
  /\ ServerMode # "SENDER"
  /\ sCtrl # NoClient
  /\ lost[sCtrl] \/ "late" \in Faults
  /\ ServerAborts("IENOMSG")
  /\ UNCHANGED <<clientVars, sState, sDone, sCtrl, sRec, sSend, sThread, sFreed,
                 sTimer, sShut, netVars>>

\* A server that receives gives up when no block has come for rcv_timeout.
server_rcv_timeout ==
  /\ Selecting
  /\ sState # "IPERF_START"
  /\ ServerMode # "SENDER"
  /\ sCtrl # NoClient
  /\ lost[sCtrl] \/ "late" \in Faults
  /\ ServerAborts("IENOMSG")
  /\ UNCHANGED <<clientVars, sState, sDone, sCtrl, sRec, sSend, sThread, sFreed,
                 sTimer, sShut, netVars>>

\* The server's timer is set grace_period later than the client's, so it is due
\* only when the client's is not pending and the answers are late or lost.
server_clock ==
  /\ sTimer = "set"
  /\ sPc \notin Returned
  /\ sCtrl # NoClient
  /\ cTimer[sCtrl] # "set"
  /\ lost[sCtrl] \/ "late" \in Faults
  /\ sTimer' = "due"
  /\ UNCHANGED <<clientVars, sPc, sState, sDone, sErr, sCtrl, sRec, sSend,
                 sThread, sFreed, sShut, netVars>>

\* server_timer_proc: unless the test is done, the streams are closed and freed
\* (their threads are neither cancelled nor joined) and ctrl_sck is closed.
server_timer_proc ==
  LET c == sCtrl IN
  /\ Selecting
  /\ sTimer = "due"
  /\ sTimer' = "null"
  /\ IF sDone
     THEN UNCHANGED <<sDone, sFreed, sShut, sCtrl, sEnd, s2c>>
     ELSE /\ sDone'  = TRUE
          /\ sFreed' = TRUE
          /\ sShut'  = TRUE
          /\ sCtrl'  = NoClient
          /\ sEnd'   = Set(sEnd, c, "closed")
          /\ \E out \in AfterClose(c2s[c], s2c[c]) : s2c' = Set(s2c, c, out)
  /\ UNCHANGED <<clientVars, sPc, sState, sErr, sRec, sSend, sThread, c2s,
                 backlog, lost>>

\* select fails with EBADF after server_timer_proc.
server_select_fails ==
  /\ sPc = "select"
  /\ sFreed
  /\ ServerAborts("IESELECT")
  /\ UNCHANGED <<clientVars, sState, sDone, sCtrl, sRec, sSend, sThread, sFreed,
                 sTimer, sShut, netVars>>

\* Mutant: the control connection is left open.
cleanup_server_keeps_ctrl ==
  /\ sPc \in {"exit", "abort"}
  /\ sPc'     = IF sPc = "exit" THEN "finished" ELSE "failed"
  /\ sThread' = IF sFreed THEN sThread ELSE Joined(sThread, Streams)
  /\ sShut'   = TRUE
  /\ sCtrl'   = NoClient
  /\ sTimer'  = "null"
  /\ backlog' = <<>>
  /\ UNCHANGED <<clientVars, sState, sDone, sErr, sRec, sSend, sFreed, sEnd, s2c,
                 c2s, lost>>

\* cleanup_server and the return: the threads of test->streams are cancelled and
\* joined, every socket is closed, the connections still queued are reset.
cleanup_server ==
  /\ sPc \in {"exit", "abort"}
  /\ sPc'     = IF sPc = "exit" THEN "finished" ELSE "failed"
  /\ sThread' = IF sFreed THEN sThread ELSE Joined(sThread, Streams)
  /\ sShut'   = TRUE
  /\ sCtrl'   = NoClient
  /\ sTimer'  = "null"
  /\ sEnd'    = [c \in Clients |-> IF sEnd[c] = "none" THEN "none" ELSE "closed"]
  /\ \E keep \in BOOLEAN :
       s2c' = [c \in Clients |-> IF /\ sEnd[c] \in {"queued", "open"}
                                    /\ c2s[c] # <<>>
                                    /\ ~keep
                                 THEN <<>> ELSE s2c[c]]
  /\ backlog' = <<>>
  /\ UNCHANGED <<clientVars, sState, sDone, sErr, sRec, sSend, sFreed, c2s, lost>>

\* sp->sender of the i-th stream the server accepted.
ServerSends(i) == i > streams_to_rec

\* iperf_server_worker_run ends, or fails on a socket that has been closed under it.
server_worker(i) ==
  /\ sThread[i] = "running"
  /\ sThread' = [sThread EXCEPT ![i] = "exited"]
  /\ \/ sDone /\ UNCHANGED sErr
     \/ sShut /\ sErr' = IF ServerSends(i) THEN "IESTREAMWRITE" ELSE "IESTREAMREAD"
     \/ /\ ServerSends(i)
        /\ sCtrl # NoClient
        /\ cEnd[sCtrl] = "closed"
        /\ ~lost[sCtrl]
        /\ sErr' = "IESTREAMWRITE"
  /\ UNCHANGED <<clientVars, sPc, sState, sDone, sCtrl, sRec, sSend, sFreed,
                 sTimer, sShut, netVars>>

\* -[IPFTestRunner stopTest] while a server test runs.
server_stopTest ==
  /\ "stop" \in Faults
  /\ sPc \notin Returned
  /\ ~sDone
  /\ sDone' = TRUE
  /\ UNCHANGED <<clientVars, sPc, sState, sErr, sCtrl, sRec, sSend, sThread,
                 sFreed, sTimer, sShut, netVars>>

\* iperf_got_sigend in the server: SERVER_TERMINATE, then the process exits.
server_sigend ==
  LET c == sCtrl IN
  /\ "signal" \in Faults
  /\ sPc \notin Returned
  /\ sState'  = IF c = NoClient THEN sState ELSE "SERVER_TERMINATE"
  /\ sErr'    = "IESERVERTERM"
  /\ sDone'   = (sDone \/ sState = "TEST_RUNNING")
  /\ sPc'     = "failed"
  /\ sThread' = [i \in Streams |-> IF sThread[i] = "none" THEN "none" ELSE "exited"]
  /\ sShut'   = TRUE
  /\ sCtrl'   = NoClient
  /\ sEnd'    = [d \in Clients |-> IF sEnd[d] = "none" THEN "none" ELSE "closed"]
  /\ IF c = NoClient \/ cEnd[c] = "closed"
     THEN UNCHANGED s2c
     ELSE \E out \in AfterClose(c2s[c], Append(s2c[c], "SERVER_TERMINATE")) :
            s2c' = Set(s2c, c, out)
  /\ backlog' = <<>>
  /\ UNCHANGED <<clientVars, sRec, sSend, sFreed, sTimer, c2s, lost>>

-----------------------------------------------------------------------------
ClientLoop(c) ==
  \/ iperf_connect(c)
  \/ client_param_exchange(c)
  \/ client_create_streams(c)
  \/ iperf_create_streams(c)
  \/ client_test_start(c)
  \/ client_test_running(c)
  \/ client_check_done(c)
  \/ client_rcv_timeout(c)
  \/ client_exchange_results(c)
  \/ client_get_results(c)
  \/ client_display_results(c)
  \/ client_refused(c)
  \/ client_ctrl_closed(c)
  \/ client_join(c)
  \/ client_cleanup_and_fail(c)

ServerLoop ==
  \/ iperf_server_listen
  \/ iperf_accept
  \/ iperf_accept_busy
  \/ server_get_parameters
  \/ server_accept_stream
  \/ server_reject_stream
  \/ server_test_end
  \/ server_get_results
  \/ server_other_message
  \/ server_ctrl_closed
  \/ server_rcv_timeout
  \/ server_timer_proc
  \/ server_select_fails
  \/ cleanup_server

Environment ==
  \/ \E c \in Clients : lose(c) \/ client_stopTest(c) \/ client_sigend(c)
  \/ server_stopTest
  \/ server_sigend

\* Everything has come to rest: the server waits for a client, or is gone.  A client
\* the network has lost may wait for ever, its select has no timeout then.
Quiet ==
  /\ \A c \in Clients : cPc[c] \in Returned \/ lost[c]
  /\ \/ sPc \in Returned
     \/ sPc = "select" /\ sCtrl = NoClient
  /\ UNCHANGED vars

Next ==
  \/ \E c \in Clients : ClientLoop(c) \/ client_clock(c)
  \/ \E c \in Clients, i \in Streams : client_worker(c, i)
  \/ ServerLoop
  \/ server_clock
  \/ \E i \in Streams : server_worker(i)
  \/ Environment
  \/ Quiet

\* The two loops, the threads and the clocks keep running; nobody promises that
\* the user, a signal or the network does anything.
Fairness ==
  /\ \A c \in Clients : WF_vars(ClientLoop(c)) /\ WF_vars(client_clock(c))
  /\ WF_vars(ServerLoop)
  /\ WF_vars(server_clock)
  /\ \A i \in Streams : WF_vars(server_worker(i))

Spec == Init /\ [][Next]_vars /\ Fairness

-----------------------------------------------------------------------------
(* Safety.                                                                 *)

\* Neither side ever reads a byte that it does not expect where it stands: no
\* sequence of failures, stops and refusals makes iperf_handle_message_client or
\* iperf_handle_message_server take a JSON document, a cookie or a stray state for
\* the next state (their "default: i_errno = IEMESSAGE").
ProtocolInSync ==
  /\ \A c \in Clients : cErr[c] # "IEMESSAGE"
  /\ sErr # "IEMESSAGE"

\* One run of the server lets one client open streams; the check of ctrl_sck in
\* iperf_accept and the cookie in iperf_tcp_accept keep every other one out, also
\* when its connection comes between the streams of the first.
OneTestAtATime ==
  \A c, d \in Clients : cMade[c] > 0 /\ cMade[d] > 0 => c = d

\* When the client is told to run, each side has all the streams and they are the
\* client's own: the server sends TEST_START only after it has accepted as many as
\* the client connects, none of them is still in the accept queue, and no
\* connection of somebody else has been counted in its place.
StreamsAgree ==
  \A c \in Clients :
    cState[c] \in {"TEST_START", "TEST_RUNNING", "TEST_END"} =>
      /\ cMade[c] = AllStreams
      /\ AllAccepted(sRec, sSend)
      /\ \A n \in DOMAIN backlog : backlog[n] # <<c, "stream">>

\* By the time the server closes its stream sockets on TEST_END, no sender of the
\* client is still writing to them: the client joins its senders before it sends
\* TEST_END, so the close cannot turn a finished test into IESTREAMWRITE.
SendersStoppedFirst ==
  \A c \in Clients :
    sCtrl = c /\ sState \in {"EXCHANGE_RESULTS", "DISPLAY_RESULTS"} =>
      \A i \in Streams : ClientSends(i) => cThread[c][i] # "running"

\* iperf_run_client returns with all its threads gone, on every path; the app
\* frees the test right after it.
ClientThreadsJoined ==
  \A c \in Clients, i \in Streams :
    cPc[c] \in Returned => cThread[c][i] # "running"

\* A client returns 0 only after the server has taken its results and sent its own.
FinishedTogether ==
  \A c \in Clients :
    cPc[c] \in {"join", "finished"} =>
      sState \in {"DISPLAY_RESULTS", "IPERF_DONE", "SERVER_TERMINATE"}

\* Clients move through the states of a test in order and skip none of them, except
\* to fail.
Order == <<"NONE", "PARAM_EXCHANGE", "CREATE_STREAMS", "TEST_START",
           "TEST_RUNNING", "TEST_END", "EXCHANGE_RESULTS">>
Failure == {"IPERF_DONE", "ACCESS_DENIED", "SERVER_ERROR", "SERVER_TERMINATE",
            "CLIENT_TERMINATE"}
StatesInOrder ==
  [][\A c \in Clients :
       \/ cState'[c] = cState[c]
       \/ cState'[c] \in Failure
       \/ \E n \in 1 .. Len(Order) - 1 :
            cState[c] = Order[n] /\ cState'[c] = Order[n + 1]]_vars

-----------------------------------------------------------------------------
(* Liveness.                                                               *)

\* Every client test comes to an end as long as the network works, also that of a
\* client that is turned away, denied its streams or stopped.
ClientsReturn ==
  \A c \in Clients : <>(cPc[c] \in Returned \/ lost[c])

\* A server that has taken a client gets rid of it again, even if the client's
\* packets stop coming.
ServerReturns ==
  sCtrl # NoClient ~> sPc \in Returned

-----------------------------------------------------------------------------
(* What the documentation and the comments say, and the code does not do.  *)

\* Documentation/Help.md: tests can be stopped at any time.
StopIsNotForgotten ==
  [][\A c \in Clients : cDone[c] => cDone'[c]]_vars

\* Documentation/Help.md: a second simultaneous test sees "Server is busy".
SecondTestSeesBusy ==
  [][\A c \in Clients :
       /\ cPc[c] = "select" /\ cPc'[c] = "fail"
       /\ cState[c] = "NONE"
       /\ sCtrl \notin {c, NoClient}
       => cErr'[c] = "IEACCESSDENIED"]_vars

\* cleanup_server: "Cancel outstanding threads".
ServerThreadsJoined ==
  sPc \in Returned => \A i \in Streams : sThread[i] # "running"

=============================================================================

----------------------------- MODULE TestRunner -----------------------------
(***************************************************************************)
(* The app around the iperf3 library: IPFTestRunnerViewController and      *)
(* IPFTestRunner on the main thread, iperf_run_client or iperf_run_server  *)
(* in a block on a global queue, and the main dispatch queue between them. *)
(*                                                                         *)
(* The library run is reduced to what the app shares with it without any   *)
(* lock: test->done, test->streams and their interval results, test->timer,*)
(* the global i_errno, and the calls of reporter_callback, which put a     *)
(* block on the main queue.  How the run gets from one phase to the next   *)
(* is the subject of module ControlProtocol.                               *)
(***************************************************************************)
EXTENDS Integers, Sequences, FiniteSets

CONSTANTS
  MaxRuns,      \* bound: how many tests the user starts
  MaxTicks,     \* bound: firings of the stats and reporter timers in a test
  NumStreams,   \* the Streams slider
  Kinds         \* what the user runs: a subset of {"client", "server"}

ASSUME BoundsAssumption  == MaxRuns \in Nat \ {0} /\ MaxTicks \in Nat
ASSUME StreamsAssumption == NumStreams \in Nat \ {0}
ASSUME KindsAssumption   == Kinds \subseteq {"client", "server"}

Runs   == 1 .. MaxRuns
NoRun  == 0
Phases == {"none", "dial", "wait", "streams", "ready", "running", "ending",
           "closing", "returned"}

VARIABLES
  testRunner,   \* self.testRunner of the view controller: a run, or NoRun (nil)
  current,      \* s_currentTestRunner
  callback,     \* which runners have a _callback
  heap,         \* the iperf_test of each run: "none", "live", "freed" or "leaked"
  mainQueue,    \* blocks waiting for the main thread
  started,      \* how many tests have been started
  kind,         \* what each run is
  phase,        \* where iperf_run_client / iperf_run_server is
  done,         \* test->done
  streams,      \* length of test->streams
  results,      \* the streams have interval results
  ticks,        \* firings of the periodic timers so far
  result,       \* what the library function returned: 0, -1, or 1 for not yet
  i_errno,      \* the library's global
  finals,       \* final callbacks each run has had
  saved,        \* runs after which saveTestSettings was called
  stopped,      \* runs for which the user has pressed Stop
  crashed       \* handleStatsCallback has followed a null pointer

mainVars   == <<testRunner, current, callback, heap, started, kind, finals,
                saved, stopped, crashed>>
engineVars == <<phase, streams, results, ticks, result>>
vars       == <<mainVars, engineVars, mainQueue, done, i_errno>>

Errors == {"IENONE", "IECONNECT", "IEACCESSDENIED", "IEOTHER"}

TypeOK ==
  /\ testRunner \in Runs \cup {NoRun}
  /\ current    \in Runs \cup {NoRun}
  /\ callback   \in [Runs -> BOOLEAN]
  /\ heap       \in [Runs -> {"none", "live", "freed", "leaked"}]
  /\ mainQueue  \in Seq({"stats", "completion"} \X Runs)
  /\ started    \in 0 .. MaxRuns
  /\ kind       \in [Runs -> {"client", "server"}]
  /\ phase      \in [Runs -> Phases]
  /\ done       \in [Runs -> BOOLEAN]
  /\ streams    \in [Runs -> 0 .. NumStreams]
  /\ results    \in [Runs -> BOOLEAN]
  /\ ticks      \in [Runs -> 0 .. MaxTicks]
  /\ result     \in [Runs -> {-1, 0, 1}]
  /\ i_errno    \in Errors
  /\ finals     \in [Runs -> Nat]
  /\ saved      \subseteq Runs
  /\ stopped    \subseteq Runs
  /\ crashed    \in BOOLEAN

Init ==
  /\ testRunner = NoRun
  /\ current    = NoRun
  /\ callback   = [r \in Runs |-> FALSE]
  /\ heap       = [r \in Runs |-> "none"]
  /\ mainQueue  = <<>>
  /\ started    = 0
  /\ kind       = [r \in Runs |-> "client"]
  /\ phase      = [r \in Runs |-> "none"]
  /\ done       = [r \in Runs |-> FALSE]
  /\ streams    = [r \in Runs |-> 0]
  /\ results    = [r \in Runs |-> FALSE]
  /\ ticks      = [r \in Runs |-> 0]
  /\ result     = [r \in Runs |-> 1]
  /\ i_errno    = "IENONE"
  /\ finals     = [r \in Runs |-> 0]
  /\ saved      = {}
  /\ stopped    = {}
  /\ crashed    = FALSE

Set(f, r, v) == [f EXCEPT ![r] = v]

-----------------------------------------------------------------------------
(* The main thread.                                                        *)

\* Mutant: startTest goes on after it has reported that there is no test.
startTest_no_return ==
  LET r == started + 1 IN
  /\ ~crashed
  /\ testRunner = NoRun
  /\ started < MaxRuns
  /\ started'    = r
  /\ \E k \in Kinds : kind' = Set(kind, r, k)
  /\ heap'       = Set(heap, r, "live")
  /\ current'    = r
  /\ callback'   = Set(callback, r, TRUE)
  /\ testRunner' = r
  /\ i_errno'    = "IENONE"
  /\ phase'      = Set(phase, r, "dial")
  /\ \E n \in {0, 1} : finals' = Set(finals, r, n)
  /\ UNCHANGED <<mainQueue, done, streams, results, ticks, result, saved, stopped, crashed>>

\* The Start button: startTest of the view controller and of the runner.  If the
\* test cannot be allocated, or given its defaults, the final callback comes at once;
\* a test without defaults is never freed.
startTest ==
  LET r == started + 1 IN
  /\ ~crashed
  /\ testRunner = NoRun
  /\ started < MaxRuns
  /\ started' = r
  /\ \E k \in Kinds : kind' = Set(kind, r, k)
  /\ \/ /\ heap'       = Set(heap, r, "live")
        /\ current'    = r
        /\ callback'   = Set(callback, r, TRUE)
        /\ testRunner' = r
        /\ i_errno'    = "IENONE"
        /\ phase'      = Set(phase, r, "dial")
        /\ UNCHANGED finals
     \/ /\ finals' = Set(finals, r, 1)
        /\ \E h \in {"none", "leaked"} : heap' = Set(heap, r, h)
        /\ UNCHANGED <<current, callback, testRunner, i_errno, phase>>
  /\ UNCHANGED <<mainQueue, done, streams, results, ticks, result, saved, stopped, crashed>>

\* Mutant: Stop gives the Start button back at once.
stopTest_forgets ==
  /\ ~crashed
  /\ testRunner # NoRun
  /\ testRunner \notin stopped
  /\ stopped'    = stopped \cup {testRunner}
  /\ done'       = Set(done, testRunner, TRUE)
  /\ testRunner' = NoRun
  /\ UNCHANGED <<current, callback, heap, started, kind, finals,
                 saved, crashed, engineVars, mainQueue, i_errno>>

\* The Stop button: -[IPFTestRunner stopTest].
stopTest ==
  /\ ~crashed
  /\ testRunner # NoRun
  /\ testRunner \notin stopped
  /\ stopped' = stopped \cup {testRunner}
  /\ done'    = Set(done, testRunner, TRUE)
  /\ UNCHANGED <<testRunner, current, callback, heap, started, kind, finals,
                 saved, crashed, engineVars, mainQueue, i_errno>>

\* The block of vc_reporter_callback: handleStatsCallback walks test->streams and
\* follows the last interval result of each; a nil runner ignores the message.
handleStatsCallback ==
  LET r == Head(mainQueue)[2] IN
  /\ ~crashed
  /\ mainQueue # <<>>
  /\ Head(mainQueue)[1] = "stats"
  /\ mainQueue' = Tail(mainQueue)
  /\ crashed'   = (current # NoRun /\ streams[r] > 0 /\ ~results[r])
  /\ UNCHANGED <<testRunner, current, callback, heap, started, kind, finals,
                 saved, stopped, engineVars, done, i_errno>>

\* IPFTestRunnerErrorStateFromIPerfError, and when the settings are persisted.
ErrorState(e) ==
  CASE e = "IENONE"         -> "NoError"
    [] e = "IECONNECT"      -> "CannotConnectToTheServer"
    [] e = "IEACCESSDENIED" -> "ServerIsBusy"
    [] OTHER                -> "Unknown"
PersistsSettings(state) == state \in {"NoError", "ServerIsBusy"}

\* The block that ends a test: the runner lets go of it, the test is freed, and the
\* view controller gets running = NO.
completion ==
  LET r == Head(mainQueue)[2] IN
  /\ ~crashed
  /\ mainQueue # <<>>
  /\ Head(mainQueue)[1] = "completion"
  /\ mainQueue'  = Tail(mainQueue)
  /\ current'    = NoRun
  /\ callback'   = Set(callback, r, FALSE)
  /\ heap'       = Set(heap, r, "freed")
  /\ finals'     = Set(finals, r, finals[r] + 1)
  /\ testRunner' = NoRun
  /\ saved'      = IF PersistsSettings(ErrorState(i_errno)) THEN saved \cup {r} ELSE saved
  /\ UNCHANGED <<started, kind, stopped, crashed, engineVars, done, i_errno>>

-----------------------------------------------------------------------------
(* The block on the global queue.                                          *)

\* Phase from leads to phase to with nothing the app can see.
Step(r, from, to) ==
  /\ ~crashed
  /\ phase[r] = from
  /\ phase' = Set(phase, r, to)

\* Mutant: the completion block is dispatched before the last reports.
Return_completion_first(r, rc, n) ==
  /\ phase'     = Set(phase, r, "returned")
  /\ result'    = Set(result, r, rc)
  /\ mainQueue' = mainQueue \o <<<<"completion", r>>>> \o [i \in 1 .. n |-> <<"stats", r>>]

\* reporter_callback n times, then the library function returns rc and the
\* completion block is dispatched.
Return(r, rc, n) ==
  /\ phase'     = Set(phase, r, "returned")
  /\ result'    = Set(result, r, rc)
  /\ mainQueue' = mainQueue \o [i \in 1 .. n |-> <<"stats", r>>] \o <<<<"completion", r>>>>

\* iperf_connect of the client, iperf_server_listen of the server.
dial(r) ==
  /\ Step(r, "dial", "wait")
  /\ UNCHANGED <<mainVars, streams, results, ticks, result, mainQueue, done, i_errno>>

\* PARAM_EXCHANGE and CREATE_STREAMS; an idle server may wait here for ever.
negotiate(r) ==
  /\ Step(r, "wait", "streams")
  /\ UNCHANGED <<mainVars, streams, results, ticks, result, mainQueue, done, i_errno>>

\* A stream is connected or accepted and added to test->streams.
newStream(r) ==
  /\ Step(r, "streams", IF streams[r] + 1 = NumStreams THEN "ready" ELSE "streams")
  /\ streams' = Set(streams, r, streams[r] + 1)
  /\ UNCHANGED <<mainVars, results, ticks, result, mainQueue, done, i_errno>>

\* TEST_START: create_client_timers / create_server_timers clear test->done.
testStart(r) ==
  /\ Step(r, "ready", "running")
  /\ done' = Set(done, r, FALSE)
  /\ UNCHANGED <<mainVars, streams, results, ticks, result, mainQueue, i_errno>>

\* One second has passed: the stats timer, then the reporter timer.  Both procs
\* do nothing once test->done is set.
tick(r) ==
  /\ Step(r, "running", "running")
  /\ ~done[r]
  /\ ticks[r] < MaxTicks
  /\ ticks'     = Set(ticks, r, ticks[r] + 1)
  /\ results'   = Set(results, r, TRUE)
  /\ mainQueue' = Append(mainQueue, <<"stats", r>>)
  /\ UNCHANGED <<mainVars, streams, result, done, i_errno>>

\* Mutant: test_timer_proc does not set test->done.
testTimer_ignored(r) ==
  /\ Step(r, "running", "running")
  /\ kind[r] = "client"
  /\ ~done[r]
  /\ UNCHANGED <<mainVars, streams, results, ticks, result, mainQueue, done, i_errno>>

\* The duration is over: test_timer_proc in the client.
testTimer(r) ==
  /\ Step(r, "running", "running")
  /\ kind[r] = "client"
  /\ ~done[r]
  /\ done' = Set(done, r, TRUE)
  /\ UNCHANGED <<mainVars, streams, results, ticks, result, mainQueue, i_errno>>

\* The client sees test->done: a last stats_callback, then TEST_END.  The server
\* learns of the end from TEST_END only, and also reports there.
testEnd(r) ==
  /\ Step(r, "running", "ending")
  /\ kind[r] = "client" => done[r]
  /\ results' = Set(results, r, TRUE)
  /\ done'    = Set(done, r, TRUE)
  /\ mainQueue' = IF kind[r] = "server" THEN Append(mainQueue, <<"stats", r>>) ELSE mainQueue
  /\ UNCHANGED <<mainVars, streams, ticks, result, i_errno>>

\* The results are exchanged; the client closes its stream sockets and reports in
\* iperf_client_end.
exchangeResults(r) ==
  /\ Step(r, "ending", "closing")
  /\ mainQueue' = IF kind[r] = "client" THEN Append(mainQueue, <<"stats", r>>) ELSE mainQueue
  /\ UNCHANGED <<mainVars, streams, results, ticks, result, done, i_errno>>

\* A worker thread blocked on a stream socket finds it closed and sets i_errno
\* before it is cancelled and joined.
workerError(r) ==
  /\ ~crashed
  /\ phase[r] = "closing"
  /\ i_errno' = "IEOTHER"
  /\ UNCHANGED <<mainVars, engineVars, mainQueue, done>>

\* The threads are joined; iperf_run_client or iperf_run_server returns 0.
succeed(r) ==
  /\ ~crashed
  /\ phase[r] = "closing"
  /\ Return(r, 0, 0)
  /\ UNCHANGED <<mainVars, streams, results, ticks, done, i_errno>>

\* The run fails in phase[r].  Only a client that cannot dial gets IECONNECT, only
\* one that waits for an answer is told that the server is busy.
\* cleanup_and_fail reports once more through iperf_client_end, and SERVER_TERMINATE
\* reports before it; cleanup_server does not.
fail(r) ==
  /\ ~crashed
  /\ phase[r] \in {"dial", "wait", "streams", "ready", "running", "ending"}
  /\ \E e \in Errors \ {"IENONE"} :
       /\ e = "IECONNECT"      <=> (kind[r] = "client" /\ phase[r] = "dial")
       /\ e = "IEACCESSDENIED" => (kind[r] = "client" /\ phase[r] = "wait")
       /\ i_errno' = e
  /\ \E n \in IF kind[r] = "server" THEN {0}
              ELSE IF phase[r] = "dial" THEN {1} ELSE {1, 2} : Return(r, -1, n)
  /\ UNCHANGED <<mainVars, streams, results, ticks, done>>

\* The client of a server terminates: the server sets i_errno, reports and leaves its
\* loop with 0, as after IPERF_DONE.
clientTerminates(r) ==
  /\ ~crashed
  /\ kind[r] = "server"
  /\ phase[r] \in {"streams", "ready", "running", "ending", "closing"}
  /\ i_errno' = "IEOTHER"
  /\ Return(r, 0, 1)
  /\ UNCHANGED <<mainVars, streams, results, ticks, done>>

-----------------------------------------------------------------------------
Engine(r) ==
  \/ dial(r) \/ newStream(r) \/ testStart(r) \/ testEnd(r)
  \/ exchangeResults(r) \/ succeed(r)

\* The user rests and nothing is left to do, or the app is gone.
Quiet ==
  /\ \/ crashed
     \/ mainQueue = <<>> /\ started = MaxRuns /\ testRunner = NoRun
     \/ \E r \in Runs : kind[r] = "server" /\ phase[r] = "wait"
  /\ UNCHANGED vars

Next ==
  \/ startTest
  \/ stopTest
  \/ handleStatsCallback
  \/ completion
  \/ \E r \in Runs : \/ Engine(r)
                     \/ negotiate(r)
                     \/ tick(r)
                     \/ testTimer(r)
                     \/ workerError(r)
                     \/ fail(r)
                     \/ clientTerminates(r)
  \/ Quiet

\* The main queue is drained, the library run and the clock go on, a server answers
\* a client; nobody has to press a button, no client has to come to a server and
\* nothing has to fail.
Fairness ==
  /\ WF_vars(handleStatsCallback \/ completion)
  /\ \A r \in Runs : /\ WF_vars(Engine(r))
                     /\ WF_vars(testTimer(r))
                     /\ WF_vars(negotiate(r) /\ kind[r] = "client")

Spec == Init /\ [][Next]_vars /\ Fairness

-----------------------------------------------------------------------------
(* Properties.                                                             *)

\* Nobody uses a test after iperf_free_test: the library has returned from it, and a
\* block of vc_reporter_callback always finds the test it captured alive and the
\* runner and the callback that belong to it, because the completion block is behind
\* every stats block of its test in the main queue.
NoUseAfterFree ==
  /\ \A r \in Runs : phase[r] \notin {"none", "returned"} => heap[r] = "live"
  /\ \A n \in DOMAIN mainQueue :
       mainQueue[n][1] = "stats" =>
         LET r == mainQueue[n][2]
         IN  heap[r] = "live" /\ current = r /\ callback[r]

\* When the view controller shows Start, nothing of an earlier test is left: no
\* runner, no callback, no block in the queue and no library call that still runs.
\* So the assertions "Test is already running" and "Test should not be running" of
\* the runner cannot fire.
StartMeansIdle ==
  testRunner = NoRun =>
    /\ current = NoRun
    /\ mainQueue = <<>>
    /\ \A r \in Runs : ~callback[r] /\ phase[r] \in {"none", "returned"}

\* A test that is over for the user was over for the library, and was announced once.
OneFinalCallback ==
  \A r \in Runs : heap[r] = "freed" => finals[r] = 1 /\ result[r] # 1

\* A client test always gives the Start button back.
ClientTestEnds ==
  \A r \in Runs : testRunner = r /\ kind[r] = "client" ~> testRunner = NoRun \/ crashed

\* Documentation/Help.md: "Tests can be stopped at any time".
StopEndsTest ==
  \A r \in Runs : r \in stopped ~> testRunner # r \/ crashed

\* IPFTestRunnerViewController.m: "Only persist settings if the test is successful".
SavedOnlyAfterSuccess ==
  \A r \in saved : result[r] = 0

\* README.md: what to expect from the app is that it is stable.
NeverCrashes == ~crashed

=============================================================================

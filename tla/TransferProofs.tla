--------------------------- MODULE TransferProofs ---------------------------
(***************************************************************************)
(* The data phase of a test, for every configuration, block size and rate  *)
(* limit, in every interleaving of the worker threads with the statistics, *)
(* the reports, the end of the omitted period and the cancellation of the  *)
(* threads: the intervals printed for a stream never add up to more than   *)
(* its total; a client reports no more bytes received than sent; a test    *)
(* that ends by its bytes has moved them; the two reports agree; and the   *)
(* server's rate limit is exceeded exactly when an average says so.        *)
(***************************************************************************)
EXTENDS Transfer, FiniteSetTheorems, SequenceTheorems, WellFoundedInduction, TLAPS

TestStates == {"TEST_START", "TEST_RUNNING", "TEST_END", "EXCHANGE_RESULTS",
               "DISPLAY_RESULTS", "IPERF_DONE"}
MainPcs == {"select", "read", "total", "zero", "report", "check", "test_end", "omit", "clear",
            "results", "join", "done", "aborted"}
TestType == [state : TestStates, done : BOOLEAN, omitting : BOOLEAN, bytes_sent : Nat,
             blocks_sent : Nat, bytes_received : Nat, blocks_received : Nat]
ResultType == [bytes : Nat, interval : Nat, bytes_sent_omit : Nat, peer : Nat, last : Nat]
DiskType == [diskfile_left : Nat, buffer_left : Nat, unread : Nat]
WorkerType == [pc : ThreadPcs, r : 0..Block, multisend : Nat]
MainType == [pc : MainPcs, s : Nat, seen : Nat, total : Nat, then : {"select", "report", "test_end"}]

Shapes ==
  /\ conf \in Confs
  /\ test \in [Ends -> TestType]
  /\ result \in [Ends -> [Streams -> ResultType]]
  /\ pending \in [Streams -> 0..Block]
  /\ disk \in [Streams -> DiskType]
  /\ worker \in [Ends -> [Streams -> WorkerType]]
  /\ wire \in [Streams -> 0..SocketSize]
  /\ open \in BOOLEAN
  /\ main \in [Ends -> MainType]
  /\ DOMAIN ctrl = Ends /\ DOMAIN summary = Ends
  /\ reported \in [Ends -> [Streams -> Nat]]
  /\ nobufs \in [Streams -> Nat]
  /\ rate.bytes \in [0..Window - 1 -> Nat] /\ rate.index \in 0..Window - 1

\* What the place of a thread says about its block.
Stage(e, s) ==
  LET w == worker[e][s] IN
  /\ w.pc \in {"next", "file", "snd"} => Sends(e, s)
  /\ w.pc = "rcv" => ~Sends(e, s)
  /\ w.pc \in {"file", "snd"} => w.r = 0
  /\ w.pc = "bytes" /\ Sends(e, s) => w.r <= pending[s]
  /\ Sends(e, s) /\ conf.file # 0 =>
       /\ w.pc = "snd" => Unsent(s) <= disk[s].buffer_left
       /\ w.pc \in {"bytes", "interval", "test"} => w.r <= disk[s].buffer_left
Stages == \A e \in Ends, s \in Streams : Stage(e, s)

\* The statistics walk over the streams; what is read of an interval is still there.
Walk(e) ==
  LET m == main[e] IN
  /\ m.pc \in {"read", "total", "zero", "omit", "clear"} => m.s \in Streams
  /\ m.pc \in {"read", "total", "zero"} => m.then \in {"report", "test_end"}
  /\ m.pc \in {"total", "zero"} => m.seen <= result[e][m.s].interval
Walks == \A e \in Ends : Walk(e)

\* An omitted period ends only if there is one.
Omits ==
  \A e \in Ends :
    /\ \A s \in Streams : Sends(e, s) => result[e][s].bytes_sent_omit <= result[e][s].bytes
    /\ ~conf.omit => /\ ~test[e].omitting /\ main[e].pc \notin {"omit", "clear"}
                     /\ \A s \in Streams : result[e][s].bytes_sent_omit = 0

\* Bytes received or on their way.
Arrived(y, s) ==
  result[y][s].bytes + (IF worker[y][s].pc = "bytes" THEN worker[y][s].r ELSE 0) + wire[s]

\* The client's results are consistent if p is what the server counted.
Answered(p) ==
  \A s \in Streams :
    IF Sends("client", s)
    THEN p[s] <= result["client"][s].bytes + nobufs[s] + Block
    ELSE Arrived("client", s) <= p[s] + nobufs[s] + Block

Docs == [Streams -> Nat]
Busy == {"select", "read", "total", "zero", "report", "omit", "clear", "aborted"}
Peers == [s \in Streams |-> result["client"][s].peer]

\* The phases of the test, with the messages on their way.
InState(cs, ss) == test["client"].state = cs /\ test["server"].state = ss
Places(cs, ss)  == main["client"].pc \in cs /\ main["server"].pc \in ss
Mail(down, up)  == ctrl["client"] = down /\ ctrl["server"] = up
Idle == {"select", "omit", "clear", "aborted"}

Starting ==
  /\ InState("TEST_START", "TEST_RUNNING") /\ Places({"select"}, Busy)
  /\ Mail(<<Message("TEST_RUNNING")>>, <<>>)
  /\ \A s \in Streams : worker["client"][s].pc = "none"
Running ==
  /\ InState("TEST_RUNNING", "TEST_RUNNING") /\ Places(Busy \cup {"check", "test_end"}, Busy)
  /\ Mail(<<>>, <<>>)
Ending ==
  /\ InState("TEST_END", "TEST_RUNNING") /\ Places({"select", "aborted"}, Busy)
  /\ main["client"].pc = "aborted" => main["server"].pc = "aborted"
  /\ Mail(<<>>, <<Message("TEST_END")>>)
Stopping ==
  /\ InState("TEST_END", "TEST_END") /\ Places({"select"}, {"read", "total", "zero", "test_end"})
  /\ Mail(<<>>, <<>>)
Asking ==
  /\ InState("TEST_END", "EXCHANGE_RESULTS") /\ Places({"select"}, {"results"})
  /\ Mail(<<Message("EXCHANGE_RESULTS")>>, <<>>)
Telling ==
  LET doc == ctrl["server"][1].doc IN
  /\ InState("EXCHANGE_RESULTS", "EXCHANGE_RESULTS") /\ Places({"results"}, {"results"})
  /\ Mail(<<>>, <<Results(doc)>>) /\ doc \in Docs
Answering ==
  LET doc == ctrl["client"][1].doc IN
  /\ InState("EXCHANGE_RESULTS", "DISPLAY_RESULTS") /\ Places({"results"}, Idle)
  /\ Mail(<<Results(doc), Message("DISPLAY_RESULTS")>>, <<>>) /\ doc \in Docs
  /\ ~conf.omit => Answered(doc)
Displaying ==
  /\ InState("EXCHANGE_RESULTS", "DISPLAY_RESULTS") /\ Places({"select"}, Idle)
  /\ Mail(<<Message("DISPLAY_RESULTS")>>, <<>>)
  /\ ~conf.omit => Answered(Peers)
Finishing ==
  /\ InState("IPERF_DONE", "DISPLAY_RESULTS") /\ Places({"join", "done"}, Idle)
  /\ Mail(<<>>, <<Message("IPERF_DONE")>>)
Finished ==
  /\ InState("IPERF_DONE", "IPERF_DONE") /\ Places({"join", "done"}, {"done"})
  /\ Mail(<<>>, <<>>)

Phase ==
  \/ Starting \/ Running \/ Ending \/ Stopping \/ Asking \/ Telling \/ Answering \/ Displaying
  \/ Finishing \/ Finished

\* What the state of the server says about its threads and its sockets.
ServerSide ==
  /\ main["server"].pc \in {"read", "total", "zero"} =>
       main["server"].then = IF test["server"].state = "TEST_RUNNING" THEN "report" ELSE "test_end"
  /\ test["server"].state # "TEST_RUNNING" => test["server"].done
  /\ test["server"].state \notin {"TEST_RUNNING", "TEST_END"} => ~open

\* The last interval of the stream is stored and will be printed.
Due(e, s) ==
  \/ main[e].pc \in {"report", "test_end"}
  \/ main[e].pc \in {"read", "total", "zero"} /\ s < main[e].s
  \/ e = "client" /\ test[e].state \in {"TEST_END", "EXCHANGE_RESULTS"}

\* IntervalsWithinTotals with what is still to be printed and what is counted in the
\* total and not yet in the interval.
Within(e, s) ==
  main[e].pc # "aborted" /\ ~(main[e].pc = "clear" /\ main[e].s = s) =>
    reported[e][s] + result[e][s].interval
      + (IF Due(e, s) THEN result[e][s].last ELSE 0)
      + (IF worker[e][s].pc = "interval" THEN worker[e][s].r ELSE 0)
    <= Counted(e, s) + (IF conf.omit THEN Block ELSE 0)
Withins == \A e \in Ends, s \in Streams : Within(e, s)

\* Written and not yet counted by the sender.
Late(x, s) ==
  IF worker[x][s].pc = "bytes" THEN worker[x][s].r
  ELSE IF worker[x][s].pc = "gone" THEN Block ELSE 0

\* No byte arrives that was not written.
Flow(x, y, s) ==
  Sends(x, s) /\ x # y => Arrived(y, s) <= result[x][s].bytes + nobufs[s] + Late(x, s)
Flows == \A x \in Ends, y \in Ends, s \in Streams : Flow(x, y, s)

\* What is printed is numbers.
Printed ==
  \A p \in Range(summary["client"]) : \A s \in DOMAIN p.streams :
    s \in Streams /\ p.streams[s].sent \in Int /\ p.streams[s].received \in Int

TransferInv ==
  /\ Shapes /\ Stages /\ Walks /\ Omits /\ Phase /\ ServerSide
  /\ Withins
  /\ Flows
  /\ Printed /\ ReceivedWasSent

-----------------------------------------------------------------------------
(* The settings, and what a step leaves alone.                             *)

\* What a configuration holds, as far as the proofs look at it.
LEMMA ConfIs ==
  ASSUME conf \in Confs
  PROVE  /\ NumStreams \in Nat \ {0} /\ Streams = 1..NumStreams
         /\ \A s \in Streams : conf.sender[s] \in Ends
         /\ conf.omit \in BOOLEAN /\ conf.file \in Nat
  <1>1. conf \in ConfType /\ conf.sender # <<>>
    BY TransferAssumption
  <1>2. conf.sender \in Seq(Ends) /\ conf.omit \in BOOLEAN /\ conf.file \in Nat
    BY <1>1 DEF ConfType
  <1>3. Len(conf.sender) \in Nat \ {0} /\ DOMAIN conf.sender = 1..Len(conf.sender)
    BY <1>1, <1>2
  <1> QED
    BY <1>2, <1>3 DEF NumStreams, Streams

LEMMA Sizes ==
  /\ Block \in Nat \ {0} /\ Multisend \in Nat \ {0}
  /\ SocketSize \in Nat \ {0} /\ Window \in Nat \ {0}
  BY TransferAssumption

LEMMA OtherIs == Other("client") = "server" /\ Other("server") = "client"
  BY DEF Other, Ends

\* The settings never change.
LEMMA SameConf ==
  ASSUME conf' = conf
  PROVE  /\ Streams' = Streams /\ NumStreams' = NumStreams
         /\ \A e, s : Sends(e, s)' = Sends(e, s)
  BY DEF Streams, NumStreams, Sends

\* One end sends a stream, the other receives it.
LEMMA OneSender ==
  ASSUME conf \in Confs, NEW s \in Streams, NEW x \in Ends, NEW y \in Ends, x # y
  PROVE  Sends(x, s) <=> ~Sends(y, s)
  BY ConfIs DEF Sends, Ends

-----------------------------------------------------------------------------
(* The initial state.                                                      *)

LEMMA InitInv == Init => TransferInv
  <1> SUFFICES ASSUME Init PROVE TransferInv
    OBVIOUS
  <1> USE ConfIs, Sizes
  <1>1. conf \in Confs
    BY DEF Init
  <1>2. Shapes
    <2>1. test \in [Ends -> TestType]
      BY <1>1 DEF Init, TestType, TestStates, Ends
    <2>2. result \in [Ends -> [Streams -> ResultType]]
      BY DEF Init, ResultType
    <2>3. pending \in [Streams -> 0..Block] /\ wire \in [Streams -> 0..SocketSize]
          /\ nobufs \in [Streams -> Nat] /\ reported \in [Ends -> [Streams -> Nat]]
      BY DEF Init
    <2>4. disk \in [Streams -> DiskType]
      BY <1>1 DEF Init, DiskType
    <2>5. worker \in [Ends -> [Streams -> WorkerType]]
      BY DEF Init, WorkerType, ThreadPcs
    <2>6. main \in [Ends -> MainType]
      BY DEF Init, MainType, MainPcs
    <2>7. rate.bytes \in [0..Window - 1 -> Nat] /\ rate.index \in 0..Window - 1
      BY DEF Init
    <2> QED
      BY <1>1, <2>1, <2>2, <2>3, <2>4, <2>5, <2>6, <2>7 DEF Init, Shapes
  <1>3. /\ \A s \in Streams : worker["client"][s].pc = "none" /\ worker["server"][s].pc = "top"
        /\ \A e \in Ends : main[e].pc = "select"
        /\ \A e \in Ends : test[e].omitting = conf.omit
    BY DEF Init, Ends
  <1>4. \A e \in Ends, s \in Streams :
          /\ result[e][s].bytes = 0 /\ result[e][s].interval = 0 /\ result[e][s].last = 0
          /\ result[e][s].bytes_sent_omit = 0 /\ reported[e][s] = 0
    BY DEF Init
  <1>5. \A s \in Streams : wire[s] = 0 /\ nobufs[s] = 0
    BY DEF Init
  <1>6. Stages
    BY <1>3 DEF Stages, Stage, Ends
  <1>7. Walks
    BY <1>3 DEF Walks, Walk
  <1>8. Omits
    BY <1>1, <1>3, <1>4 DEF Omits
  <1>9. Starting /\ ServerSide
    BY <1>3 DEF Init, Starting, ServerSide, InState, Places, Mail, Busy, Ends
  <1>10. Withins
    <2> SUFFICES ASSUME NEW e \in Ends, NEW s \in Streams PROVE Within(e, s)
      BY DEF Withins
    <2>1. worker[e][s].pc # "interval" /\ Counted(e, s) = 0
      BY <1>3, <1>4 DEF Counted, Ends
    <2>2. ~Due(e, s)
      BY <1>3 DEF Due, Init
    <2> QED
      BY <1>1, <1>4, <2>1, <2>2 DEF Within
  <1>11. Flows
    BY <1>3, <1>4, <1>5 DEF Flows, Flow, Arrived, Late, Ends
  <1>12. Printed /\ ReceivedWasSent
    BY DEF Init, Printed, ReceivedWasSent, Range, Ends
  <1> QED
    BY <1>2, <1>6, <1>7, <1>8, <1>9, <1>10, <1>11, <1>12 DEF TransferInv, Phase

-----------------------------------------------------------------------------
(* Worker threads: what all their steps have in common.                    *)

Elsewhere(e, s) ==
  \A x \in Ends, t \in Streams : x # e \/ t # s => worker'[x][t] = worker[x][t]

\* One thread moves.
LEMMA ThreadMoves ==
  ASSUME Shapes, NEW e \in Ends, NEW s \in Streams, NEW w \in WorkerType,
         worker' = [worker EXCEPT ![e][s] = w]
  PROVE  /\ worker' \in [Ends -> [Streams -> WorkerType]]
         /\ worker'[e][s] = w /\ Elsewhere(e, s)
  BY DEF Shapes, Elsewhere

LEMMA ThreadGoes ==
  ASSUME Shapes, NEW e \in Ends, NEW s \in Streams, NEW pc \in ThreadPcs, Worker(e, s, pc)
  PROVE  /\ worker' \in [Ends -> [Streams -> WorkerType]]
         /\ worker'[e][s].pc = pc /\ worker'[e][s].r = worker[e][s].r
         /\ Elsewhere(e, s)
  <1> DEFINE w == [worker[e][s] EXCEPT !.pc = pc]
  <1>1. worker[e][s] \in WorkerType
    BY DEF Shapes
  <1>2. w \in WorkerType /\ w.pc = pc /\ w.r = worker[e][s].r
    BY <1>1 DEF WorkerType
  <1>3. worker' = [worker EXCEPT ![e][s] = w]
    BY DEF Worker
  <1> QED
    BY <1>2, <1>3, ThreadMoves

\* What a step of a thread may change for the main threads: counters grow, nothing new
\* arrives once the sockets are closed.
Steady(e, s) ==
  /\ conf' = conf /\ main' = main /\ ctrl' = ctrl /\ summary' = summary /\ rate' = rate
  /\ reported' = reported /\ open' = open
  /\ worker[e][s].pc # "none" /\ Elsewhere(e, s)
  /\ \A x \in Ends : /\ test'[x].state = test[x].state /\ test'[x].omitting = test[x].omitting
                     /\ test[x].done => test'[x].done
  /\ \A x \in Ends, t \in Streams :
       /\ result'[x][t].peer = result[x][t].peer
       /\ result'[x][t].bytes_sent_omit = result[x][t].bytes_sent_omit
       /\ result'[x][t].bytes >= result[x][t].bytes
       /\ result'[x][t].interval >= result[x][t].interval
  /\ \A t \in Streams : nobufs'[t] >= nobufs[t]
  /\ ~open => \A t \in Streams : Arrived("client", t)' <= Arrived("client", t)

\* What TypeOK says of the numbers, for the arithmetic below.
LEMMA Numbers ==
  ASSUME Shapes, NEW e \in Ends, NEW s \in Streams
  PROVE  /\ result[e][s].bytes \in Nat /\ result[e][s].interval \in Nat
         /\ result[e][s].bytes_sent_omit \in Nat /\ result[e][s].peer \in Nat
         /\ result[e][s].last \in Nat
         /\ worker[e][s].pc \in ThreadPcs /\ worker[e][s].r \in 0..Block
         /\ reported[e][s] \in Nat /\ wire[s] \in 0..SocketSize /\ nobufs[s] \in Nat
         /\ pending[s] \in 0..Block
         /\ disk[s].diskfile_left \in Nat /\ disk[s].buffer_left \in Nat /\ disk[s].unread \in Nat
         /\ Arrived(e, s) \in Nat /\ Block \in Nat \ {0} /\ SocketSize \in Nat
  <1>1. result[e][s] \in ResultType /\ worker[e][s] \in WorkerType /\ disk[s] \in DiskType
    BY DEF Shapes
  <1>2. worker[e][s].r \in 0..Block /\ result[e][s].bytes \in Nat /\ wire[s] \in 0..SocketSize
    BY <1>1 DEF Shapes, ResultType, WorkerType
  <1>3. Arrived(e, s) \in Nat
    BY <1>2, Sizes DEF Arrived
  <1>4. /\ result[e][s].bytes \in Nat /\ result[e][s].interval \in Nat
        /\ result[e][s].bytes_sent_omit \in Nat /\ result[e][s].peer \in Nat
        /\ result[e][s].last \in Nat
    BY <1>1 DEF ResultType
  <1>5. worker[e][s].pc \in ThreadPcs
    BY <1>1 DEF WorkerType
  <1>6. /\ disk[s].diskfile_left \in Nat /\ disk[s].buffer_left \in Nat
        /\ disk[s].unread \in Nat
    BY <1>1 DEF DiskType
  <1>7. reported[e][s] \in Nat /\ nobufs[s] \in Nat /\ pending[s] \in 0..Block
    BY DEF Shapes
  <1> QED
    BY <1>2, <1>3, <1>4, <1>5, <1>6, <1>7, Sizes

\* The same facts of the next state.
LEMMA NumbersNext ==
  ASSUME conf' = conf, Shapes', NEW e \in Ends, NEW s \in Streams
  PROVE  /\ result'[e][s].bytes \in Nat /\ result'[e][s].interval \in Nat
         /\ result'[e][s].bytes_sent_omit \in Nat /\ result'[e][s].peer \in Nat
         /\ result'[e][s].last \in Nat
         /\ worker'[e][s].pc \in ThreadPcs /\ worker'[e][s].r \in 0..Block
         /\ reported'[e][s] \in Nat /\ wire'[s] \in 0..SocketSize /\ nobufs'[s] \in Nat
         /\ pending'[s] \in 0..Block
         /\ disk'[s].diskfile_left \in Nat /\ disk'[s].buffer_left \in Nat
         /\ disk'[s].unread \in Nat
         /\ Arrived(e, s)' \in Nat
  <1>0. Streams' = Streams
    BY SameConf
  <1>1. result'[e][s] \in ResultType /\ worker'[e][s] \in WorkerType /\ disk'[s] \in DiskType
    BY <1>0 DEF Shapes
  <1>2. worker'[e][s].r \in 0..Block /\ result'[e][s].bytes \in Nat /\ wire'[s] \in 0..SocketSize
    BY <1>0, <1>1 DEF Shapes, ResultType, WorkerType
  <1>3. Arrived(e, s)' \in Nat
    BY <1>2, Sizes DEF Arrived
  <1>4. /\ result'[e][s].bytes \in Nat /\ result'[e][s].interval \in Nat
        /\ result'[e][s].bytes_sent_omit \in Nat /\ result'[e][s].peer \in Nat
        /\ result'[e][s].last \in Nat
    BY <1>1 DEF ResultType
  <1>5. worker'[e][s].pc \in ThreadPcs
    BY <1>1 DEF WorkerType
  <1>6. /\ disk'[s].diskfile_left \in Nat /\ disk'[s].buffer_left \in Nat
        /\ disk'[s].unread \in Nat
    BY <1>1 DEF DiskType
  <1>7. reported'[e][s] \in Nat /\ nobufs'[s] \in Nat /\ pending'[s] \in 0..Block
    BY <1>0 DEF Shapes
  <1> QED
    BY <1>2, <1>3, <1>4, <1>5, <1>6, <1>7

\* The document still answers what the client counts.
LEMMA AnswerStays ==
  ASSUME Shapes, Shapes', conf' = conf, NEW p \in Docs,
         \A t \in Streams : /\ result'["client"][t].bytes >= result["client"][t].bytes
                            /\ nobufs'[t] >= nobufs[t]
                            /\ Arrived("client", t)' <= Arrived("client", t),
         Answered(p)
  PROVE  Answered(p)'
  <1>0. Streams' = Streams /\ \A t : Sends("client", t)' = Sends("client", t)
    BY SameConf
  <1> SUFFICES ASSUME NEW t \in Streams
               PROVE  IF Sends("client", t)
                      THEN p[t] <= result'["client"][t].bytes + nobufs'[t] + Block
                      ELSE Arrived("client", t)' <= p[t] + nobufs'[t] + Block
    BY <1>0 DEF Answered
  <1>1. "client" \in Ends /\ p[t] \in Nat
    BY DEF Ends, Docs
  <1>2. IF Sends("client", t)
        THEN p[t] <= result["client"][t].bytes + nobufs[t] + Block
        ELSE Arrived("client", t) <= p[t] + nobufs[t] + Block
    BY DEF Answered
  <1>3. /\ result["client"][t].bytes \in Nat /\ nobufs[t] \in Nat /\ Arrived("client", t) \in Nat
        /\ Block \in Nat
    BY <1>1, Numbers
  <1>4. /\ result'["client"][t].bytes \in Nat /\ nobufs'[t] \in Nat
        /\ Arrived("client", t)' \in Nat
    BY <1>1, NumbersNext
  <1> QED
    BY <1>1, <1>2, <1>3, <1>4

\* What the client has been told, or will be, still answers what it counts.
LEMMA AnswersStay ==
  ASSUME Shapes, Shapes', conf' = conf, ctrl' = ctrl,
         \A t \in Streams : /\ result'["client"][t].peer = result["client"][t].peer
                            /\ result'["client"][t].bytes >= result["client"][t].bytes
                            /\ nobufs'[t] >= nobufs[t]
                            /\ Arrived("client", t)' <= Arrived("client", t)
  PROVE  /\ ctrl["client"][1].doc \in Docs /\ Answered(ctrl["client"][1].doc) =>
              Answered(ctrl["client"][1].doc)'
         /\ Answered(Peers) => Answered(Peers)'
  <1>0. Streams' = Streams
    BY SameConf
  <1>1. ASSUME ctrl["client"][1].doc \in Docs, Answered(ctrl["client"][1].doc)
        PROVE  Answered(ctrl["client"][1].doc)'
    <2>1. PICK p \in Docs : p = ctrl["client"][1].doc
      BY <1>1
    <2>2. Answered(p)'
      BY <1>1, <2>1, AnswerStays
    <2>3. ctrl'["client"][1].doc = p
      BY <2>1
    <2> QED
      BY <2>2, <2>3 DEF Answered
  <1>2. ASSUME Answered(Peers) PROVE Answered(Peers)'
    <2>1. Peers \in Docs
      BY Numbers DEF Peers, Docs, Ends
    <2>2. PICK p \in Docs : p = Peers
      BY <2>1
    <2>3. Answered(p)'
      BY <1>2, <2>2, AnswerStays
    <2>4. Peers' = p
      BY <1>0, <2>2 DEF Peers
    <2> QED
      BY <2>3, <2>4 DEF Answered
  <1> QED
    BY <1>1, <1>2

LEMMA SteadyPhase ==
  ASSUME TransferInv, Shapes', NEW e \in Ends, NEW s \in Streams, Steady(e, s)
  PROVE  Phase' /\ ServerSide'
  <1> USE DEF InState, Places, Mail
  <1>0. Streams' = Streams /\ conf' = conf /\ Shapes /\ Phase /\ ServerSide
    BY SameConf DEF TransferInv, Steady
  <1>1. /\ ctrl' = ctrl /\ main' = main /\ open' = open
        /\ test'["client"].state = test["client"].state
        /\ test'["server"].state = test["server"].state
        /\ test["server"].done => test'["server"].done
    BY DEF Steady, Ends
  <1>2. ServerSide'
    BY <1>0, <1>1 DEF ServerSide
  <1>3. CASE Starting
    <2>1. e = "server"
      BY <1>3 DEF Starting, Steady, Ends
    <2>2. \A t \in Streams : worker'["client"][t] = worker["client"][t]
      BY <2>1 DEF Steady, Elsewhere, Ends
    <2> QED
      BY <1>0, <1>1, <1>2, <1>3, <2>2 DEF Starting, Phase
  <1>4. CASE Running \/ Ending \/ Stopping \/ Asking \/ Finishing \/ Finished
    BY <1>1, <1>2, <1>4 DEF Phase, Running, Ending, Stopping, Asking, Finishing, Finished
  <1>5. CASE Telling
    <2>1. Docs' = Docs
      BY <1>0 DEF Docs
    <2> QED
      BY <1>1, <1>2, <1>5, <2>1 DEF Telling, Phase
  <1>6. CASE Answering \/ Displaying
    <2>1. ~open
      BY <1>0, <1>6 DEF ServerSide, Answering, Displaying
    <2>2. \A t \in Streams : /\ result'["client"][t].peer = result["client"][t].peer
                             /\ result'["client"][t].bytes >= result["client"][t].bytes
                             /\ nobufs'[t] >= nobufs[t]
                             /\ Arrived("client", t)' <= Arrived("client", t)
      BY <2>1 DEF Steady, Ends
    <2>3. Docs' = Docs
      BY <1>0 DEF Docs
    <2>4. CASE Answering
      <3>1. ctrl["client"][1].doc \in Docs /\ (~conf.omit => Answered(ctrl["client"][1].doc)')
        BY <1>0, <1>1, <2>2, <2>4, AnswersStay DEF Answering
      <3>2. Answering'
        BY <1>0, <1>1, <2>3, <2>4, <3>1 DEF Answering
      <3> QED
        BY <1>2, <3>2 DEF Phase
    <2>5. CASE Displaying
      <3>1. ~conf.omit => Answered(Peers)'
        BY <1>0, <1>1, <2>2, <2>5, AnswersStay DEF Displaying
      <3>2. Displaying'
        BY <1>0, <1>1, <2>5, <3>1 DEF Displaying
      <3> QED
        BY <1>2, <3>2 DEF Phase
    <2> QED
      BY <1>6, <2>4, <2>5
  <1> QED
    BY <1>0, <1>3, <1>4, <1>5, <1>6 DEF Phase

\* A report that was printed stays true.
LEMMA ReportStays ==
  ASSUME Shapes, Shapes', conf' = conf, summary'["client"] = summary["client"],
         main["client"].pc = "aborted" => main'["client"].pc = "aborted",
         \A t \in Streams : nobufs'[t] >= nobufs[t],
         Printed, ReceivedWasSent
  PROVE  Printed' /\ ReceivedWasSent'
  <1>0. Printed'
    BY SameConf DEF Printed
  <1> SUFFICES ASSUME summary["client"] # <<>>, main["client"].pc # "aborted", ~conf.omit,
                      NEW p \in Range(summary["client"]), NEW s \in DOMAIN p.streams
               PROVE  p.streams[s].received <= p.streams[s].sent + Block + nobufs'[s]
    BY <1>0 DEF ReceivedWasSent
  <1>1. p.streams[s].received <= p.streams[s].sent + Block + nobufs[s]
    BY DEF ReceivedWasSent
  <1>2. /\ s \in Streams /\ p.streams[s].sent \in Int /\ p.streams[s].received \in Int
        /\ nobufs'[s] >= nobufs[s]
    BY DEF Printed
  <1>3. nobufs[s] \in Nat /\ nobufs'[s] \in Nat /\ Block \in Nat
    BY <1>2, Numbers, NumbersNext DEF Ends
  <1> QED
    BY <1>1, <1>2, <1>3

LEMMA SteadyInv ==
  ASSUME TransferInv, Shapes', NEW e \in Ends, NEW s \in Streams, Steady(e, s)
  PROVE  Walks' /\ Omits' /\ Phase' /\ ServerSide' /\ Printed' /\ ReceivedWasSent'
  <1>0. Streams' = Streams /\ conf' = conf /\ Shapes /\ main' = main
    BY SameConf DEF TransferInv, Steady
  <1>1. Walks'
    <2> SUFFICES ASSUME NEW x \in Ends PROVE Walk(x)'
      BY DEF Walks
    <2>1. Walk(x)
      BY DEF TransferInv, Walks
    <2>2. main[x].pc \in {"total", "zero"} => main[x].seen <= result'[x][main[x].s].interval
      <3> SUFFICES ASSUME main[x].pc \in {"total", "zero"}
                   PROVE  main[x].seen <= result'[x][main[x].s].interval
        OBVIOUS
      <3>1. main[x].s \in Streams /\ main[x].seen <= result[x][main[x].s].interval
        BY <2>1 DEF Walk
      <3>2. result'[x][main[x].s].interval >= result[x][main[x].s].interval
        BY <3>1 DEF Steady
      <3>3. main[x].seen \in Nat
        BY <1>0 DEF Shapes, MainType
      <3> QED
        BY <1>0, <3>1, <3>2, <3>3, Numbers, NumbersNext
    <2> QED
      BY <1>0, <2>1, <2>2 DEF Walk
  <1>2. Omits'
    <2> SUFFICES ASSUME NEW x \in Ends
                 PROVE  /\ \A t \in Streams : Sends(x, t) =>
                             result'[x][t].bytes_sent_omit <= result'[x][t].bytes
                        /\ ~conf.omit =>
                             /\ ~test'[x].omitting /\ main'[x].pc \notin {"omit", "clear"}
                             /\ \A t \in Streams : result'[x][t].bytes_sent_omit = 0
      BY <1>0, SameConf DEF Omits
    <2>1. \A t \in Streams : Sends(x, t) =>
            result'[x][t].bytes_sent_omit <= result'[x][t].bytes
      <3> SUFFICES ASSUME NEW t \in Streams, Sends(x, t)
                   PROVE  result'[x][t].bytes_sent_omit <= result'[x][t].bytes
        OBVIOUS
      <3>1. result[x][t].bytes_sent_omit <= result[x][t].bytes
        BY DEF TransferInv, Omits
      <3>2. /\ result'[x][t].bytes_sent_omit = result[x][t].bytes_sent_omit
            /\ result'[x][t].bytes >= result[x][t].bytes
        BY DEF Steady
      <3> QED
        BY <1>0, <3>1, <3>2, Numbers, NumbersNext
    <2>2. test'[x].omitting = test[x].omitting
          /\ \A t \in Streams : result'[x][t].bytes_sent_omit = result[x][t].bytes_sent_omit
      BY DEF Steady
    <2> QED
      BY <1>0, <2>1, <2>2 DEF TransferInv, Omits
  <1>3. Phase' /\ ServerSide'
    BY SteadyPhase
  <1>4. Printed' /\ ReceivedWasSent'
    <2>1. Printed /\ ReceivedWasSent
      BY DEF TransferInv
    <2>2. summary' = summary /\ \A t \in Streams : nobufs'[t] >= nobufs[t]
      BY DEF Steady
    <2> QED
      BY <1>0, <2>1, <2>2, ReportStays
  <1> QED
    BY <1>1, <1>2, <1>3, <1>4

-----------------------------------------------------------------------------
(* Steps that count nothing.                                               *)

\* A thread goes from one place to another, and no counter changes.
Hops(e, s) ==
  /\ MainIdle /\ UNCHANGED <<result, sockets>>
  /\ worker[e][s].pc \notin {"none", "bytes", "interval"}
  /\ worker'[e][s].pc \notin {"bytes", "interval"}
  /\ worker[e][s].pc = "gone" => worker'[e][s].pc = "gone"
  /\ Elsewhere(e, s)
  /\ \A x \in Ends : /\ test'[x].state = test[x].state /\ test'[x].omitting = test[x].omitting
                     /\ test[x].done => test'[x].done

LEMMA HopsSteady ==
  ASSUME TransferInv, Shapes', NEW e \in Ends, NEW s \in Streams, Hops(e, s)
  PROVE  Steady(e, s) /\ Withins' /\ Flows'
  <1>0. /\ Streams' = Streams /\ Shapes /\ conf' = conf /\ main' = main /\ result' = result
        /\ wire' = wire /\ nobufs' = nobufs /\ reported' = reported /\ ctrl' = ctrl
        /\ \A x, t : Sends(x, t)' = Sends(x, t)
    BY SameConf DEF TransferInv, Hops, MainIdle, control, counting, sockets
  <1>1. \A x \in Ends, t \in Streams : Arrived(x, t)' = Arrived(x, t)
    BY <1>0, Zenon DEF Arrived, Hops, Elsewhere
  <1>2. Steady(e, s)
    <2>1. /\ worker[e][s].pc # "none" /\ Elsewhere(e, s)
          /\ \A x \in Ends : /\ test'[x].state = test[x].state
                             /\ test'[x].omitting = test[x].omitting
                             /\ test[x].done => test'[x].done
          /\ summary' = summary /\ rate' = rate /\ open' = open
      BY DEF Hops, MainIdle, control, counting, sockets
    <2>2. \A x \in Ends, t \in Streams :
            /\ result'[x][t].bytes >= result[x][t].bytes
            /\ result'[x][t].interval >= result[x][t].interval
            /\ nobufs'[t] >= nobufs[t]
            /\ Arrived(x, t)' <= Arrived(x, t)
      BY <1>0, <1>1, Numbers
    <2> QED
      BY <1>0, <2>1, <2>2 DEF Steady, Ends
  <1>3. Withins'
    <2> SUFFICES ASSUME NEW x \in Ends, NEW t \in Streams PROVE Within(x, t)'
      BY <1>0 DEF Withins
    <2>1. Within(x, t)
      BY DEF TransferInv, Withins
    <2>2. test'[x].state = test[x].state
      BY DEF Hops
    <2>3. Due(x, t)' = Due(x, t) /\ Counted(x, t)' = Counted(x, t)
      BY <1>0, <2>2 DEF Due, Counted
    <2>4. (IF worker'[x][t].pc = "interval" THEN worker'[x][t].r ELSE 0)
            = (IF worker[x][t].pc = "interval" THEN worker[x][t].r ELSE 0)
      BY DEF Hops, Elsewhere
    <2> QED
      BY <1>0, <2>1, <2>3, <2>4 DEF Within
  <1>4. Flows'
    <2> SUFFICES ASSUME NEW x \in Ends, NEW y \in Ends, NEW t \in Streams,
                        Sends(x, t), x # y
                 PROVE  Arrived(y, t)' <= result'[x][t].bytes + nobufs'[t] + Late(x, t)'
      BY <1>0 DEF Flows, Flow
    <2>1. Arrived(y, t) <= result[x][t].bytes + nobufs[t] + Late(x, t)
      BY DEF TransferInv, Flows, Flow
    <2>2. Late(x, t) \in Nat /\ Late(x, t)' \in Nat
      BY <1>0, Numbers, NumbersNext DEF Late
    <2>3. Late(x, t)' >= Late(x, t)
      <3>1. CASE x = e /\ t = s
        <4>1. worker[x][t].pc # "bytes" /\ worker'[x][t].pc # "bytes"
              /\ (worker[x][t].pc = "gone" => worker'[x][t].pc = "gone")
          BY <3>1 DEF Hops
        <4> QED
          BY <4>1, Sizes DEF Late
      <3>2. CASE ~(x = e /\ t = s)
        <4>1. worker'[x][t] = worker[x][t]
          BY <3>2 DEF Hops, Elsewhere
        <4>2. Late(x, t)' = Late(x, t)
          BY <4>1 DEF Late
        <4> QED
          BY <2>2, <4>2
      <3> QED
        BY <3>1, <3>2
    <2> QED
      BY <1>0, <1>1, <2>1, <2>2, <2>3, Numbers
  <1> QED
    BY <1>2, <1>3, <1>4

\* A thread changes the buffers of a stream only if it sends it: the others stay where
\* they are.
LEMMA StagesKept ==
  ASSUME TransferInv, conf' = conf, NEW e \in Ends, NEW s \in Streams, Elsewhere(e, s),
         \A t \in Streams : t # s => pending'[t] = pending[t] /\ disk'[t] = disk[t],
         Sends(e, s) \/ (pending'[s] = pending[s] /\ disk'[s] = disk[s]),
         Stage(e, s)'
  PROVE  Stages'
  <1>0. Streams' = Streams /\ (\A x, t : Sends(x, t)' = Sends(x, t)) /\ conf \in Confs
    BY SameConf DEF TransferInv, Shapes
  <1> SUFFICES ASSUME NEW x \in Ends, NEW t \in Streams, x # e \/ t # s
               PROVE  Stage(x, t)'
    BY <1>0 DEF Stages
  <1>1. Stage(x, t) /\ worker'[x][t] = worker[x][t]
    BY DEF TransferInv, Stages, Elsewhere
  <1>2. CASE pending'[t] = pending[t] /\ disk'[t] = disk[t]
    BY <1>0, <1>1, <1>2 DEF Stage, Unsent
  <1>3. CASE ~Sends(x, t)
    BY <1>0, <1>1, <1>3 DEF Stage
  <1> QED
    BY <1>0, <1>2, <1>3, OneSender

LEMMA HopsInv ==
  ASSUME TransferInv, Shapes', Stages', NEW e \in Ends, NEW s \in Streams, Hops(e, s)
  PROVE  TransferInv'
  BY HopsSteady, SteadyInv DEF TransferInv

\* The steps that change neither the buffers nor the test.
LEMMA ShapesHop ==
  ASSUME TransferInv, worker' \in [Ends -> [Streams -> WorkerType]],
         test' \in [Ends -> TestType], pending' \in [Streams -> 0..Block],
         disk' \in [Streams -> DiskType], MainIdle, UNCHANGED <<result, sockets>>
  PROVE  Shapes'
  <1>1. Shapes /\ conf' = conf /\ Streams' = Streams
    BY SameConf DEF TransferInv, MainIdle
  <1> QED
    BY <1>1 DEF Shapes, MainIdle, control, counting, sockets

LEMMA PlainHop ==
  ASSUME TransferInv, NEW e \in Ends, NEW s \in Streams,
         worker' \in [Ends -> [Streams -> WorkerType]], Elsewhere(e, s),
         worker[e][s].pc \in {"top", "next", "snd", "rcv"},
         worker'[e][s].pc \in {"top", "gone", "rcv", "snd", "file"},
         worker'[e][s].pc \in {"snd", "file"} => Sends(e, s) /\ worker'[e][s].r = 0,
         worker'[e][s].pc = "rcv" => ~Sends(e, s),
         worker'[e][s].pc = "snd" => conf.file = 0,
         UNCHANGED <<test, result, pending, disk, sockets>>, MainIdle
  PROVE  TransferInv'
  <1>0. conf' = conf /\ \A x, t : Sends(x, t)' = Sends(x, t)
    BY SameConf DEF MainIdle
  <1>1. Shapes'
    BY ShapesHop DEF TransferInv, Shapes
  <1>2. Stage(e, s)'
    BY <1>0 DEF Stage
  <1>3. Stages'
    BY <1>0, <1>2, StagesKept
  <1>4. Hops(e, s)
    BY DEF Hops
  <1> QED
    BY <1>1, <1>3, <1>4, HopsInv

LEMMA WorkerEnds ==
  ASSUME TransferInv, NEW e \in Ends, NEW s \in Streams, worker_ends(e, s)
  PROVE  TransferInv'
  <1>1. Shapes /\ "gone" \in ThreadPcs
    BY DEF TransferInv, ThreadPcs
  <1>2. worker'[e][s].pc = "gone" /\ worker' \in [Ends -> [Streams -> WorkerType]]
        /\ Elsewhere(e, s)
    BY <1>1, ThreadGoes DEF worker_ends
  <1> QED
    BY <1>2, PlainHop DEF worker_ends

LEMMA RecvStarts ==
  ASSUME TransferInv, NEW e \in Ends, NEW s \in Streams, recv_starts(e, s)
  PROVE  TransferInv'
  <1>1. Shapes /\ "rcv" \in ThreadPcs
    BY DEF TransferInv, ThreadPcs
  <1>2. worker'[e][s].pc = "rcv" /\ worker' \in [Ends -> [Streams -> WorkerType]]
        /\ Elsewhere(e, s)
    BY <1>1, ThreadGoes DEF recv_starts
  <1> QED
    BY <1>2, PlainHop DEF recv_starts

LEMMA StreamError ==
  ASSUME TransferInv, NEW e \in Ends, NEW s \in Streams, stream_error(e, s)
  PROVE  TransferInv'
  <1>1. Shapes /\ "gone" \in ThreadPcs
    BY DEF TransferInv, ThreadPcs
  <1>2. worker'[e][s].pc = "gone" /\ worker' \in [Ends -> [Streams -> WorkerType]]
        /\ Elsewhere(e, s)
    BY <1>1, ThreadGoes DEF stream_error
  <1> QED
    BY <1>2, PlainHop DEF stream_error

LEMMA SendMt ==
  ASSUME TransferInv, NEW e \in Ends, NEW s \in Streams, iperf_send_mt(e, s)
  PROVE  TransferInv'
  <1> DEFINE left == IF worker[e][s].pc = "top" THEN Multisend ELSE worker[e][s].multisend
             pc == IF left = 0 \/ (left > 1 /\ EndReached(e)) THEN "top"
                   ELSE IF conf.file = 0 THEN "snd" ELSE "file"
             w == IF left = 0 \/ (left > 1 /\ EndReached(e))
                  THEN [pc |-> "top", r |-> 0, multisend |-> 0]
                  ELSE [pc |-> pc, r |-> 0, multisend |-> left - 1]
  <1>1. Shapes /\ worker[e][s] \in WorkerType
    BY DEF TransferInv, Shapes
  <1>2. left \in Nat
    BY <1>1, Sizes DEF WorkerType
  <1>3. w \in WorkerType /\ w.pc = pc /\ w.r = 0
    <2> HIDE DEF left
    <2> QED
      BY <1>2, Sizes DEF WorkerType, ThreadPcs
  <1>4. worker' = [worker EXCEPT ![e][s] = w]
    BY DEF iperf_send_mt
  <1> HIDE DEF w
  <1>5. /\ worker' \in [Ends -> [Streams -> WorkerType]] /\ Elsewhere(e, s)
        /\ worker'[e][s].pc = pc /\ worker'[e][s].r = 0
    BY <1>1, <1>3, <1>4, ThreadMoves
  <1>6. pc \in {"top", "snd", "file"} /\ (pc = "snd" => conf.file = 0)
    OBVIOUS
  <1> HIDE DEF pc
  <1> QED
    BY <1>5, <1>6, PlainHop DEF iperf_send_mt

\* diskfile_send leaves in the buffer at least what is to be written.
LEMMA DiskfileSend ==
  ASSUME TransferInv, NEW e \in Ends, NEW s \in Streams, diskfile_send(e, s)
  PROVE  TransferInv'
  <1> DEFINE d == disk[s]
             reads == d.diskfile_left < Block /\ ~test[e].done
             n == IF reads THEN Least(d.unread, Block - d.diskfile_left) ELSE 0
             left == d.diskfile_left + n
             over == test[e].done \/ left = 0
             pc == IF over THEN "test" ELSE "snd"
  <1>0. /\ Shapes /\ conf' = conf /\ Stage(e, s)
        /\ d \in DiskType /\ test[e] \in TestType /\ pending[s] \in 0..Block
        /\ worker[e][s].pc = "file"
    BY DEF TransferInv, Shapes, Stages, MainIdle, diskfile_send
  <1>1. /\ d.diskfile_left \in Nat /\ d.unread \in Nat /\ d.buffer_left \in Nat /\ Block \in Nat \ {0}
        /\ test[e].done \in BOOLEAN
    BY <1>0, Sizes DEF DiskType, TestType
  <1>2. n \in Nat /\ n <= d.unread /\ left \in Nat /\ over \in BOOLEAN
    BY <1>1 DEF Least
  <1>3. Sends(e, s) /\ worker[e][s].r = 0
    BY <1>0 DEF Stage
  <1>4. reads => left \in 0..Block
    BY <1>1 DEF Least
  <1>5. /\ disk' = [disk EXCEPT ![s].buffer_left = left, ![s].unread = @ - n]
        /\ pending' = IF reads /\ left # Block THEN [pending EXCEPT ![s] = left] ELSE pending
        /\ test' = [test EXCEPT ![e].done = over]
        /\ Worker(e, s, pc)
        /\ UNCHANGED <<result, sockets>> /\ MainIdle
    BY DEF diskfile_send
  <1>6. Unsent(s)' <= left \/ over
    <2> SUFFICES ASSUME ~over PROVE Unsent(s)' <= left
      OBVIOUS
    <2>1. CASE reads /\ left # Block
      <3>1. pending'[s] = left /\ left # 0
        BY <1>0, <1>5, <2>1 DEF Shapes
      <3> HIDE DEF left
      <3> QED
        BY <1>2, <3>1 DEF Unsent
    <2>2. CASE ~(reads /\ left # Block)
      <3>1. left >= Block
        BY <1>1, <1>2, <2>2
      <3>2. pending'[s] = pending[s]
        BY <1>5, <2>2
      <3> HIDE DEF left
      <3> QED
        BY <1>0, <1>1, <1>2, <3>1, <3>2 DEF Unsent
    <2> QED
      BY <2>1, <2>2
  <1> HIDE DEF n
  <1>7. disk' \in [Streams -> DiskType] /\ disk'[s].buffer_left = left
        /\ \A t \in Streams : t # s => disk'[t] = disk[t]
    <2> HIDE DEF left
    <2>0. d.unread - n \in Nat
      BY <1>1, <1>2
    <2>1. [d EXCEPT !.buffer_left = left, !.unread = d.unread - n] \in DiskType
      BY <1>0, <1>2, <2>0 DEF DiskType
    <2> QED
      BY <1>0, <1>5, <2>1 DEF Shapes, DiskType
  <1>8. pending' \in [Streams -> 0..Block] /\ \A t \in Streams : t # s => pending'[t] = pending[t]
    <2> HIDE DEF left, reads
    <2> QED
      BY <1>0, <1>4, <1>5 DEF Shapes
  <1> HIDE DEF left, reads, over
  <1>9. pc \in ThreadPcs /\ pc \in {"test", "snd"}
    BY DEF ThreadPcs
  <1>10. /\ worker' \in [Ends -> [Streams -> WorkerType]] /\ Elsewhere(e, s)
         /\ worker'[e][s].pc = pc /\ worker'[e][s].r = 0
    BY <1>0, <1>3, <1>5, <1>9, ThreadGoes
  <1>11. test' \in [Ends -> TestType]
         /\ \A x \in Ends : /\ test'[x].state = test[x].state
                            /\ test'[x].omitting = test[x].omitting
                            /\ test[x].done => test'[x].done
    <2>1. [test[e] EXCEPT !.done = over] \in TestType
      BY <1>0, <1>2 DEF TestType
    <2>2. test[e].done => over
      BY DEF over
    <2> QED
      BY <1>0, <1>5, <2>1, <2>2 DEF Shapes, TestType
  <1>12. Shapes'
    BY <1>5, <1>7, <1>8, <1>10, <1>11, ShapesHop
  <1>13. Stage(e, s)'
    <2>1. Sends(e, s)'
      BY <1>0, <1>3, SameConf
    <2>2. pc = "snd" => Unsent(s)' <= disk'[s].buffer_left
      BY <1>6, <1>7
    <2> HIDE DEF pc
    <2> QED
      BY <1>2, <1>7, <1>9, <1>10, <2>1, <2>2 DEF Stage
  <1>14. Stages'
    BY <1>0, <1>3, <1>7, <1>8, <1>10, <1>13, StagesKept
  <1>15. Hops(e, s)
    <2> HIDE DEF pc
    <2> QED
      BY <1>0, <1>5, <1>9, <1>10, <1>11 DEF Hops
  <1> QED
    BY <1>12, <1>14, <1>15, HopsInv

-----------------------------------------------------------------------------
(* Steps that move or count bytes.                                         *)

\* Nothing happens to the other streams, nor to this one at the other end.
Apart(e, s) ==
  /\ conf' = conf /\ main' = main /\ reported' = reported /\ Elsewhere(e, s)
  /\ \A x \in Ends : test'[x].state = test[x].state
  /\ \A x \in Ends, t \in Streams : x # e \/ t # s => result'[x][t] = result[x][t]
  /\ \A t \in Streams : t # s => wire'[t] = wire[t] /\ nobufs'[t] = nobufs[t]

LEMMA ApartInv ==
  ASSUME TransferInv, NEW e \in Ends, NEW s \in Streams, Apart(e, s),
         Within(e, s)', \A x \in Ends, y \in Ends : Flow(x, y, s)'
  PROVE  Withins' /\ Flows'
  <1>0. Streams' = Streams /\ conf' = conf /\ \A x, t : Sends(x, t)' = Sends(x, t)
    BY SameConf DEF Apart
  <1>1. Withins'
    <2> SUFFICES ASSUME NEW x \in Ends, NEW t \in Streams, x # e \/ t # s PROVE Within(x, t)'
      BY <1>0 DEF Withins
    <2>1. Within(x, t)
      BY DEF TransferInv, Withins
    <2>2. /\ main' = main /\ reported' = reported /\ worker'[x][t] = worker[x][t]
          /\ test'[x].state = test[x].state /\ result'[x][t] = result[x][t]
      BY DEF Apart, Elsewhere
    <2>3. Due(x, t)' = Due(x, t) /\ Counted(x, t)' = Counted(x, t)
      BY <1>0, <2>2 DEF Due, Counted
    <2> QED
      BY <1>0, <2>1, <2>2, <2>3 DEF Within
  <1>2. Flows'
    <2> SUFFICES ASSUME NEW x \in Ends, NEW y \in Ends, NEW t \in Streams, t # s
                 PROVE  Flow(x, y, t)'
      BY <1>0 DEF Flows
    <2>1. Flow(x, y, t)
      BY DEF TransferInv, Flows
    <2>2. /\ worker'[x][t] = worker[x][t] /\ worker'[y][t] = worker[y][t]
          /\ result'[x][t] = result[x][t] /\ result'[y][t] = result[y][t]
          /\ wire'[t] = wire[t] /\ nobufs'[t] = nobufs[t]
      BY DEF Apart, Elsewhere
    <2> QED
      BY <1>0, <2>1, <2>2 DEF Flow, Arrived, Late
  <1> QED
    BY <1>1, <1>2

\* The bytes of one stream: what arrived grows no more than what was sent.
LEMMA FlowKept ==
  ASSUME TransferInv, conf' = conf, Shapes', NEW s \in Streams,
         \A x \in Ends, y \in Ends : Sends(x, s) /\ x # y =>
           \E k \in Int : /\ Arrived(y, s)' <= Arrived(y, s) + k
                          /\ result[x][s].bytes + nobufs[s] + Late(x, s) + k
                               <= result'[x][s].bytes + nobufs'[s] + Late(x, s)'
  PROVE  \A x \in Ends, y \in Ends : Flow(x, y, s)'
  <1> SUFFICES ASSUME NEW x \in Ends, NEW y \in Ends, Sends(x, s), x # y
               PROVE  Arrived(y, s)' <= result'[x][s].bytes + nobufs'[s] + Late(x, s)'
    BY SameConf DEF Flow
  <1>0. Shapes /\ Arrived(y, s) <= result[x][s].bytes + nobufs[s] + Late(x, s)
    BY DEF TransferInv, Flows, Flow
  <1>1. PICK k \in Int : /\ Arrived(y, s)' <= Arrived(y, s) + k
                         /\ result[x][s].bytes + nobufs[s] + Late(x, s) + k
                              <= result'[x][s].bytes + nobufs'[s] + Late(x, s)'
    OBVIOUS
  <1>2. Late(x, s) \in Nat /\ Late(x, s)' \in Nat
    BY <1>0, Numbers, NumbersNext DEF Late
  <1>3. /\ Arrived(y, s) \in Nat /\ result[x][s].bytes \in Nat /\ nobufs[s] \in Nat
        /\ Arrived(y, s)' \in Nat /\ result'[x][s].bytes \in Nat /\ nobufs'[s] \in Nat
    BY <1>0, Numbers, NumbersNext
  <1> QED
    BY <1>0, <1>1, <1>2, <1>3

\* A step that leaves all counters of the streams at this end alone.
LEMMA WithinKept ==
  ASSUME TransferInv, NEW e \in Ends, NEW s \in Streams, conf' = conf, main' = main,
         reported' = reported, test'[e].state = test[e].state,
         result'[e][s] = result[e][s],
         worker[e][s].pc # "interval", worker'[e][s].pc # "interval"
  PROVE  Within(e, s)'
  <1>1. Within(e, s)
    BY DEF TransferInv, Withins
  <1>2. Due(e, s)' = Due(e, s) /\ Counted(e, s)' = Counted(e, s)
    BY SameConf DEF Due, Counted
  <1> QED
    BY <1>1, <1>2 DEF Within

\* What a write does to the connection and to the sender's thread.
Wrote(e, s, pc, r, k) ==
  /\ k \in 0..Block /\ wire[s] + k \in 0..SocketSize
  /\ wire' = [wire EXCEPT ![s] = @ + k]
  /\ worker'[e][s].pc = pc /\ worker'[e][s].r = r /\ Elsewhere(e, s)
  /\ worker' \in [Ends -> [Streams -> WorkerType]]
  /\ pending' = [pending EXCEPT ![s] = Unsent(s)]
  /\ UNCHANGED <<test, result, disk, open>> /\ MainIdle

\* Bytes are written only to an open socket, and are counted or known to be lost.
LEMMA WroteInv ==
  ASSUME TransferInv, NEW e \in Ends, NEW s \in Streams, worker[e][s].pc = "snd", open,
         NEW pc, NEW r, NEW k, Wrote(e, s, pc, r, k),
         \/ pc = "bytes" /\ r = k /\ k <= Unsent(s) /\ nobufs' = nobufs
         \/ pc = "top" /\ nobufs' = [nobufs EXCEPT ![s] = @ + k]
  PROVE  TransferInv'
  <1>0. /\ Shapes /\ conf' = conf /\ Streams' = Streams /\ Stage(e, s)
        /\ (\A x, t : Sends(x, t)' = Sends(x, t)) /\ Sends(e, s)
    BY SameConf DEF TransferInv, Wrote, MainIdle, Stages, Stage
  <1>1. /\ wire[s] \in Nat /\ nobufs[s] \in Nat /\ Block \in Nat \ {0} /\ pending[s] \in 0..Block
        /\ k \in Nat
    BY <1>0, Numbers DEF Wrote
  <1>2. Unsent(s) \in 1..Block
    BY <1>1 DEF Unsent
  <1>3. wire' \in [Streams -> 0..SocketSize] /\ wire'[s] = wire[s] + k
        /\ \A t \in Streams : t # s => wire'[t] = wire[t]
    BY <1>0 DEF Shapes, Wrote
  <1>4. nobufs' \in [Streams -> Nat] /\ (\A t \in Streams : t # s => nobufs'[t] = nobufs[t])
        /\ (pc = "bytes" => nobufs'[s] = nobufs[s]) /\ (pc = "top" => nobufs'[s] = nobufs[s] + k)
    BY <1>0, <1>1 DEF Shapes
  <1>5. pending' \in [Streams -> 0..Block] /\ pending'[s] = Unsent(s)
        /\ \A t \in Streams : t # s => pending'[t] = pending[t]
    <2> HIDE DEF Unsent
    <2> QED
      BY <1>0, <1>2 DEF Shapes, Wrote
  <1>6. Shapes'
    BY <1>0, <1>3, <1>4, <1>5 DEF Shapes, Wrote, MainIdle, control, counting
  <1>7. Stage(e, s)'
    <2>1. conf.file # 0 => Unsent(s) <= disk[s].buffer_left /\ disk[s].buffer_left \in Nat
      BY <1>0, Numbers DEF Stage
    <2>2. pc = "bytes" => /\ r <= pending'[s]
                          /\ conf.file # 0 => r <= disk'[s].buffer_left
      BY <1>1, <1>2, <1>5, <2>1 DEF Wrote
    <2> QED
      BY <1>0, <2>2 DEF Stage, Wrote
  <1>8. Stages'
    BY <1>0, <1>5, <1>7, StagesKept DEF Wrote
  <1>9. \A t \in Streams : nobufs'[t] >= nobufs[t]
    <2> SUFFICES ASSUME NEW t \in Streams PROVE nobufs'[t] >= nobufs[t]
      OBVIOUS
    <2>1. nobufs[t] \in Nat /\ (pc = "bytes" \/ pc = "top")
      BY <1>0 DEF Shapes
    <2> QED
      BY <1>1, <1>4, <2>1
  <1>10. Steady(e, s)
    BY <1>0, <1>9, Numbers DEF Steady, Wrote, MainIdle, control, counting
  <1>11. Apart(e, s)
    BY <1>3, <1>4 DEF Apart, Wrote, MainIdle, control, counting
  <1>12. Within(e, s)'
    BY <1>0, WithinKept DEF Wrote, MainIdle, control, counting
  <1>13. \A x \in Ends, y \in Ends : Flow(x, y, s)'
    <2> SUFFICES ASSUME NEW x \in Ends, NEW y \in Ends, Sends(x, s), x # y
                 PROVE  /\ k \in Int /\ Arrived(y, s)' <= Arrived(y, s) + k
                        /\ result[x][s].bytes + nobufs[s] + Late(x, s) + k
                             <= result'[x][s].bytes + nobufs'[s] + Late(x, s)'
      BY <1>0, <1>6, FlowKept
    <2>1. x = e /\ result' = result
      BY <1>0, OneSender DEF Wrote, Shapes
    <2>2. Arrived(y, s)' = Arrived(y, s) + k
      <3>1. worker'[y][s] = worker[y][s]
        BY <2>1 DEF Wrote, Elsewhere
      <3>2. result[y][s].bytes \in Nat /\ worker[y][s].r \in Nat
        BY <1>0, Numbers
      <3> QED
        BY <1>1, <1>3, <2>1, <3>1, <3>2 DEF Arrived
    <2>3. Late(e, s) = 0 /\ Late(e, s)' = IF pc = "bytes" THEN k ELSE 0
      BY DEF Late, Wrote
    <2>4. result[e][s].bytes \in Nat /\ Arrived(y, s) \in Nat
      BY <1>0, Numbers
    <2> QED
      BY <1>1, <1>4, <2>1, <2>2, <2>3, <2>4
  <1>14. Withins' /\ Flows'
    BY <1>11, <1>12, <1>13, ApartInv
  <1> QED
    BY <1>6, <1>8, <1>10, <1>14, SteadyInv DEF TransferInv

LEMMA TcpSend ==
  ASSUME TransferInv, NEW e \in Ends, NEW s \in Streams, iperf_tcp_send(e, s)
  PROVE  TransferInv'
  <1>0. Shapes /\ worker[e][s] \in WorkerType /\ wire[s] \in 0..SocketSize
        /\ pending[s] \in 0..Block /\ Block \in Nat \ {0}
    BY Sizes DEF TransferInv, Shapes
  <1>1. PICK r \in 1..Unsent(s) :
          /\ wire[s] + r <= SocketSize
          /\ wire' = [wire EXCEPT ![s] = @ + r]
          /\ worker' = [worker EXCEPT ![e][s].pc = "bytes", ![e][s].r = r]
    BY DEF iperf_tcp_send
  <1>2. r \in 0..Block /\ wire[s] + r \in 0..SocketSize
    BY <1>0, <1>1, Sizes DEF Unsent
  <1> DEFINE w == [worker[e][s] EXCEPT !.pc = "bytes", !.r = r]
  <1>3. w \in WorkerType /\ w.pc = "bytes" /\ w.r = r
    BY <1>0, <1>2 DEF WorkerType, ThreadPcs
  <1>4. worker' = [worker EXCEPT ![e][s] = w]
    BY <1>0, <1>1 DEF Shapes
  <1> HIDE DEF w
  <1>5. /\ worker' \in [Ends -> [Streams -> WorkerType]] /\ Elsewhere(e, s)
        /\ worker'[e][s].pc = "bytes" /\ worker'[e][s].r = r
    BY <1>0, <1>3, <1>4, ThreadMoves
  <1>6. Wrote(e, s, "bytes", r, r)
    BY <1>1, <1>2, <1>5 DEF iperf_tcp_send, Wrote
  <1>7. r <= Unsent(s) /\ nobufs' = nobufs /\ open /\ worker[e][s].pc = "snd"
    BY DEF iperf_tcp_send
  <1> QED
    BY <1>6, <1>7, WroteInv

LEMMA WriteNobufs ==
  ASSUME TransferInv, NEW e \in Ends, NEW s \in Streams, write_nobufs(e, s)
  PROVE  TransferInv'
  <1>0. Shapes /\ wire[s] \in 0..SocketSize /\ pending[s] \in 0..Block /\ Block \in Nat \ {0}
        /\ "top" \in ThreadPcs
    BY Sizes DEF TransferInv, Shapes, ThreadPcs
  <1>1. PICK k \in 1..Unsent(s) - 1 :
          /\ wire[s] + k <= SocketSize
          /\ wire' = [wire EXCEPT ![s] = @ + k]
          /\ nobufs' = [nobufs EXCEPT ![s] = @ + k]
    BY DEF write_nobufs
  <1>2. k \in 0..Block /\ wire[s] + k \in 0..SocketSize
    BY <1>0, <1>1, Sizes DEF Unsent
  <1>3. /\ worker' \in [Ends -> [Streams -> WorkerType]] /\ Elsewhere(e, s)
        /\ worker'[e][s].pc = "top"
    BY <1>0, ThreadGoes DEF write_nobufs
  <1>4. Wrote(e, s, "top", worker'[e][s].r, k)
    BY <1>1, <1>2, <1>3 DEF write_nobufs, Wrote
  <1> QED
    BY <1>1, <1>4, WroteInv DEF write_nobufs

\* What is read leaves the socket; nothing else is taken.
LEMMA TcpRecv ==
  ASSUME TransferInv, NEW e \in Ends, NEW s \in Streams, iperf_tcp_recv(e, s)
  PROVE  TransferInv'
  <1> DEFINE r == Least(wire[s], Block)
             pc == IF r = 0 THEN "top" ELSE IF CountsIn(e) THEN "bytes" ELSE "test"
             w == [worker[e][s] EXCEPT !.r = r, !.pc = pc]
  <1>0. /\ Shapes /\ conf' = conf /\ Streams' = Streams /\ Stage(e, s)
        /\ (\A x, t : Sends(x, t)' = Sends(x, t)) /\ ~Sends(e, s)
        /\ worker[e][s] \in WorkerType
    <2>1. worker[e][s].pc = "rcv" /\ MainIdle
      BY DEF iperf_tcp_recv
    <2>2. Shapes /\ Stage(e, s)
      BY DEF TransferInv, Stages
    <2> QED
      BY <2>1, <2>2, SameConf DEF Shapes, MainIdle, Stage
  <1>1. wire[s] \in 0..SocketSize /\ Block \in Nat \ {0} /\ SocketSize \in Nat
    BY <1>0, Numbers
  <1>2. r \in 0..Block /\ r <= wire[s]
    BY <1>1 DEF Least
  <1>3. wire' = [wire EXCEPT ![s] = @ - r]
    BY DEF iperf_tcp_recv, Taken
  <1>4. worker' = [worker EXCEPT ![e][s] = w]
    BY <1>0 DEF iperf_tcp_recv, Shapes
  <1> HIDE DEF r
  <1>5. pc \in {"top", "bytes", "test"} /\ pc \in ThreadPcs
    BY DEF ThreadPcs
  <1> HIDE DEF pc
  <1>6. w \in WorkerType /\ w.pc = pc /\ w.r = r
    BY <1>0, <1>2, <1>5 DEF WorkerType
  <1> HIDE DEF w
  <1>7. /\ worker' \in [Ends -> [Streams -> WorkerType]] /\ Elsewhere(e, s)
        /\ worker'[e][s].pc = pc /\ worker'[e][s].r = r
    BY <1>0, <1>4, <1>6, ThreadMoves
  <1>8. /\ wire'[s] = wire[s] - r /\ wire'[s] \in 0..SocketSize
        /\ \A t \in Streams : t # s => wire'[t] = wire[t]
    BY <1>0, <1>1, <1>2, <1>3 DEF Shapes
  <1>9. wire' \in [Streams -> 0..SocketSize]
    BY <1>0, <1>1, <1>2, <1>3 DEF Shapes
  <1>10. UNCHANGED <<test, result, pending, disk, open, nobufs>> /\ MainIdle
    BY DEF iperf_tcp_recv
  <1>11. Shapes'
    BY <1>0, <1>7, <1>9, <1>10 DEF Shapes, MainIdle, control, counting
  <1>12. Stage(e, s)'
    BY <1>0, <1>5, <1>7 DEF Stage
  <1>13. Stages'
    BY <1>0, <1>7, <1>10, <1>12, StagesKept
  <1>14. worker[e][s].pc = "rcv"
    BY DEF iperf_tcp_recv
  <1>15. \A x \in Ends, t \in Streams : Arrived(x, t)' <= Arrived(x, t)
    <2> SUFFICES ASSUME NEW x \in Ends, NEW t \in Streams PROVE Arrived(x, t)' <= Arrived(x, t)
      OBVIOUS
    <2>1. /\ result[x][t].bytes \in Nat /\ wire[t] \in Nat /\ worker[x][t].r \in Nat
      BY <1>0, Numbers
    <2>2. CASE x = e /\ t = s
      BY <1>1, <1>2, <1>7, <1>8, <1>10, <1>14, <2>1, <2>2 DEF Arrived
    <2>3. CASE ~(x = e /\ t = s)
      <3>1. worker'[x][t] = worker[x][t]
        BY <1>7, <2>3 DEF Elsewhere
      <3>2. wire'[t] <= wire[t] /\ wire'[t] \in Nat
        BY <1>1, <1>2, <1>8, <2>1
      <3> QED
        BY <1>10, <2>1, <3>1, <3>2 DEF Arrived
    <2> QED
      BY <2>2, <2>3
  <1>16. Steady(e, s)
    BY <1>0, <1>7, <1>10, <1>14, <1>15, Numbers DEF Steady, MainIdle, control, counting, Ends
  <1>17. Apart(e, s)
    BY <1>7, <1>8, <1>10 DEF Apart, MainIdle, control, counting
  <1>18. Within(e, s)'
    BY <1>0, <1>5, <1>7, <1>10, <1>14, WithinKept DEF MainIdle, control, counting
  <1>19. \A x \in Ends, y \in Ends : Flow(x, y, s)'
    <2> SUFFICES ASSUME NEW x \in Ends, NEW y \in Ends, Sends(x, s), x # y
                 PROVE  /\ 0 \in Int /\ Arrived(y, s)' <= Arrived(y, s) + 0
                        /\ result[x][s].bytes + nobufs[s] + Late(x, s) + 0
                             <= result'[x][s].bytes + nobufs'[s] + Late(x, s)'
      BY <1>0, <1>11, FlowKept
    <2>1. worker'[x][s] = worker[x][s] /\ result' = result /\ nobufs' = nobufs
      BY <1>0, <1>7, <1>10 DEF Elsewhere
    <2>2. Late(x, s)' = Late(x, s) /\ Late(x, s) \in Nat
      BY <1>0, <2>1, Numbers DEF Late
    <2>3. result[x][s].bytes \in Nat /\ nobufs[s] \in Nat /\ Arrived(y, s) \in Nat
      BY <1>0, Numbers
    <2> QED
      BY <1>15, <2>1, <2>2, <2>3, NumbersNext, <1>11
  <1>20. Withins' /\ Flows'
    BY <1>17, <1>18, <1>19, ApartInv
  <1> QED
    BY <1>11, <1>13, <1>16, <1>20, SteadyInv DEF TransferInv

\* A record of results with one counter changed.
LEMMA ResultMoves ==
  ASSUME Shapes, NEW e \in Ends, NEW s \in Streams, NEW r \in ResultType,
         result' = [result EXCEPT ![e][s] = r]
  PROVE  /\ result' \in [Ends -> [Streams -> ResultType]]
         /\ result'[e][s] = r
         /\ \A x \in Ends, t \in Streams : x # e \/ t # s => result'[x][t] = result[x][t]
  BY DEF Shapes

\* bytes_sent or bytes_received grows before the counter of the interval.
LEMMA CountBytes ==
  ASSUME TransferInv, NEW e \in Ends, NEW s \in Streams, count_bytes(e, s)
  PROVE  TransferInv'
  <1> DEFINE r == worker[e][s].r
             new == [result[e][s] EXCEPT !.bytes = @ + r]
  <1>0. /\ Shapes /\ conf' = conf /\ Streams' = Streams /\ Stage(e, s)
        /\ (\A x, t : Sends(x, t)' = Sends(x, t)) /\ worker[e][s].pc = "bytes"
        /\ UNCHANGED <<test, disk, sockets>> /\ MainIdle /\ "interval" \in ThreadPcs
    BY SameConf DEF TransferInv, count_bytes, MainIdle, Stages, ThreadPcs
  <1>1. /\ result[e][s] \in ResultType /\ r \in 0..Block /\ Block \in Nat
        /\ pending[s] \in 0..Block /\ result[e][s].bytes \in Nat
    BY <1>0, Numbers DEF Shapes
  <1>2. /\ new \in ResultType /\ new.bytes = result[e][s].bytes + r
        /\ new.interval = result[e][s].interval /\ new.last = result[e][s].last
        /\ new.bytes_sent_omit = result[e][s].bytes_sent_omit /\ new.peer = result[e][s].peer
    BY <1>1 DEF ResultType
  <1>3. result' = [result EXCEPT ![e][s] = new]
    BY DEF count_bytes
  <1> HIDE DEF new
  <1>4. /\ result' \in [Ends -> [Streams -> ResultType]] /\ result'[e][s] = new
        /\ \A x \in Ends, t \in Streams : x # e \/ t # s => result'[x][t] = result[x][t]
    BY <1>0, <1>2, <1>3, ResultMoves
  <1>5. /\ worker' \in [Ends -> [Streams -> WorkerType]] /\ Elsewhere(e, s)
        /\ worker'[e][s].pc = "interval" /\ worker'[e][s].r = r
    BY <1>0, ThreadGoes DEF count_bytes
  <1>6. Sends(e, s) => r <= pending[s]
    BY <1>0 DEF Stage
  <1>7. /\ pending' \in [Streams -> 0..Block]
        /\ \A t \in Streams : t # s => pending'[t] = pending[t]
        /\ ~Sends(e, s) => pending'[s] = pending[s]
    <2> HIDE DEF r
    <2>1. pending' = IF Sends(e, s) THEN [pending EXCEPT ![s] = @ - r] ELSE pending
      BY DEF count_bytes, r
    <2> QED
      BY <1>0, <1>1, <1>6, <2>1 DEF Shapes
  <1>8. Shapes'
    BY <1>0, <1>4, <1>5, <1>7 DEF Shapes, MainIdle, control, counting, sockets
  <1>9. Stage(e, s)'
    BY <1>0, <1>5 DEF Stage
  <1>10. Stages'
    BY <1>0, <1>5, <1>7, <1>9, StagesKept
  <1> HIDE DEF r
  <1>11. \A x \in Ends, t \in Streams : Arrived(x, t)' <= Arrived(x, t)
    <2> SUFFICES ASSUME NEW x \in Ends, NEW t \in Streams PROVE Arrived(x, t)' <= Arrived(x, t)
      OBVIOUS
    <2>1. /\ result[x][t].bytes \in Nat /\ wire[t] \in Nat /\ worker[x][t].r \in Nat
          /\ wire' = wire
      BY <1>0, Numbers DEF sockets
    <2>2. CASE x = e /\ t = s
      BY <1>0, <1>1, <1>2, <1>4, <1>5, <2>1, <2>2 DEF Arrived, r
    <2>3. CASE ~(x = e /\ t = s)
      <3>1. worker'[x][t] = worker[x][t] /\ result'[x][t] = result[x][t]
        BY <1>4, <1>5, <2>3 DEF Elsewhere
      <3> QED
        BY <2>1, <3>1 DEF Arrived
    <2> QED
      BY <2>2, <2>3
  <1>12. Steady(e, s)
    <2>1. \A x \in Ends, t \in Streams :
            /\ result'[x][t].peer = result[x][t].peer
            /\ result'[x][t].bytes_sent_omit = result[x][t].bytes_sent_omit
            /\ result'[x][t].bytes >= result[x][t].bytes
            /\ result'[x][t].interval >= result[x][t].interval
            /\ nobufs[t] >= nobufs[t]
      BY <1>0, <1>1, <1>2, <1>4, Numbers
    <2> QED
      BY <1>0, <1>5, <1>11, <2>1 DEF Steady, MainIdle, control, counting, sockets, Ends
  <1>13. Apart(e, s)
    BY <1>0, <1>4, <1>5 DEF Apart, MainIdle, control, counting, sockets
  <1>14. Within(e, s)'
    <2>1. Within(e, s) /\ main' = main /\ reported' = reported /\ test' = test
      BY <1>0 DEF TransferInv, Withins, MainIdle, control, counting
    <2>2. Due(e, s)' = Due(e, s)
      BY <2>1 DEF Due
    <2>3. /\ Counted(e, s) \in Int /\ Counted(e, s)' = Counted(e, s) + r
      BY <1>0, <1>1, <1>2, <1>4, Numbers DEF Counted
    <2> DEFINE d == IF Due(e, s) THEN result[e][s].last ELSE 0
               o == IF conf.omit THEN Block ELSE 0
    <2>4. d \in Nat /\ o \in Nat
      BY <1>0, Numbers
    <2>5. d' = d /\ o' = o
      BY <1>0, <1>2, <1>4, <2>2
    <2> HIDE DEF d, o
    <2>6. main[e].pc # "aborted" /\ ~(main[e].pc = "clear" /\ main[e].s = s) =>
            reported[e][s] + result[e][s].interval + d <= Counted(e, s) + o
      BY <1>0, <2>1, <2>4, Numbers DEF Within, d, o
    <2>7. main[e].pc # "aborted" /\ ~(main[e].pc = "clear" /\ main[e].s = s) =>
            reported[e][s] + result[e][s].interval + d + r <= Counted(e, s)' + o
      BY <1>0, <1>1, <2>3, <2>4, <2>6, Numbers
    <2> QED
      BY <1>2, <1>4, <1>5, <2>1, <2>5, <2>7 DEF Within, d, o
  <1>15. \A x \in Ends, y \in Ends : Flow(x, y, s)'
    <2> SUFFICES ASSUME NEW x \in Ends, NEW y \in Ends, Sends(x, s), x # y
                 PROVE  /\ 0 \in Int /\ Arrived(y, s)' <= Arrived(y, s) + 0
                        /\ result[x][s].bytes + nobufs[s] + Late(x, s) + 0
                             <= result'[x][s].bytes + nobufs'[s] + Late(x, s)'
      BY <1>0, <1>8, FlowKept
    <2>1. /\ result[x][s].bytes \in Nat /\ nobufs[s] \in Nat /\ Arrived(y, s) \in Nat
          /\ Arrived(y, s)' \in Nat /\ nobufs' = nobufs
      BY <1>0, <1>8, Numbers, NumbersNext DEF sockets
    <2>2. CASE x = e
      <3>1. Late(x, s) = r /\ Late(x, s)' = 0 /\ result'[x][s].bytes = result[x][s].bytes + r
        BY <1>0, <1>2, <1>4, <1>5, <2>2 DEF Late, r
      <3> QED
        BY <1>1, <1>11, <2>1, <3>1
    <2>3. CASE x # e
      <3>1. worker'[x][s] = worker[x][s] /\ result'[x][s] = result[x][s]
        BY <1>4, <1>5, <2>3 DEF Elsewhere
      <3>2. Late(x, s)' = Late(x, s) /\ Late(x, s) \in Nat
        BY <1>0, <3>1, Numbers DEF Late
      <3> QED
        BY <1>11, <2>1, <3>1, <3>2
    <2> QED
      BY <2>2, <2>3
  <1>16. Withins' /\ Flows'
    BY <1>13, <1>14, <1>15, ApartInv
  <1> QED
    BY <1>8, <1>10, <1>12, <1>16, SteadyInv DEF TransferInv

\* The counter of the interval follows.
LEMMA CountInterval ==
  ASSUME TransferInv, NEW e \in Ends, NEW s \in Streams, count_interval(e, s)
  PROVE  TransferInv'
  <1> DEFINE r == worker[e][s].r
             new == [result[e][s] EXCEPT !.interval = @ + r]
  <1>0. /\ Shapes /\ conf' = conf /\ Streams' = Streams /\ Stage(e, s)
        /\ (\A x, t : Sends(x, t)' = Sends(x, t)) /\ worker[e][s].pc = "interval"
        /\ UNCHANGED <<test, pending, disk, sockets>> /\ MainIdle /\ "test" \in ThreadPcs
    BY SameConf DEF TransferInv, count_interval, MainIdle, Stages, ThreadPcs
  <1>1. /\ result[e][s] \in ResultType /\ r \in 0..Block /\ Block \in Nat
        /\ result[e][s].interval \in Nat
    BY <1>0, Numbers DEF Shapes
  <1>2. /\ new \in ResultType /\ new.interval = result[e][s].interval + r
        /\ new.bytes = result[e][s].bytes /\ new.last = result[e][s].last
        /\ new.bytes_sent_omit = result[e][s].bytes_sent_omit /\ new.peer = result[e][s].peer
    BY <1>1 DEF ResultType
  <1>3. result' = [result EXCEPT ![e][s] = new]
    BY DEF count_interval
  <1> HIDE DEF new
  <1>4. /\ result' \in [Ends -> [Streams -> ResultType]] /\ result'[e][s] = new
        /\ \A x \in Ends, t \in Streams : x # e \/ t # s => result'[x][t] = result[x][t]
    BY <1>0, <1>2, <1>3, ResultMoves
  <1>5. /\ worker' \in [Ends -> [Streams -> WorkerType]] /\ Elsewhere(e, s)
        /\ worker'[e][s].pc = "test" /\ worker'[e][s].r = r
    BY <1>0, ThreadGoes DEF count_interval
  <1>6. Shapes'
    BY <1>0, <1>4, <1>5 DEF Shapes, MainIdle, control, counting, sockets
  <1>7. Stage(e, s)'
    BY <1>0, <1>5 DEF Stage
  <1>8. Stages'
    BY <1>0, <1>5, <1>7, StagesKept
  <1> HIDE DEF r
  <1>9. \A x \in Ends, t \in Streams : /\ Arrived(x, t)' = Arrived(x, t)
                                       /\ result'[x][t].bytes = result[x][t].bytes
    <2> SUFFICES ASSUME NEW x \in Ends, NEW t \in Streams
                 PROVE  Arrived(x, t)' = Arrived(x, t) /\ result'[x][t].bytes = result[x][t].bytes
      OBVIOUS
    <2>1. wire' = wire
      BY <1>0 DEF sockets
    <2>2. CASE x = e /\ t = s
      BY <1>0, <1>2, <1>4, <1>5, <2>1, <2>2 DEF Arrived
    <2>3. CASE ~(x = e /\ t = s)
      BY <1>4, <1>5, <2>1, <2>3 DEF Elsewhere, Arrived
    <2> QED
      BY <2>2, <2>3
  <1>10. Steady(e, s)
    <2>1. \A x \in Ends, t \in Streams :
            /\ result'[x][t].peer = result[x][t].peer
            /\ result'[x][t].bytes_sent_omit = result[x][t].bytes_sent_omit
            /\ result'[x][t].bytes >= result[x][t].bytes
            /\ result'[x][t].interval >= result[x][t].interval
            /\ nobufs[t] >= nobufs[t] /\ Arrived(x, t)' <= Arrived(x, t)
      BY <1>0, <1>1, <1>2, <1>4, <1>9, Numbers
    <2> QED
      BY <1>0, <1>5, <2>1 DEF Steady, MainIdle, control, counting, sockets, Ends
  <1>11. Apart(e, s)
    BY <1>0, <1>4, <1>5 DEF Apart, MainIdle, control, counting, sockets
  <1>12. Within(e, s)'
    <2>1. Within(e, s) /\ main' = main /\ reported' = reported /\ test' = test
      BY <1>0 DEF TransferInv, Withins, MainIdle, control, counting
    <2>2. Due(e, s)' = Due(e, s)
      BY <2>1 DEF Due
    <2>3. Counted(e, s) \in Int /\ Counted(e, s)' = Counted(e, s)
      BY <1>0, <1>2, <1>4, Numbers DEF Counted
    <2> DEFINE d == IF Due(e, s) THEN result[e][s].last ELSE 0
               o == IF conf.omit THEN Block ELSE 0
    <2>4. d \in Nat /\ o \in Nat
      BY <1>0, Numbers
    <2>5. d' = d /\ o' = o
      BY <1>0, <1>2, <1>4, <2>2
    <2> HIDE DEF d, o
    <2>6. main[e].pc # "aborted" /\ ~(main[e].pc = "clear" /\ main[e].s = s) =>
            reported[e][s] + result[e][s].interval + d + r <= Counted(e, s) + o
      BY <1>0, <2>1 DEF Within, d, o, r
    <2>7. main[e].pc # "aborted" /\ ~(main[e].pc = "clear" /\ main[e].s = s) =>
            reported[e][s] + new.interval + d + 0 <= Counted(e, s)' + o
      BY <1>0, <1>1, <1>2, <2>3, <2>4, <2>6, Numbers
    <2> QED
      BY <1>4, <1>5, <2>1, <2>5, <2>7 DEF Within, d, o
  <1>13. \A x \in Ends, y \in Ends : Flow(x, y, s)'
    <2> SUFFICES ASSUME NEW x \in Ends, NEW y \in Ends, Sends(x, s), x # y
                 PROVE  /\ 0 \in Int /\ Arrived(y, s)' <= Arrived(y, s) + 0
                        /\ result[x][s].bytes + nobufs[s] + Late(x, s) + 0
                             <= result'[x][s].bytes + nobufs'[s] + Late(x, s)'
      BY <1>0, <1>6, FlowKept
    <2>1. /\ result[x][s].bytes \in Nat /\ nobufs[s] \in Nat /\ Arrived(y, s) \in Nat
          /\ nobufs' = nobufs
      BY <1>0, Numbers DEF sockets
    <2>2. Late(x, s)' = Late(x, s) /\ Late(x, s) \in Nat
      BY <1>0, <1>5, Numbers DEF Late, Elsewhere
    <2> QED
      BY <1>9, <2>1, <2>2
  <1>14. Withins' /\ Flows'
    BY <1>11, <1>12, <1>13, ApartInv
  <1> QED
    BY <1>6, <1>8, <1>10, <1>14, SteadyInv DEF TransferInv

\* The counters of the test, and the rest of the file's buffer.
LEMMA CountTest ==
  ASSUME TransferInv, NEW e \in Ends, NEW s \in Streams, count_test(e, s)
  PROVE  TransferInv'
  <1> DEFINE r == worker[e][s].r
             w == IF Sends(e, s) THEN [worker[e][s] EXCEPT !.pc = "next", !.r = 0]
                  ELSE [pc |-> "top", r |-> 0, multisend |-> 0]
             b == test[e].bytes_sent + r
             k == IF pending[s] = 0 THEN test[e].blocks_sent + 1 ELSE test[e].blocks_sent
             i == test[e].bytes_received + r
             j == test[e].blocks_received + 1
             sent == [test[e] EXCEPT !.bytes_sent = b, !.blocks_sent = k]
             rcvd == [test[e] EXCEPT !.bytes_received = i, !.blocks_received = j]
             new == IF Sends(e, s) THEN sent ELSE rcvd
  <1>0. /\ Shapes /\ conf' = conf /\ Streams' = Streams /\ Stage(e, s)
        /\ (\A x, t : Sends(x, t)' = Sends(x, t)) /\ worker[e][s].pc = "test"
        /\ UNCHANGED <<result, pending, sockets>> /\ MainIdle
        /\ worker[e][s] \in WorkerType /\ test[e] \in TestType
    BY SameConf DEF TransferInv, count_test, MainIdle, Stages, Shapes
  <1>1. /\ r \in 0..Block /\ Block \in Nat \ {0} /\ disk[s].buffer_left \in Nat
    BY <1>0, Numbers
  <1>2. w \in WorkerType /\ w.pc = (IF Sends(e, s) THEN "next" ELSE "top") /\ w.r = 0
    <2>1. CASE Sends(e, s)
      <3>1. 0 \in 0..Block /\ "next" \in ThreadPcs
        BY <1>1 DEF ThreadPcs
      <3> QED
        BY <1>0, <2>1, <3>1 DEF WorkerType
    <2>2. CASE ~Sends(e, s)
      BY <1>1, <2>2 DEF WorkerType, ThreadPcs
    <2> QED
      BY <2>1, <2>2
  <1>3. worker' = [worker EXCEPT ![e][s] = w]
    BY DEF count_test
  <1> HIDE DEF w
  <1>4. /\ worker' \in [Ends -> [Streams -> WorkerType]] /\ Elsewhere(e, s)
        /\ worker'[e][s].pc = (IF Sends(e, s) THEN "next" ELSE "top")
    BY <1>0, <1>2, <1>3, ThreadMoves
  <1>5. new \in TestType /\ new.state = test[e].state /\ new.omitting = test[e].omitting
        /\ new.done = test[e].done
    <2>0. b \in Nat /\ k \in Nat /\ i \in Nat /\ j \in Nat
      BY <1>0, <1>1 DEF TestType
    <2> HIDE DEF b, k, i, j
    <2>1. /\ sent \in TestType /\ sent.state = test[e].state
          /\ sent.omitting = test[e].omitting /\ sent.done = test[e].done
      BY <1>0, <2>0 DEF TestType
    <2>2. /\ rcvd \in TestType /\ rcvd.state = test[e].state
          /\ rcvd.omitting = test[e].omitting /\ rcvd.done = test[e].done
      BY <1>0, <2>0 DEF TestType
    <2> HIDE DEF sent, rcvd
    <2> QED
      BY <2>1, <2>2
  <1>6. test' = [test EXCEPT ![e] = new]
    <2>1. CASE Sends(e, s)
      BY <1>0, <2>1 DEF count_test, Shapes, TestType
    <2>2. CASE ~Sends(e, s)
      BY <1>0, <2>2 DEF count_test, Shapes, TestType
    <2> QED
      BY <2>1, <2>2
  <1> HIDE DEF new
  <1>7. test' \in [Ends -> TestType]
        /\ \A x \in Ends : /\ test'[x].state = test[x].state
                           /\ test'[x].omitting = test[x].omitting
                           /\ test[x].done => test'[x].done
    BY <1>0, <1>5, <1>6 DEF Shapes
  <1>8. /\ disk' \in [Streams -> DiskType]
        /\ \A t \in Streams : t # s => disk'[t] = disk[t]
        /\ ~Sends(e, s) => disk' = disk
    <2>1. CASE Sends(e, s) /\ conf.file # 0 /\ r # 0
      <3>1. r <= disk[s].buffer_left
        BY <1>0, <2>1 DEF Stage
      <3>2. disk[s].buffer_left - r \in Nat
        BY <1>1, <3>1
      <3>3. disk' = [disk EXCEPT ![s].diskfile_left = disk[s].buffer_left - r]
        BY <2>1 DEF count_test, LeftInBuffer
      <3>4. [disk[s] EXCEPT !.diskfile_left = disk[s].buffer_left - r] \in DiskType
        <4>1. disk[s] \in DiskType
          BY <1>0 DEF Shapes
        <4> QED
          BY <3>2, <4>1 DEF DiskType
      <3> QED
        BY <1>0, <2>1, <3>3, <3>4 DEF Shapes
    <2>2. CASE ~(Sends(e, s) /\ conf.file # 0 /\ r # 0)
      <3>1. disk' = disk
        BY <2>2 DEF count_test, LeftInBuffer
      <3> QED
        BY <1>0, <3>1 DEF Shapes
    <2> QED
      BY <2>1, <2>2
  <1>9. Shapes'
    BY <1>0, <1>4, <1>7, <1>8, ShapesHop DEF Shapes
  <1>10. Stage(e, s)'
    BY <1>0, <1>4 DEF Stage
  <1>11. Stages'
    BY <1>0, <1>4, <1>8, <1>10, StagesKept
  <1>12. Hops(e, s)
    BY <1>0, <1>4, <1>7 DEF Hops
  <1> QED
    BY <1>9, <1>11, <1>12, HopsInv

LEMMA WorkerInv ==
  ASSUME TransferInv, NEW e \in Ends, NEW s, WorkerStep(e, s)
  PROVE  TransferInv'
  BY WorkerEnds, SendMt, DiskfileSend, TcpSend, WriteNobufs, StreamError, RecvStarts, TcpRecv,
     CountBytes, CountInterval, CountTest DEF WorkerStep

-----------------------------------------------------------------------------
(* The main threads: what the steps of the statistics have in common.      *)

\* Where the main threads are says which phase it is.
LEMMA Where ==
  ASSUME TransferInv
  PROVE  /\ main["client"].pc \in {"read", "total", "zero", "report", "omit", "clear", "check",
                                   "test_end"} => Running
         /\ test["client"].state = "TEST_RUNNING" => Running
         /\ main["server"].pc \in {"read", "total", "zero"} =>
              test["server"].state \in {"TEST_RUNNING", "TEST_END"}
         /\ main["server"].pc = "report" => test["server"].state = "TEST_RUNNING"
         /\ main["server"].pc \in {"select", "omit", "clear"} =>
              test["server"].state \in {"TEST_RUNNING", "DISPLAY_RESULTS"}
         /\ main["server"].pc \in {"test_end"} => test["server"].state = "TEST_END"
  BY DEF TransferInv, Phase, Starting, Running, Ending, Stopping, Asking, Telling, Answering,
     Displaying, Finishing, Finished, InState, Places, Busy, Idle

\* A step of the statistics of e: nothing happens at the other end, to the threads or to
\* the messages.
Calm(e) ==
  /\ conf' = conf /\ worker' = worker /\ pending' = pending /\ disk' = disk
  /\ wire' = wire /\ nobufs' = nobufs /\ open' = open /\ ctrl' = ctrl
  /\ summary'["client"] = summary["client"]
  /\ main[e].pc # "aborted"
  /\ test'[e].state = test[e].state /\ (test[e].done => test'[e].done)
  /\ \A x \in Ends : x # e => /\ main'[x] = main[x] /\ result'[x] = result[x]
                              /\ reported'[x] = reported[x] /\ test'[x] = test[x]
  /\ \A t \in Streams : /\ result'[e][t].peer = result[e][t].peer
                        /\ result'[e][t].bytes <= result[e][t].bytes
                        /\ Sends(e, t) \/ ~conf.omit =>
                             result'[e][t].bytes = result[e][t].bytes
  /\ e = "client" => /\ test["client"].state = "TEST_RUNNING"
                     /\ main'["client"].pc \in (Busy \ {"aborted"}) \cup {"check", "test_end"}
  /\ e = "server" =>
       /\ test["server"].state \in {"TEST_RUNNING", "TEST_END", "DISPLAY_RESULTS"}
       /\ test["server"].state = "TEST_RUNNING" => main'["server"].pc \in Busy
       /\ test["server"].state = "TEST_END" =>
            main'["server"].pc \in {"read", "total", "zero", "test_end"}
       /\ test["server"].state = "DISPLAY_RESULTS" => main'["server"].pc \in Idle

LEMMA CalmPhase ==
  ASSUME TransferInv, Shapes', NEW e \in Ends, Calm(e)
  PROVE  Phase'
  <1> USE DEF InState, Places, Mail
  <1>0. /\ Streams' = Streams /\ conf' = conf /\ Shapes /\ Phase /\ ctrl' = ctrl /\ worker' = worker
    BY SameConf DEF TransferInv, Calm
  <1>1. /\ test'["client"].state = test["client"].state
        /\ test'["server"].state = test["server"].state
    BY DEF Calm, Ends
  <1>2. CASE e = "client"
    <2>1. Running /\ main'["server"] = main["server"]
          /\ main'["client"].pc \in Busy \cup {"check", "test_end"}
      BY <1>2, Where DEF Calm, Ends
    <2> QED
      BY <1>0, <1>1, <2>1 DEF Running, Phase
  <1>3. CASE e = "server"
    <2>1. /\ main'["client"] = main["client"] /\ main["server"].pc # "aborted"
          /\ test["server"].state \in {"TEST_RUNNING", "TEST_END", "DISPLAY_RESULTS"}
          /\ test["server"].state = "TEST_RUNNING" => main'["server"].pc \in Busy
          /\ test["server"].state = "TEST_END" =>
               main'["server"].pc \in {"read", "total", "zero", "test_end"}
          /\ test["server"].state = "DISPLAY_RESULTS" => main'["server"].pc \in Idle
      BY <1>3 DEF Calm, Ends
    <2>2. CASE Starting \/ Running
      BY <1>0, <1>1, <2>1, <2>2 DEF Starting, Running, Phase
    <2>3. CASE Ending \/ Stopping \/ Finishing
      BY <1>0, <1>1, <2>1, <2>3 DEF Ending, Stopping, Finishing, Phase
    <2>4. CASE Asking \/ Telling \/ Finished
      BY <2>1, <2>4 DEF Asking, Telling, Finished
    <2>5. CASE Answering \/ Displaying
      <3>1. \A t \in Streams : /\ result'["client"][t].peer = result["client"][t].peer
                               /\ result'["client"][t].bytes >= result["client"][t].bytes
                               /\ nobufs'[t] >= nobufs[t]
                               /\ Arrived("client", t)' <= Arrived("client", t)
        <4>1. result'["client"] = result["client"] /\ wire' = wire /\ nobufs' = nobufs
          BY <1>3 DEF Calm, Ends
        <4>2. \A t \in Streams : Arrived("client", t)' = Arrived("client", t)
          BY <1>0, <4>1 DEF Arrived
        <4> QED
          BY <1>0, <4>1, <4>2, Numbers DEF Ends
      <3>2. Docs' = Docs
        BY <1>0 DEF Docs
      <3>3. CASE Answering
        <4>1. ctrl["client"][1].doc \in Docs /\ (~conf.omit => Answered(ctrl["client"][1].doc)')
          BY <1>0, <3>1, <3>3, AnswersStay DEF Answering
        <4>2. Answering'
          BY <1>0, <1>1, <2>1, <3>2, <3>3, <4>1 DEF Answering
        <4> QED
          BY <4>2 DEF Phase
      <3>4. CASE Displaying
        <4>1. ~conf.omit => Answered(Peers)'
          BY <1>0, <3>1, <3>4, AnswersStay DEF Displaying
        <4>2. Displaying'
          BY <1>0, <1>1, <2>1, <3>4, <4>1 DEF Displaying
        <4> QED
          BY <4>2 DEF Phase
      <3> QED
        BY <2>5, <3>3, <3>4
    <2> QED
      BY <1>0, <2>2, <2>3, <2>4, <2>5 DEF Phase
  <1> QED
    BY <1>2, <1>3 DEF Ends

LEMMA CalmInv ==
  ASSUME TransferInv, Shapes', NEW e \in Ends, Calm(e), Walk(e)',
         \A t \in Streams : Within(e, t)',
         \A t \in Streams : Sends(e, t) => result'[e][t].bytes_sent_omit <= result'[e][t].bytes,
         ~conf.omit => /\ ~test'[e].omitting /\ main'[e].pc \notin {"omit", "clear"}
                       /\ \A t \in Streams : result'[e][t].bytes_sent_omit = 0,
         e = "server" /\ main'[e].pc \in {"read", "total", "zero"} =>
           main'[e].then = IF test[e].state = "TEST_RUNNING" THEN "report" ELSE "test_end"
  PROVE  TransferInv'
  <1>0. /\ Streams' = Streams /\ conf' = conf /\ Shapes /\ \A x, t : Sends(x, t)' = Sends(x, t)
    BY SameConf DEF TransferInv, Calm
  <1>1. Stages'
    BY <1>0 DEF TransferInv, Stages, Stage, Unsent, Calm
  <1>2. Walks'
    <2> SUFFICES ASSUME NEW x \in Ends, x # e PROVE Walk(x)'
      BY DEF Walks
    <2> QED
      BY <1>0 DEF TransferInv, Walks, Walk, Calm
  <1>3. Omits'
    <2> SUFFICES ASSUME NEW x \in Ends, x # e
                 PROVE  /\ \A t \in Streams : Sends(x, t) =>
                             result'[x][t].bytes_sent_omit <= result'[x][t].bytes
                        /\ ~conf.omit =>
                             /\ ~test'[x].omitting /\ main'[x].pc \notin {"omit", "clear"}
                             /\ \A t \in Streams : result'[x][t].bytes_sent_omit = 0
      BY <1>0 DEF Omits
    <2> QED
      BY DEF TransferInv, Omits, Calm
  <1>4. Phase'
    BY CalmPhase
  <1>5. ServerSide'
    BY DEF TransferInv, ServerSide, Calm, Ends
  <1>6. Withins'
    <2> SUFFICES ASSUME NEW x \in Ends, x # e, NEW t \in Streams PROVE Within(x, t)'
      BY <1>0 DEF Withins
    <2>1. Within(x, t)
      BY DEF TransferInv, Withins
    <2>2. /\ main'[x] = main[x] /\ result'[x] = result[x] /\ reported'[x] = reported[x]
          /\ test'[x] = test[x] /\ worker' = worker
      BY DEF Calm
    <2>3. Due(x, t)' = Due(x, t) /\ Counted(x, t)' = Counted(x, t)
      BY <1>0, <2>2 DEF Due, Counted
    <2> QED
      BY <1>0, <2>1, <2>2, <2>3 DEF Within
  <1>7. Flows'
    <2> SUFFICES ASSUME NEW x \in Ends, NEW y \in Ends, NEW t \in Streams, Sends(x, t), x # y
                 PROVE  Arrived(y, t)' <= result'[x][t].bytes + nobufs'[t] + Late(x, t)'
      BY <1>0 DEF Flows, Flow
    <2>1. Arrived(y, t) <= result[x][t].bytes + nobufs[t] + Late(x, t)
      BY DEF TransferInv, Flows, Flow
    <2>2. worker' = worker /\ wire' = wire /\ nobufs' = nobufs
      BY DEF Calm
    <2>3. Late(x, t)' = Late(x, t) /\ Late(x, t) \in Nat
      BY <1>0, <2>2, Numbers DEF Late
    <2>4. result'[x][t].bytes = result[x][t].bytes
      BY DEF Calm
    <2>5. result'[y][t].bytes <= result[y][t].bytes /\ result[y][t].bytes \in Nat
          /\ result'[y][t].bytes \in Nat /\ worker[y][t].r \in Nat /\ wire[t] \in Nat
      BY <1>0, Numbers, NumbersNext DEF Calm
    <2>6. Arrived(y, t)' <= Arrived(y, t)
      BY <2>2, <2>5 DEF Arrived
    <2>7. /\ Arrived(y, t) \in Nat /\ Arrived(y, t)' \in Nat /\ result[x][t].bytes \in Nat
          /\ nobufs[t] \in Nat
      BY <1>0, Numbers, NumbersNext
    <2> QED
      BY <2>1, <2>2, <2>3, <2>4, <2>6, <2>7
  <1>8. Printed' /\ ReceivedWasSent'
    <2>1. main["client"].pc = "aborted" => main'["client"].pc = "aborted"
      BY DEF Calm, Ends
    <2>2. \A t \in Streams : nobufs'[t] >= nobufs[t]
      BY <1>0, Numbers DEF Calm, Ends
    <2> QED
      BY <1>0, <2>1, <2>2, ReportStays DEF TransferInv, Calm
  <1> QED
    BY <1>1, <1>2, <1>3, <1>4, <1>5, <1>6, <1>7, <1>8 DEF TransferInv

-----------------------------------------------------------------------------
(* Steps of the main threads that change no counter.                       *)

\* One main thread moves.
LEMMA MainMoves ==
  ASSUME Shapes, NEW e \in Ends, NEW m \in MainType, main' = [main EXCEPT ![e] = m]
  PROVE  /\ main' \in [Ends -> MainType] /\ main'[e] = m
         /\ \A x \in Ends : x # e => main'[x] = main[x]
  BY DEF Shapes

LEMMA MainGoes ==
  ASSUME Shapes, NEW e \in Ends, NEW pc \in MainPcs, Go(e, pc)
  PROVE  /\ main' \in [Ends -> MainType] /\ main'[e].pc = pc
         /\ main'[e].s = main[e].s /\ main'[e].seen = main[e].seen
         /\ main'[e].then = main[e].then
         /\ \A x \in Ends : x # e => main'[x] = main[x]
  <1> DEFINE m == [main[e] EXCEPT !.pc = pc]
  <1>1. main[e] \in MainType
    BY DEF Shapes
  <1>2. /\ m \in MainType /\ m.pc = pc /\ m.s = main[e].s /\ m.seen = main[e].seen
        /\ m.then = main[e].then
    BY <1>1 DEF MainType
  <1>3. main' = [main EXCEPT ![e] = m]
    BY DEF Go
  <1> HIDE DEF m
  <1> QED
    BY <1>2, <1>3, MainMoves

LEMMA StatsCalled ==
  ASSUME Shapes, NEW e \in Ends, NEW then \in {"report", "test_end"}, Stats(e, then)
  PROVE  /\ main' \in [Ends -> MainType] /\ main'[e].pc = "read" /\ main'[e].s = 1
         /\ main'[e].then = then /\ \A x \in Ends : x # e => main'[x] = main[x]
  <1> DEFINE m == [pc |-> "read", s |-> 1, seen |-> 0, total |-> 0, then |-> then]
  <1>1. m \in MainType
    BY DEF MainType, MainPcs
  <1>2. main' = [main EXCEPT ![e] = m]
    BY DEF Stats
  <1> QED
    BY <1>1, <1>2, MainMoves

\* The main thread of e goes somewhere else, and no counter changes.
Strolls(e) ==
  /\ WorkersIdle /\ UNCHANGED <<result, worker, ctrl, summary, reported>>
  /\ rate'.bytes \in [0..Window - 1 -> Nat] /\ rate'.index \in 0..Window - 1
  /\ main' \in [Ends -> MainType] /\ test' \in [Ends -> TestType]
  /\ main[e].pc \notin {"clear", "aborted"}
  /\ test'[e].state = test[e].state /\ (test[e].done => test'[e].done)
  /\ test[e].omitting = FALSE => test'[e].omitting = FALSE
  /\ \A x \in Ends : x # e => main'[x] = main[x] /\ test'[x] = test[x]
  /\ main'[e].pc \in {"omit", "clear"} => test[e].omitting \/ main[e].pc \in {"omit", "clear"}
  /\ e = "client" => /\ test["client"].state = "TEST_RUNNING"
                     /\ main'["client"].pc \in (Busy \ {"aborted"}) \cup {"check", "test_end"}
  /\ e = "server" =>
       /\ test["server"].state \in {"TEST_RUNNING", "TEST_END", "DISPLAY_RESULTS"}
       /\ test["server"].state = "TEST_RUNNING" => main'["server"].pc \in Busy
       /\ test["server"].state = "TEST_END" =>
            main'["server"].pc \in {"read", "total", "zero", "test_end"}
       /\ test["server"].state = "DISPLAY_RESULTS" => main'["server"].pc \in Idle

LEMMA StrollsInv ==
  ASSUME TransferInv, NEW e \in Ends, Strolls(e), Walk(e)',
         \A t \in Streams : Due(e, t)' => Due(e, t),
         e = "server" /\ main'[e].pc \in {"read", "total", "zero"} =>
           main'[e].then = IF test[e].state = "TEST_RUNNING" THEN "report" ELSE "test_end"
  PROVE  TransferInv'
  <1>0. /\ Shapes /\ conf' = conf /\ Streams' = Streams /\ \A x, t : Sends(x, t)' = Sends(x, t)
    BY SameConf DEF TransferInv, Strolls, WorkersIdle
  <1>1. Shapes'
    BY <1>0 DEF Shapes, Strolls, WorkersIdle, sockets
  <1>2. Calm(e)
    <2>1. \A t \in Streams : result[e][t].bytes <= result[e][t].bytes
      BY <1>0, Numbers
    <2> QED
      BY <2>1 DEF Calm, Strolls, WorkersIdle, sockets
  <1>3. \A t \in Streams : Within(e, t)'
    <2> SUFFICES ASSUME NEW t \in Streams,
                        main'[e].pc # "aborted" /\ ~(main'[e].pc = "clear" /\ main'[e].s = t)
                 PROVE  reported'[e][t] + result'[e][t].interval
                          + (IF Due(e, t)' THEN result'[e][t].last ELSE 0)
                          + (IF worker'[e][t].pc = "interval" THEN worker'[e][t].r ELSE 0)
                        <= Counted(e, t)' + (IF conf'.omit THEN Block ELSE 0)
      BY DEF Within
    <2>1. Within(e, t) /\ main[e].pc # "aborted" /\ main[e].pc # "clear"
      BY DEF TransferInv, Withins, Strolls
    <2>2. /\ result' = result /\ reported' = reported /\ worker' = worker
      BY DEF Strolls
    <2>3. Counted(e, t)' = Counted(e, t) /\ Counted(e, t) \in Int
      BY <1>0, <2>2, Numbers DEF Counted
    <2>4. Due(e, t)' => Due(e, t)
      OBVIOUS
    <2> DEFINE o == IF conf.omit THEN Block ELSE 0
               k == IF worker[e][t].pc = "interval" THEN worker[e][t].r ELSE 0
    <2>5. o \in Nat /\ k \in Nat
      BY <1>0, Numbers
    <2>6. reported[e][t] + result[e][t].interval
            + (IF Due(e, t) THEN result[e][t].last ELSE 0) + k <= Counted(e, t) + o
      BY <2>1 DEF Within
    <2>7. reported[e][t] \in Nat /\ result[e][t].interval \in Nat /\ result[e][t].last \in Nat
      BY <1>0, Numbers
    <2> HIDE DEF o, k
    <2>8. reported[e][t] + result[e][t].interval
            + (IF Due(e, t)' THEN result[e][t].last ELSE 0) + k <= Counted(e, t) + o
      BY <2>3, <2>4, <2>5, <2>6, <2>7
    <2> QED
      BY <1>0, <2>2, <2>3, <2>8 DEF o, k
  <1>4. \A t \in Streams : Sends(e, t) => result'[e][t].bytes_sent_omit <= result'[e][t].bytes
    BY DEF TransferInv, Omits, Strolls
  <1>5. ~conf.omit => /\ ~test'[e].omitting /\ main'[e].pc \notin {"omit", "clear"}
                      /\ \A t \in Streams : result'[e][t].bytes_sent_omit = 0
    <2>1. ~conf.omit => /\ ~test[e].omitting /\ main[e].pc \notin {"omit", "clear"}
                        /\ \A t \in Streams : result[e][t].bytes_sent_omit = 0
      BY DEF TransferInv, Omits
    <2>2. test[e].omitting \in BOOLEAN
      BY <1>0 DEF Shapes, TestType
    <2> QED
      BY <2>1, <2>2 DEF Strolls
  <1> QED
    BY <1>1, <1>2, <1>3, <1>4, <1>5, CalmInv

\* TimersRun: the client's timers run in TEST_RUNNING, the server's in two states.
LEMMA TimersWhere ==
  ASSUME TransferInv, NEW e \in Ends, TimersRun(e)
  PROVE  /\ main[e].pc = "select"
         /\ e = "client" => test["client"].state = "TEST_RUNNING"
         /\ e = "server" => test["server"].state \in {"TEST_RUNNING", "DISPLAY_RESULTS"}
  BY Where DEF TimersRun, At

LEMMA RateShape ==
  ASSUME TransferInv, rate' = rate
  PROVE  rate'.bytes \in [0..Window - 1 -> Nat] /\ rate'.index \in 0..Window - 1
  BY DEF TransferInv, Shapes

LEMMA StatsTimer ==
  ASSUME TransferInv, NEW e \in Ends, stats_timer(e)
  PROVE  TransferInv'
  <1>0. /\ Shapes /\ conf' = conf /\ Streams' = Streams /\ Streams = 1..NumStreams
        /\ NumStreams \in Nat \ {0} /\ TimersRun(e)
        /\ WorkersIdle /\ UNCHANGED <<test, result, worker, ctrl, summary, rate, reported>>
    BY SameConf, ConfIs DEF TransferInv, Shapes, stats_timer, WorkersIdle, counting
  <1>1. /\ main[e].pc = "select"
        /\ e = "client" => test["client"].state = "TEST_RUNNING"
        /\ e = "server" => test["server"].state \in {"TEST_RUNNING", "DISPLAY_RESULTS"}
    BY <1>0, TimersWhere
  <1>2. test[e].done \in BOOLEAN /\ test' \in [Ends -> TestType]
    BY <1>0 DEF Shapes, TestType
  <1>3. CASE test[e].done
    <2>1. AfterTimers(e) = (IF e = "client" THEN "check" ELSE "select")
          /\ AfterTimers(e) \in MainPcs
      BY DEF AfterTimers, MainPcs
    <2>2. Go(e, AfterTimers(e))
      BY <1>3 DEF stats_timer
    <2>3. /\ main' \in [Ends -> MainType] /\ main'[e].pc = AfterTimers(e)
          /\ \A x \in Ends : x # e => main'[x] = main[x]
      BY <1>0, <2>1, <2>2, MainGoes
    <2>4. Strolls(e)
      BY <1>0, <1>1, <1>2, <2>1, <2>3, RateShape DEF Strolls, Busy, Idle, Ends
    <2>5. Walk(e)' /\ \A t \in Streams : Due(e, t)' => Due(e, t)
      BY <1>0, <1>1, <2>1, <2>3 DEF Walk, Due
    <2> QED
      BY <2>1, <2>3, <2>4, <2>5, StrollsInv
  <1>4. CASE ~test[e].done
    <2>1. Stats(e, "report")
      BY <1>4 DEF stats_timer
    <2>2. /\ main' \in [Ends -> MainType] /\ main'[e].pc = "read" /\ main'[e].s = 1
          /\ main'[e].then = "report" /\ \A x \in Ends : x # e => main'[x] = main[x]
      BY <1>0, <2>1, StatsCalled
    <2>3. e = "server" => test["server"].state = "TEST_RUNNING"
      BY <1>1, <1>4 DEF TransferInv, ServerSide
    <2>4. Strolls(e)
      BY <1>0, <1>1, <1>2, <2>2, <2>3, RateShape DEF Strolls, Busy
    <2>5. Walk(e)'
      BY <1>0, <2>2 DEF Walk
    <2>6. \A t \in Streams : Due(e, t)' => Due(e, t)
      BY <1>0, <1>1, <2>2 DEF Due
    <2> QED
      BY <2>2, <2>3, <2>4, <2>5, <2>6, StrollsInv
  <1> QED
    BY <1>2, <1>3, <1>4

\* While it walks over the streams, the server runs or ends the test.
LEMMA WalkWhere ==
  ASSUME TransferInv, NEW e \in Ends, main[e].pc \in {"read", "total", "zero"}
  PROVE  /\ main[e].s \in Streams /\ main[e].then \in {"report", "test_end"}
         /\ main[e] \in MainType
         /\ e = "client" => test["client"].state = "TEST_RUNNING"
         /\ e = "server" =>
              /\ test["server"].state \in {"TEST_RUNNING", "TEST_END"}
              /\ main["server"].then =
                   IF test["server"].state = "TEST_RUNNING" THEN "report" ELSE "test_end"
  <1>1. main[e].s \in Streams /\ main[e].then \in {"report", "test_end"} /\ main[e] \in MainType
    BY DEF TransferInv, Walks, Walk, Shapes
  <1>2. e = "client" => test["client"].state = "TEST_RUNNING"
    BY Where DEF Running, InState
  <1>3. e = "server" =>
          /\ test["server"].state \in {"TEST_RUNNING", "TEST_END"}
          /\ main["server"].then =
               IF test["server"].state = "TEST_RUNNING" THEN "report" ELSE "test_end"
    BY Where DEF TransferInv, ServerSide
  <1> QED
    BY <1>1, <1>2, <1>3

\* What is read of the interval is there until it is cleared.
LEMMA StatsReads ==
  ASSUME TransferInv, NEW e \in Ends, stats_read(e) \/ stats_total(e)
  PROVE  TransferInv'
  <1>0. /\ Shapes /\ conf' = conf /\ Streams' = Streams /\ main[e].pc \in {"read", "total"}
        /\ WorkersIdle /\ UNCHANGED <<test, result, worker, ctrl, summary, rate, reported>>
    BY SameConf DEF TransferInv, stats_read, stats_total, WorkersIdle, counting, At
  <1>1. /\ main[e].s \in Streams /\ main[e].then \in {"report", "test_end"}
        /\ main[e] \in MainType
        /\ e = "client" => test["client"].state = "TEST_RUNNING"
        /\ e = "server" =>
             /\ test["server"].state \in {"TEST_RUNNING", "TEST_END"}
             /\ main["server"].then =
                  IF test["server"].state = "TEST_RUNNING" THEN "report" ELSE "test_end"
    BY <1>0, WalkWhere
  <1>2. result[e][main[e].s].interval \in Nat /\ main[e].total \in Nat
    BY <1>0, <1>1, Numbers DEF MainType
  <1> DEFINE i == result[e][main[e].s].interval
  <1>3. /\ main' \in [Ends -> MainType] /\ (\A x \in Ends : x # e => main'[x] = main[x])
        /\ main'[e].pc \in {"total", "zero"} /\ main'[e].s = main[e].s
        /\ main'[e].then = main[e].then /\ main'[e].seen <= i
    <2>1. CASE stats_read(e)
      <3> DEFINE m == [main[e] EXCEPT !.pc = "total", !.seen = i]
      <3>1. main' = [main EXCEPT ![e] = m]
        BY <1>0, <2>1 DEF stats_read, Shapes
      <3> HIDE DEF i
      <3>2. /\ m \in MainType /\ m.pc = "total" /\ m.s = main[e].s /\ m.then = main[e].then
            /\ m.seen = i
        BY <1>1, <1>2 DEF MainType, MainPcs, i
      <3> HIDE DEF m
      <3>3. i <= i
        BY <1>2 DEF i
      <3> QED
        BY <1>0, <3>1, <3>2, <3>3, MainMoves
    <2>2. CASE stats_total(e)
      <3> DEFINE n == main[e].total + i
                 m == [main[e] EXCEPT !.pc = "zero", !.total = n]
      <3>1. main' = [main EXCEPT ![e] = m]
        BY <1>0, <2>2 DEF stats_total, Shapes
      <3>2. n \in Nat
        BY <1>2
      <3>3. main[e].seen <= i
        BY <2>2 DEF stats_total, At, TransferInv, Walks, Walk
      <3> HIDE DEF i, n
      <3>4. /\ m \in MainType /\ m.pc = "zero" /\ m.s = main[e].s /\ m.then = main[e].then
            /\ m.seen = main[e].seen
        BY <1>1, <3>2 DEF MainType, MainPcs
      <3> HIDE DEF m
      <3> QED
        BY <1>0, <3>1, <3>3, <3>4, MainMoves
    <2> QED
      BY <2>1, <2>2
  <1>4. test' \in [Ends -> TestType]
    BY <1>0 DEF Shapes
  <1>5. Strolls(e)
    BY <1>0, <1>1, <1>3, <1>4, RateShape DEF Strolls, Busy
  <1>6. Walk(e)'
    BY <1>0, <1>1, <1>3 DEF Walk
  <1>7. \A t \in Streams : Due(e, t)' => Due(e, t)
    BY <1>0, <1>3 DEF Due
  <1> QED
    BY <1>1, <1>3, <1>5, <1>6, <1>7, StrollsInv

\* The omitted period ends: the counters of the test are cleared first.
LEMMA OmitTimer ==
  ASSUME TransferInv, NEW e \in Ends, omit_timer(e)
  PROVE  TransferInv'
  <1>0. /\ Shapes /\ conf' = conf /\ Streams' = Streams /\ Streams = 1..NumStreams
        /\ NumStreams \in Nat \ {0} /\ TimersRun(e) /\ test[e].omitting
        /\ WorkersIdle /\ UNCHANGED <<result, worker, ctrl, summary, rate, reported>>
    BY SameConf, ConfIs DEF TransferInv, Shapes, omit_timer, WorkersIdle, counting
  <1>1. /\ main[e].pc = "select" /\ test[e] \in TestType /\ main[e] \in MainType
        /\ e = "client" => test["client"].state = "TEST_RUNNING"
        /\ e = "server" => test["server"].state \in {"TEST_RUNNING", "DISPLAY_RESULTS"}
    <2>1. test[e] \in TestType /\ main[e] \in MainType
      BY <1>0 DEF Shapes
    <2> QED
      BY <1>0, <2>1, TimersWhere
  <1> DEFINE m == [main[e] EXCEPT !.pc = "omit", !.s = 1]
             u == [test[e] EXCEPT !.omitting = FALSE, !.bytes_sent = 0, !.blocks_sent = 0]
  <1>2. m \in MainType /\ m.pc = "omit" /\ m.s = 1
    BY <1>1 DEF MainType, MainPcs
  <1>3. main' = [main EXCEPT ![e] = m]
    BY <1>0 DEF omit_timer, Shapes
  <1>4. u \in TestType /\ u.omitting = FALSE /\ u.state = test[e].state /\ u.done = test[e].done
    BY <1>1 DEF TestType
  <1>5. test' = [test EXCEPT ![e] = u]
    BY <1>0 DEF omit_timer, Shapes
  <1> HIDE DEF m, u
  <1>6. /\ main' \in [Ends -> MainType] /\ main'[e].pc = "omit" /\ main'[e].s = 1
        /\ \A x \in Ends : x # e => main'[x] = main[x]
    BY <1>0, <1>2, <1>3, MainMoves
  <1>7. /\ test' \in [Ends -> TestType] /\ test'[e] = u
        /\ \A x \in Ends : x # e => test'[x] = test[x]
    BY <1>0, <1>4, <1>5 DEF Shapes
  <1>8. Strolls(e)
    BY <1>0, <1>1, <1>4, <1>6, <1>7, RateShape DEF Strolls, Busy, Idle
  <1>9. Walk(e)'
    BY <1>0, <1>6 DEF Walk
  <1>10. \A t \in Streams : Due(e, t)' => Due(e, t)
    BY <1>0, <1>4, <1>6, <1>7 DEF Due
  <1> QED
    BY <1>6, <1>8, <1>9, <1>10, StrollsInv

\* The client goes to its select or to the end conditions.
LEMMA ClientGoes ==
  ASSUME TransferInv, NEW pc \in {"select", "check"}, Go("client", pc),
         main["client"].pc \in {"select", "check"}, test["client"].state = "TEST_RUNNING",
         test' \in [Ends -> TestType], test'["server"] = test["server"],
         test'["client"].state = test["client"].state,
         test["client"].done => test'["client"].done,
         test'["client"].omitting = test["client"].omitting,
         UNCHANGED <<result, worker, ctrl, summary, counting>>, WorkersIdle
  PROVE  TransferInv'
  <1>0. "client" \in Ends /\ pc \in MainPcs /\ Shapes /\ rate' = rate /\ reported' = reported
    BY DEF Ends, MainPcs, TransferInv, counting
  <1>1. /\ main' \in [Ends -> MainType] /\ main'["client"].pc = pc
        /\ \A x \in Ends : x # "client" => main'[x] = main[x]
    BY <1>0, MainGoes
  <1>2. Strolls("client")
    BY <1>0, <1>1, RateShape DEF Strolls, Busy, Ends
  <1>3. Walk("client")' /\ \A t \in Streams : Due("client", t)' => Due("client", t)
    BY <1>0, <1>1 DEF Walk, Due
  <1> QED
    BY <1>0, <1>2, <1>3, StrollsInv

LEMMA TestTimer ==
  ASSUME TransferInv, test_timer_proc
  PROVE  TransferInv'
  <1>0. "client" \in Ends /\ Shapes /\ test["client"] \in TestType
        /\ test' = [test EXCEPT !["client"].done = TRUE]
        /\ main["client"].pc = "select" /\ test["client"].state = "TEST_RUNNING"
    BY DEF Ends, TransferInv, Shapes, test_timer_proc, TimersRun, At
  <1>1. /\ test' \in [Ends -> TestType] /\ test'["server"] = test["server"]
        /\ test'["client"].state = test["client"].state /\ test'["client"].done
        /\ test'["client"].omitting = test["client"].omitting
    BY <1>0 DEF Shapes, TestType, Ends
  <1> QED
    BY <1>0, <1>1, ClientGoes DEF test_timer_proc

-----------------------------------------------------------------------------
(* Steps of the main threads that clear or print counters.                 *)

\* A stream to which nothing happens, in the walk over the streams.
LEMMA WithinSame ==
  ASSUME TransferInv, NEW e \in Ends, NEW t \in Streams, conf' = conf, worker' = worker,
         result'[e][t] = result[e][t], reported'[e][t] = reported[e][t],
         main[e].pc # "aborted", ~(main[e].pc = "clear" /\ main[e].s = t),
         Due(e, t)' => Due(e, t)
  PROVE  Within(e, t)'
  <1> SUFFICES reported'[e][t] + result'[e][t].interval
                 + (IF Due(e, t)' THEN result'[e][t].last ELSE 0)
                 + (IF worker'[e][t].pc = "interval" THEN worker'[e][t].r ELSE 0)
               <= Counted(e, t)' + (IF conf'.omit THEN Block ELSE 0)
    BY DEF Within
  <1>1. Within(e, t) /\ Shapes
    BY DEF TransferInv, Withins
  <1>2. Counted(e, t)' = Counted(e, t) /\ Counted(e, t) \in Int
    BY <1>1, SameConf, Numbers DEF Counted
  <1> DEFINE o == IF conf.omit THEN Block ELSE 0
             k == IF worker[e][t].pc = "interval" THEN worker[e][t].r ELSE 0
  <1>3. o \in Nat /\ k \in Nat
    BY <1>1, Numbers
  <1>4. reported[e][t] + result[e][t].interval
          + (IF Due(e, t) THEN result[e][t].last ELSE 0) + k <= Counted(e, t) + o
    BY <1>1 DEF Within
  <1>5. reported[e][t] \in Nat /\ result[e][t].interval \in Nat /\ result[e][t].last \in Nat
    BY <1>1, Numbers
  <1> HIDE DEF o, k
  <1>6. reported[e][t] + result[e][t].interval
          + (IF Due(e, t)' THEN result[e][t].last ELSE 0) + k <= Counted(e, t) + o
    BY <1>2, <1>3, <1>4, <1>5
  <1> QED
    BY <1>2, <1>6 DEF o, k

LEMMA TotalRate ==
  ASSUME Shapes, NEW total \in Nat, iperf_check_total_rate(total) \/ UNCHANGED <<rate, totals>>
  PROVE  rate'.bytes \in [0..Window - 1 -> Nat] /\ rate'.index \in 0..Window - 1
  <1>1. CASE UNCHANGED <<rate, totals>>
    BY <1>1 DEF Shapes
  <1>2. CASE iperf_check_total_rate(total) /\ ~(test["server"].done \/ ~conf.limited)
    <2> DEFINE i == NextIndex(rate.index)
               bytes == [j \in DOMAIN rate.bytes \cup {i} |-> IF j = i THEN total
                                                            ELSE rate.bytes[j]]
    <2>1. i \in 0..Window - 1
      BY Sizes DEF NextIndex, Shapes
    <2> HIDE DEF i
    <2>2. bytes \in [0..Window - 1 -> Nat]
      <3>1. rate.bytes \in [0..Window - 1 -> Nat] /\ DOMAIN rate.bytes \cup {i} = 0..Window - 1
        BY <2>1 DEF Shapes
      <3>2. bytes = [j \in 0..Window - 1 |-> IF j = i THEN total ELSE rate.bytes[j]]
        BY <3>1
      <3> QED
        BY <3>1, <3>2
    <2> HIDE DEF bytes
    <2>3. rate'.bytes = bytes /\ rate'.index = i
      BY <1>2 DEF iperf_check_total_rate, bytes, i
    <2> QED
      BY <2>1, <2>2, <2>3
  <1>3. CASE iperf_check_total_rate(total) /\ (test["server"].done \/ ~conf.limited)
    <2>1. rate' = rate
      BY <1>3 DEF iperf_check_total_rate
    <2> QED
      BY <2>1 DEF Shapes
  <1> QED
    BY <1>1, <1>2, <1>3

\* What was read of the interval is stored, and the counter is cleared: what was counted
\* in between is lost.
LEMMA StatsZero ==
  ASSUME TransferInv, NEW e \in Ends, stats_zero(e)
  PROVE  TransferInv'
  <1>0. /\ Shapes /\ conf' = conf /\ Streams' = Streams /\ Streams = 1..NumStreams
        /\ NumStreams \in Nat \ {0} /\ main[e].pc = "zero"
        /\ (\A x, t : Sends(x, t)' = Sends(x, t))
        /\ WorkersIdle /\ UNCHANGED <<test, worker, ctrl, summary, reported>>
    BY SameConf, ConfIs DEF TransferInv, Shapes, stats_zero, WorkersIdle, At
  <1>1. /\ main[e].s \in Streams /\ main[e].then \in {"report", "test_end"} /\ main[e] \in MainType
        /\ e = "client" => test["client"].state = "TEST_RUNNING"
        /\ e = "server" =>
             /\ test["server"].state \in {"TEST_RUNNING", "TEST_END"}
             /\ main["server"].then =
                  IF test["server"].state = "TEST_RUNNING" THEN "report" ELSE "test_end"
    BY <1>0, WalkWhere
  <1>a. PICK s \in Streams : s = main[e].s
    BY <1>1
  <1> DEFINE last == s = NumStreams
             new == [result[e][s] EXCEPT !.last = main[e].seen, !.interval = 0]
  <1>2. /\ result[e][s] \in ResultType /\ main[e].seen \in Nat /\ main[e].total \in Nat
        /\ main[e].seen <= result[e][s].interval
    BY <1>0, <1>1, <1>a DEF Shapes, MainType, TransferInv, Walks, Walk
  <1>3. /\ new \in ResultType /\ new.last = main[e].seen /\ new.interval = 0
        /\ new.bytes = result[e][s].bytes /\ new.peer = result[e][s].peer
        /\ new.bytes_sent_omit = result[e][s].bytes_sent_omit
    BY <1>2 DEF ResultType
  <1>4. result' = [result EXCEPT ![e][s] = new]
    BY <1>0, <1>a, <1>2 DEF stats_zero, add_to_interval_list, Cleared, Shapes, ResultType
  <1> HIDE DEF new
  <1>5. /\ result' \in [Ends -> [Streams -> ResultType]] /\ result'[e][s] = new
        /\ \A x \in Ends, t \in Streams : x # e \/ t # s => result'[x][t] = result[x][t]
    <2>1. Shapes /\ new \in ResultType
      BY <1>0, <1>3
    <2> QED
      BY ONLY <1>4, <2>1, ResultMoves, e \in Ends, s \in Streams
  <1> DEFINE pc == IF last THEN main[e].then ELSE "read"
             i == IF last THEN 0 ELSE s + 1
             k == IF last THEN 0 ELSE main[e].total
             m == [main[e] EXCEPT !.pc = pc, !.s = i, !.seen = 0, !.total = k]
  <1>6. main' = [main EXCEPT ![e] = m]
    BY <1>0, <1>a DEF stats_zero, Shapes
  <1>7. pc \in MainPcs /\ i \in Nat /\ k \in Nat /\ (~last => i = s + 1 /\ i \in Streams)
    BY <1>0, <1>1, <1>2 DEF MainPcs
  <1>8. (last => pc = main[e].then) /\ (~last => pc = "read")
    OBVIOUS
  <1> HIDE DEF pc, i, k
  <1>9. m \in MainType /\ m.pc = pc /\ m.s = i /\ m.then = main[e].then
    BY <1>1, <1>7 DEF MainType
  <1> HIDE DEF m
  <1>10. /\ main' \in [Ends -> MainType] /\ main'[e].pc = pc /\ main'[e].s = i
         /\ main'[e].then = main[e].then /\ \A x \in Ends : x # e => main'[x] = main[x]
    BY <1>0, <1>6, <1>9, MainMoves
  <1>11. rate'.bytes \in [0..Window - 1 -> Nat] /\ rate'.index \in 0..Window - 1
    <2>1. iperf_check_total_rate(main[e].total) \/ UNCHANGED <<rate, totals>>
      BY DEF stats_zero
    <2> QED
      BY <1>0, <1>2, <2>1, TotalRate
  <1>12. Shapes'
    BY <1>0, <1>5, <1>10, <1>11 DEF Shapes, WorkersIdle, sockets
  <1>13. Walk(e)'
    BY <1>0, <1>1, <1>7, <1>8, <1>10 DEF Walk
  <1>14. \A t \in Streams : /\ result'[e][t].bytes = result[e][t].bytes
                            /\ result'[e][t].peer = result[e][t].peer
                            /\ result'[e][t].bytes_sent_omit = result[e][t].bytes_sent_omit
    BY <1>3, <1>5
  <1>15. \A x \in Ends : x # e => result'[x] = result[x]
    BY <1>0, <1>4 DEF Shapes
  <1>16. Calm(e)
    <2>1. \A t \in Streams : result'[e][t].bytes <= result[e][t].bytes
      BY <1>0, <1>14, Numbers
    <2>2. /\ e = "client" => main'["client"].pc \in (Busy \ {"aborted"}) \cup {"check", "test_end"}
          /\ e = "server" =>
               /\ test["server"].state = "TEST_RUNNING" => main'["server"].pc \in Busy
               /\ test["server"].state = "TEST_END" =>
                    main'["server"].pc \in {"read", "total", "zero", "test_end"}
      BY <1>1, <1>8, <1>10 DEF Busy
    <2> QED
      BY <1>0, <1>1, <1>10, <1>14, <1>15, <2>1, <2>2 DEF Calm, WorkersIdle, sockets
  <1>17. \A t \in Streams : Within(e, t)'
    <2> SUFFICES ASSUME NEW t \in Streams PROVE Within(e, t)'
      OBVIOUS
    <2>1. CASE t # s
      <3>1. Due(e, t)' => Due(e, t)
        BY <1>0, <1>1, <1>7, <1>8, <1>10, <1>a, <2>1 DEF Due
      <3> QED
        BY <1>0, <1>5, <2>1, <3>1, WithinSame
    <2>2. CASE t = s
      <3>1. Within(e, s) /\ s \in Streams
        BY <1>1 DEF TransferInv, Withins
      <3>2. ~Due(e, s)
        BY <1>0, <1>1, <1>a DEF Due
      <3>3. Counted(e, s)' = Counted(e, s) /\ Counted(e, s) \in Int
        BY <1>0, <1>14, <3>1, Numbers DEF Counted
      <3> DEFINE o == IF conf.omit THEN Block ELSE 0
                 w == IF worker[e][s].pc = "interval" THEN worker[e][s].r ELSE 0
                 d == IF Due(e, s)' THEN new.last ELSE 0
      <3>4. o \in Nat /\ w \in Nat /\ d \in Nat /\ d <= main[e].seen
        BY <1>0, <1>2, <1>3, <3>1, Numbers
      <3>5. reported[e][s] + result[e][s].interval + 0 + w <= Counted(e, s) + o
        BY <1>0, <3>1, <3>2 DEF Within
      <3>6. reported[e][s] \in Nat /\ result[e][s].interval \in Nat
        BY <1>0, <3>1, Numbers
      <3> HIDE DEF o, w, d
      <3>7. reported[e][s] + 0 + d + w <= Counted(e, s) + o
        BY <1>2, <3>3, <3>4, <3>5, <3>6
      <3>8. reported'[e][s] + result'[e][s].interval
              + (IF Due(e, s)' THEN result'[e][s].last ELSE 0)
              + (IF worker'[e][s].pc = "interval" THEN worker'[e][s].r ELSE 0)
            <= Counted(e, s)' + (IF conf'.omit THEN Block ELSE 0)
        BY <1>0, <1>3, <1>5, <3>3, <3>7 DEF o, w, d
      <3> QED
        BY <2>2, <3>8 DEF Within
    <2> QED
      BY <2>1, <2>2
  <1>18. \A t \in Streams : Sends(e, t) => result'[e][t].bytes_sent_omit <= result'[e][t].bytes
    BY <1>14 DEF TransferInv, Omits
  <1>19. ~conf.omit => /\ ~test'[e].omitting /\ main'[e].pc \notin {"omit", "clear"}
                       /\ \A t \in Streams : result'[e][t].bytes_sent_omit = 0
    BY <1>0, <1>1, <1>8, <1>10, <1>14 DEF TransferInv, Omits
  <1> QED
    BY <1>1, <1>10, <1>12, <1>13, <1>16, <1>17, <1>18, <1>19, CalmInv

\* The omitted period ends for one stream: from here its intervals count from nothing.
LEMMA ResetWhere ==
  ASSUME TransferInv, NEW e \in Ends, main[e].pc \in {"omit", "clear"}
  PROVE  /\ main[e].s \in Streams /\ main[e] \in MainType /\ conf.omit
         /\ e = "client" => test["client"].state = "TEST_RUNNING"
         /\ e = "server" => test["server"].state \in {"TEST_RUNNING", "DISPLAY_RESULTS"}
  <1>1. main[e].s \in Streams /\ main[e] \in MainType /\ conf.omit
    BY ConfIs DEF TransferInv, Walks, Walk, Shapes, Omits
  <1>2. /\ e = "client" => test["client"].state = "TEST_RUNNING"
        /\ e = "server" => test["server"].state \in {"TEST_RUNNING", "DISPLAY_RESULTS"}
    BY Where DEF Running, InState
  <1> QED
    BY <1>1, <1>2

LEMMA ResetOmit ==
  ASSUME TransferInv, NEW e \in Ends, reset_omit(e)
  PROVE  TransferInv'
  <1>0. /\ Shapes /\ conf' = conf /\ Streams' = Streams /\ main[e].pc = "omit"
        /\ (\A x, t : Sends(x, t)' = Sends(x, t)) /\ "clear" \in MainPcs /\ Go(e, "clear")
        /\ WorkersIdle /\ UNCHANGED <<test, worker, ctrl, summary, rate, reported>>
    BY SameConf DEF TransferInv, reset_omit, WorkersIdle, At, counting, MainPcs
  <1>1. /\ main[e].s \in Streams /\ conf.omit
        /\ e = "client" => test["client"].state = "TEST_RUNNING"
        /\ e = "server" => test["server"].state \in {"TEST_RUNNING", "DISPLAY_RESULTS"}
    BY <1>0, ResetWhere
  <1>2. PICK s \in Streams : s = main[e].s
    BY <1>1
  <1> DEFINE sent == [result[e][s] EXCEPT !.bytes_sent_omit = result[e][s].bytes]
             rcvd == [result[e][s] EXCEPT !.bytes_sent_omit = result[e][s].peer, !.bytes = 0]
             new == IF Sends(e, s) THEN sent ELSE rcvd
  <1>3. result[e][s] \in ResultType /\ result[e][s].bytes \in Nat /\ result[e][s].peer \in Nat
    BY <1>0, Numbers DEF Shapes
  <1>4. /\ new \in ResultType /\ new.peer = result[e][s].peer
        /\ new.bytes <= result[e][s].bytes /\ (Sends(e, s) => new.bytes = result[e][s].bytes)
        /\ Sends(e, s) => new.bytes_sent_omit <= new.bytes
    <2>1. CASE Sends(e, s)
      <3>1. sent \in ResultType /\ sent.peer = result[e][s].peer
            /\ sent.bytes = result[e][s].bytes /\ sent.bytes_sent_omit = result[e][s].bytes
        BY <1>3 DEF ResultType
      <3> QED
        BY <1>3, <2>1, <3>1
    <2>2. CASE ~Sends(e, s)
      <3>1. rcvd \in ResultType /\ rcvd.peer = result[e][s].peer /\ rcvd.bytes = 0
        BY <1>3 DEF ResultType
      <3> QED
        BY <1>3, <2>2, <3>1
    <2> QED
      BY <2>1, <2>2
  <1>5. result' = [result EXCEPT ![e][s] = new]
    BY <1>2 DEF reset_omit
  <1> HIDE DEF new
  <1>6. /\ result' \in [Ends -> [Streams -> ResultType]] /\ result'[e][s] = new
        /\ \A x \in Ends, t \in Streams : x # e \/ t # s => result'[x][t] = result[x][t]
    <2>1. Shapes /\ new \in ResultType
      BY <1>0, <1>4
    <2> QED
      BY ONLY <1>5, <2>1, ResultMoves, e \in Ends, s \in Streams
  <1>7. /\ main' \in [Ends -> MainType] /\ main'[e].pc = "clear" /\ main'[e].s = s
        /\ \A x \in Ends : x # e => main'[x] = main[x]
    BY <1>0, <1>2, MainGoes
  <1>8. Shapes'
    BY <1>0, <1>6, <1>7 DEF Shapes, WorkersIdle, sockets
  <1>9. Walk(e)'
    BY <1>0, <1>7 DEF Walk
  <1>10. \A x \in Ends : x # e => result'[x] = result[x]
    BY <1>0, <1>5 DEF Shapes
  <1>11. Calm(e)
    <2>1. \A t \in Streams : /\ result'[e][t].peer = result[e][t].peer
                             /\ result'[e][t].bytes <= result[e][t].bytes
                             /\ Sends(e, t) => result'[e][t].bytes = result[e][t].bytes
      BY <1>0, <1>4, <1>6, Numbers
    <2> QED
      BY <1>0, <1>1, <1>7, <1>10, <2>1 DEF Calm, WorkersIdle, sockets, Busy, Idle
  <1>12. \A t \in Streams : Within(e, t)'
    <2> SUFFICES ASSUME NEW t \in Streams PROVE Within(e, t)'
      OBVIOUS
    <2>1. CASE t = s
      BY <1>7, <2>1 DEF Within
    <2>2. CASE t # s
      <3>1. Due(e, t)' => Due(e, t)
        BY <1>0, <1>1, <1>7 DEF Due
      <3> QED
        BY <1>0, <1>6, <2>2, <3>1, WithinSame
    <2> QED
      BY <2>1, <2>2
  <1>13. \A t \in Streams : Sends(e, t) => result'[e][t].bytes_sent_omit <= result'[e][t].bytes
    BY <1>4, <1>6 DEF TransferInv, Omits
  <1> QED
    BY <1>1, <1>7, <1>8, <1>9, <1>11, <1>12, <1>13, CalmInv

\* A block counted in the total before the reset may still reach the interval.
LEMMA ResetInterval ==
  ASSUME TransferInv, NEW e \in Ends, reset_interval(e)
  PROVE  TransferInv'
  <1>0. /\ Shapes /\ conf' = conf /\ Streams' = Streams /\ main[e].pc = "clear"
        /\ Streams = 1..NumStreams /\ NumStreams \in Nat \ {0}
        /\ (\A x, t : Sends(x, t)' = Sends(x, t))
        /\ WorkersIdle /\ UNCHANGED <<test, worker, ctrl, summary, rate>>
    BY SameConf, ConfIs DEF TransferInv, Shapes, reset_interval, WorkersIdle, At
  <1>1. /\ main[e].s \in Streams /\ main[e] \in MainType /\ conf.omit
        /\ e = "client" => test["client"].state = "TEST_RUNNING"
        /\ e = "server" => test["server"].state \in {"TEST_RUNNING", "DISPLAY_RESULTS"}
    BY <1>0, ResetWhere
  <1>2. PICK s \in Streams : s = main[e].s
    BY <1>1
  <1> DEFINE new == [result[e][s] EXCEPT !.interval = 0]
  <1>3. result[e][s] \in ResultType
    BY <1>0 DEF Shapes
  <1>4. /\ new \in ResultType /\ new.peer = result[e][s].peer /\ new.bytes = result[e][s].bytes
        /\ new.bytes_sent_omit = result[e][s].bytes_sent_omit /\ new.interval = 0
    BY <1>3 DEF ResultType
  <1>5. result' = [result EXCEPT ![e][s] = new]
    BY <1>2 DEF reset_interval
  <1> HIDE DEF new
  <1>6. /\ result' \in [Ends -> [Streams -> ResultType]] /\ result'[e][s] = new
        /\ \A x \in Ends, t \in Streams : x # e \/ t # s => result'[x][t] = result[x][t]
    <2>1. Shapes /\ new \in ResultType
      BY <1>0, <1>4
    <2> QED
      BY ONLY <1>5, <2>1, ResultMoves, e \in Ends, s \in Streams
  <1>7. /\ reported' \in [Ends -> [Streams -> Nat]] /\ reported'[e][s] = 0
        /\ \A x \in Ends : x # e => reported'[x] = reported[x]
        /\ \A t \in Streams : t # s => reported'[e][t] = reported[e][t]
    <2>1. reported' = [reported EXCEPT ![e][s] = 0]
      BY <1>2 DEF reset_interval
    <2> QED
      BY <1>0, <2>1 DEF Shapes
  <1> DEFINE pc == IF s = NumStreams THEN AfterTimers(e) ELSE "omit"
             i == IF s = NumStreams THEN 0 ELSE s + 1
             m == [main[e] EXCEPT !.pc = pc, !.s = i]
  <1>8. main' = [main EXCEPT ![e] = m]
    BY <1>0, <1>2 DEF reset_interval, Shapes
  <1>9. /\ pc \in MainPcs /\ i \in Nat /\ (pc = "omit" => i \in Streams)
        /\ pc \in {"omit", "check", "select"} /\ (pc = "check" => e = "client")
    BY <1>0 DEF MainPcs, AfterTimers
  <1> HIDE DEF pc, i
  <1>10. m \in MainType /\ m.pc = pc /\ m.s = i
    BY <1>1, <1>9 DEF MainType
  <1> HIDE DEF m
  <1>11. /\ main' \in [Ends -> MainType] /\ main'[e].pc = pc /\ main'[e].s = i
         /\ \A x \in Ends : x # e => main'[x] = main[x]
    BY <1>0, <1>8, <1>10, MainMoves
  <1>12. Shapes'
    BY <1>0, <1>6, <1>7, <1>11 DEF Shapes, WorkersIdle, sockets
  <1>13. Walk(e)'
    BY <1>0, <1>9, <1>11 DEF Walk
  <1>14. \A t \in Streams : /\ result'[e][t].bytes = result[e][t].bytes
                            /\ result'[e][t].peer = result[e][t].peer
                            /\ result'[e][t].bytes_sent_omit = result[e][t].bytes_sent_omit
    BY <1>4, <1>6
  <1>15. \A x \in Ends : x # e => result'[x] = result[x]
    BY <1>0, <1>5 DEF Shapes
  <1>16. Calm(e)
    <2>1. \A t \in Streams : result'[e][t].bytes <= result[e][t].bytes
      BY <1>0, <1>14, Numbers
    <2> QED
      BY <1>0, <1>1, <1>7, <1>9, <1>11, <1>14, <1>15, <2>1 DEF Calm, WorkersIdle, sockets, Busy, Idle
  <1>17. \A t \in Streams : Within(e, t)'
    <2> SUFFICES ASSUME NEW t \in Streams PROVE Within(e, t)'
      OBVIOUS
    <2>0. ~Due(e, t)'
      BY <1>0, <1>1, <1>9, <1>11 DEF Due
    <2>1. CASE t # s
      BY <1>0, <1>2, <1>6, <1>7, <2>0, <2>1, WithinSame
    <2>2. CASE t = s
      <3>1. Counted(e, s)' = Counted(e, s) /\ Counted(e, s) \in Nat
        <4>1. Sends(e, s) => result[e][s].bytes_sent_omit <= result[e][s].bytes
          BY DEF TransferInv, Omits
        <4> QED
          BY <1>0, <1>14, <4>1, Numbers DEF Counted
      <3> DEFINE w == IF worker[e][s].pc = "interval" THEN worker[e][s].r ELSE 0
      <3>2. w \in 0..Block /\ Block \in Nat
        BY <1>0, Numbers
      <3> HIDE DEF w
      <3>3. 0 + 0 + 0 + w <= Counted(e, s) + Block
        BY <3>1, <3>2
      <3> QED
        BY <1>0, <1>1, <1>4, <1>6, <1>7, <2>0, <2>2, <3>1, <3>3 DEF Within, w
    <2> QED
      BY <2>1, <2>2
  <1>18. \A t \in Streams : Sends(e, t) => result'[e][t].bytes_sent_omit <= result'[e][t].bytes
    BY <1>14 DEF TransferInv, Omits
  <1> QED
    BY <1>1, <1>9, <1>11, <1>12, <1>13, <1>16, <1>17, <1>18, CalmInv

\* The stored intervals are printed.
LEMMA Intermediate ==
  ASSUME Shapes, NEW e \in Ends, iperf_print_intermediate(e)
  PROVE  /\ reported' \in [Ends -> [Streams -> Nat]]
         /\ \A t \in Streams : reported'[e][t] = reported[e][t] + result[e][t].last
         /\ \A x \in Ends : x # e => reported'[x] = reported[x]
  <1>1. \A t \in Streams : reported[e][t] \in Nat /\ result[e][t].last \in Nat
    BY Numbers
  <1> QED
    BY <1>1 DEF iperf_print_intermediate, Shapes

\* An interval is printed at most once: it was still due, and is not any more.
LEMMA WithinPrinted ==
  ASSUME TransferInv, NEW e \in Ends, NEW t \in Streams, conf' = conf, worker' = worker,
         result' = result, reported'[e][t] \in {reported[e][t], reported[e][t] + result[e][t].last},
         main[e].pc \notin {"clear", "aborted"}, Due(e, t), ~Due(e, t)'
  PROVE  Within(e, t)'
  <1>1. Within(e, t) /\ Shapes
    BY DEF TransferInv, Withins
  <1>2. Counted(e, t)' = Counted(e, t) /\ Counted(e, t) \in Int
    BY <1>1, SameConf, Numbers DEF Counted
  <1> DEFINE o == IF conf.omit THEN Block ELSE 0
             k == IF worker[e][t].pc = "interval" THEN worker[e][t].r ELSE 0
  <1>3. o \in Nat /\ k \in Nat
    BY <1>1, Numbers
  <1>4. reported[e][t] + result[e][t].interval + result[e][t].last + k <= Counted(e, t) + o
    BY <1>1 DEF Within
  <1>5. reported[e][t] \in Nat /\ result[e][t].interval \in Nat /\ result[e][t].last \in Nat
    BY <1>1, Numbers
  <1> HIDE DEF o, k
  <1>6. reported'[e][t] + result[e][t].interval + 0 + k <= Counted(e, t) + o
    BY <1>2, <1>3, <1>4, <1>5
  <1> QED
    BY <1>2, <1>6 DEF Within, o, k

LEMMA ReporterTimer ==
  ASSUME TransferInv, NEW e \in Ends, reporter_timer(e)
  PROVE  TransferInv'
  <1>0. /\ Shapes /\ conf' = conf /\ Streams' = Streams /\ main[e].pc = "report"
        /\ WorkersIdle /\ UNCHANGED <<test, result, worker, ctrl, rate>>
        /\ Go(e, AfterTimers(e))
    BY SameConf DEF TransferInv, reporter_timer, WorkersIdle, At
  <1>1. test[e].state = "TEST_RUNNING"
    BY <1>0, Where DEF Running, InState, Ends
  <1>2. (reported' = reported \/ iperf_print_intermediate(e)) /\ summary' = summary
    BY <1>1 DEF reporter_timer, iperf_reporter_callback
  <1>3. /\ reported' \in [Ends -> [Streams -> Nat]]
        /\ \A t \in Streams :
             reported'[e][t] \in {reported[e][t], reported[e][t] + result[e][t].last}
        /\ \A x \in Ends : x # e => reported'[x] = reported[x]
    <2>1. CASE reported' = reported
      BY <1>0, <2>1 DEF Shapes
    <2>2. CASE iperf_print_intermediate(e)
      BY <1>0, <2>2, Intermediate
    <2> QED
      BY <1>2, <2>1, <2>2
  <1>4. AfterTimers(e) \in MainPcs /\ AfterTimers(e) = (IF e = "client" THEN "check" ELSE "select")
    BY DEF AfterTimers, MainPcs
  <1>5. /\ main' \in [Ends -> MainType] /\ main'[e].pc = AfterTimers(e)
        /\ \A x \in Ends : x # e => main'[x] = main[x]
    BY <1>0, <1>4, MainGoes
  <1>6. Shapes'
    BY <1>0, <1>2, <1>3, <1>5 DEF Shapes, WorkersIdle, sockets
  <1>7. Walk(e)'
    BY <1>4, <1>5 DEF Walk
  <1>8. Calm(e)
    <2>1. \A t \in Streams : result[e][t].bytes <= result[e][t].bytes
      BY <1>0, Numbers
    <2> QED
      BY <1>0, <1>1, <1>2, <1>3, <1>4, <1>5, <2>1 DEF Calm, WorkersIdle, sockets, Busy, Ends
  <1>9. \A t \in Streams : Within(e, t)'
    <2> SUFFICES ASSUME NEW t \in Streams PROVE Within(e, t)'
      OBVIOUS
    <2>1. Due(e, t) /\ ~Due(e, t)'
      BY <1>0, <1>1, <1>4, <1>5 DEF Due
    <2> QED
      BY <1>0, <1>3, <2>1, WithinPrinted
  <1>10. \A t \in Streams : Sends(e, t) => result'[e][t].bytes_sent_omit <= result'[e][t].bytes
    BY <1>0 DEF TransferInv, Omits
  <1>11. ~conf.omit => /\ ~test'[e].omitting /\ main'[e].pc \notin {"omit", "clear"}
                       /\ \A t \in Streams : result'[e][t].bytes_sent_omit = 0
    BY <1>0, <1>4, <1>5 DEF TransferInv, Omits
  <1> QED
    BY <1>4, <1>5, <1>6, <1>7, <1>8, <1>9, <1>10, <1>11, CalmInv

-----------------------------------------------------------------------------
(* Handlers of control messages.                                           *)

LEMMA Queues ==
  /\ \A a : Head(<<a>>) = a /\ Tail(<<a>>) = <<>> /\ <<a>> # <<>>
  /\ \A a, b : Head(<<a, b>>) = a /\ Tail(<<a, b>>) = <<b>> /\ <<a, b>> # <<>>
  /\ \A a : <<>> \o <<a>> = <<a>> /\ Append(<<>>, a) = <<a>>
  /\ \A a, b : <<>> \o <<a, b>> = <<a, b>>
  /\ <<>> \o <<>> = <<>>
  <1>1. \A a : Head(<<a>>) = a /\ Tail(<<a>>) = <<>> /\ <<a>> # <<>>
    OBVIOUS
  <1>2. \A a, b : Head(<<a, b>>) = a /\ Tail(<<a, b>>) = <<b>> /\ <<a, b>> # <<>>
    OBVIOUS
  <1>3. \A a : <<>> \o <<a>> = <<a>> /\ Append(<<>>, a) = <<a>>
    OBVIOUS
  <1>4. \A a, b : <<>> \o <<a, b>> = <<a, b>>
    OBVIOUS
  <1>5. <<>> \o <<>> = <<>>
    OBVIOUS
  <1> QED
    BY <1>1, <1>2, <1>3, <1>4, <1>5

\* The message at hand says which phase it is.
LEMMA ToldWhen ==
  ASSUME TransferInv
  PROVE  /\ Told("client", "TEST_RUNNING") => Starting
         /\ Told("client", "EXCHANGE_RESULTS") => Asking
         /\ Told("client", "results") => Answering
         /\ Told("client", "DISPLAY_RESULTS") => Displaying
         /\ Told("server", "TEST_END") => Ending
         /\ Told("server", "results") => Telling
         /\ Told("server", "IPERF_DONE") => Finishing
  <1> USE Queues DEF Mail, Told, Message, Results
  <1>1. CASE Starting \/ Running \/ Ending
    BY <1>1 DEF Starting, Running, Ending
  <1>2. CASE Stopping \/ Asking \/ Telling
    BY <1>2 DEF Stopping, Asking, Telling
  <1>3. CASE Answering
    BY <1>3 DEF Answering
  <1>4. CASE Displaying \/ Finishing \/ Finished
    BY <1>4 DEF Displaying, Finishing, Finished
  <1> QED
    BY <1>1, <1>2, <1>3, <1>4 DEF TransferInv, Phase

LEMMA Replied ==
  ASSUME Shapes, NEW e \in Ends, NEW msgs, Reply(e, msgs)
  PROVE  /\ DOMAIN ctrl' = Ends /\ ctrl'[e] = Tail(ctrl[e])
         /\ ctrl'[Other(e)] = ctrl[Other(e)] \o msgs
  <1>1. Other(e) \in Ends /\ Other(e) # e
    BY OtherIs DEF Ends
  <1> QED
    BY <1>1 DEF Shapes, Reply

\* What a handler leaves alone: it may stop or start threads of e and take a result.
Handles(e) ==
  /\ conf' = conf /\ pending' = pending /\ disk' = disk /\ wire' = wire /\ nobufs' = nobufs
  /\ \A x \in Ends : x # e => /\ main'[x] = main[x] /\ reported'[x] = reported[x]
                              /\ test'[x] = test[x] /\ worker'[x] = worker[x]
  /\ \A t \in Streams : \/ worker'[e][t] = worker[e][t] \/ worker'[e][t].pc = "gone"
                        \/ worker[e][t].pc = "none" /\ worker'[e][t].pc = "top"
  /\ \A x \in Ends, t \in Streams :
       /\ result'[x][t].bytes = result[x][t].bytes
       /\ result'[x][t].interval = result[x][t].interval
       /\ result'[x][t].last = result[x][t].last
       /\ result'[x][t].bytes_sent_omit = result[x][t].bytes_sent_omit
  /\ test'[e].omitting = test[e].omitting
  /\ main[e].pc \notin {"omit", "clear", "aborted"} /\ main'[e].pc \notin {"omit", "clear"}

LEMMA HandlesArrived ==
  ASSUME TransferInv, Shapes', NEW e \in Ends, Handles(e)
  PROVE  \A x \in Ends, t \in Streams : Arrived(x, t)' <= Arrived(x, t)
  <1> SUFFICES ASSUME NEW x \in Ends, NEW t \in Streams PROVE Arrived(x, t)' <= Arrived(x, t)
    OBVIOUS
  <1>0. conf' = conf /\ wire' = wire /\ result'[x][t].bytes = result[x][t].bytes /\ Shapes
    BY DEF Handles, TransferInv
  <1>1. result[x][t].bytes \in Nat /\ wire[t] \in Nat /\ worker[x][t].r \in Nat
    BY <1>0, Numbers
  <1>2. \/ worker'[x][t] = worker[x][t] \/ worker'[x][t].pc = "gone"
        \/ worker'[x][t].pc = "top"
    BY DEF Handles
  <1> QED
    BY <1>0, <1>1, <1>2 DEF Arrived

LEMMA HandlesInv ==
  ASSUME TransferInv, Shapes', NEW e \in Ends, Handles(e), Walk(e)',
         \A t \in Streams : Within(e, t)'
  PROVE  Stages' /\ Walks' /\ Omits' /\ Withins' /\ Flows'
  <1>0. /\ Streams' = Streams /\ conf' = conf /\ Shapes /\ \A x, t : Sends(x, t)' = Sends(x, t)
    BY SameConf DEF TransferInv, Handles
  <1>1. Stages'
    <2> SUFFICES ASSUME NEW x \in Ends, NEW t \in Streams PROVE Stage(x, t)'
      BY <1>0 DEF Stages
    <2>1. Stage(x, t) /\ pending' = pending /\ disk' = disk
      BY DEF TransferInv, Stages, Handles
    <2>2. \/ worker'[x][t] = worker[x][t] \/ worker'[x][t].pc = "gone"
          \/ worker'[x][t].pc = "top"
      BY DEF Handles
    <2> QED
      BY <1>0, <2>1, <2>2 DEF Stage, Unsent
  <1>2. Walks'
    <2> SUFFICES ASSUME NEW x \in Ends, x # e PROVE Walk(x)'
      BY DEF Walks
    <2> QED
      BY <1>0 DEF TransferInv, Walks, Walk, Handles
  <1>3. Omits'
    <2> SUFFICES ASSUME NEW x \in Ends
                 PROVE  /\ \A t \in Streams : Sends(x, t) =>
                             result'[x][t].bytes_sent_omit <= result'[x][t].bytes
                        /\ ~conf.omit =>
                             /\ ~test'[x].omitting /\ main'[x].pc \notin {"omit", "clear"}
                             /\ \A t \in Streams : result'[x][t].bytes_sent_omit = 0
      BY <1>0 DEF Omits
    <2> QED
      BY DEF TransferInv, Omits, Handles
  <1>4. Withins'
    <2> SUFFICES ASSUME NEW x \in Ends, x # e, NEW t \in Streams PROVE Within(x, t)'
      BY <1>0 DEF Withins
    <2>1. Within(x, t)
      BY DEF TransferInv, Withins
    <2>2. /\ main'[x] = main[x] /\ reported'[x] = reported[x] /\ test'[x] = test[x]
          /\ worker'[x] = worker[x] /\ result'[x][t].bytes = result[x][t].bytes
          /\ result'[x][t].interval = result[x][t].interval
          /\ result'[x][t].last = result[x][t].last
          /\ result'[x][t].bytes_sent_omit = result[x][t].bytes_sent_omit
      BY DEF Handles
    <2>3. Due(x, t)' = Due(x, t) /\ Counted(x, t)' = Counted(x, t)
      BY <1>0, <2>2 DEF Due, Counted
    <2> QED
      BY <1>0, <2>1, <2>2, <2>3 DEF Within
  <1>5. Flows'
    <2> SUFFICES ASSUME NEW x \in Ends, NEW y \in Ends, NEW t \in Streams, Sends(x, t), x # y
                 PROVE  Arrived(y, t)' <= result'[x][t].bytes + nobufs'[t] + Late(x, t)'
      BY <1>0 DEF Flows, Flow
    <2>1. Arrived(y, t) <= result[x][t].bytes + nobufs[t] + Late(x, t)
      BY DEF TransferInv, Flows, Flow
    <2>2. Late(x, t) \in Nat /\ Late(x, t)' \in Nat
      BY <1>0, Numbers, NumbersNext DEF Late
    <2>3. Late(x, t)' >= Late(x, t)
      <3>1. \/ worker'[x][t] = worker[x][t] \/ worker'[x][t].pc = "gone"
            \/ worker[x][t].pc = "none" /\ worker'[x][t].pc = "top"
        BY DEF Handles
      <3>2. worker[x][t].r \in 0..Block /\ Block \in Nat
        BY <1>0, Numbers
      <3> QED
        BY <3>1, <3>2 DEF Late
    <2>4. result'[x][t].bytes = result[x][t].bytes /\ nobufs' = nobufs
      BY DEF Handles
    <2>5. Arrived(y, t)' <= Arrived(y, t)
      BY HandlesArrived
    <2>6. /\ Arrived(y, t) \in Nat /\ Arrived(y, t)' \in Nat /\ result[x][t].bytes \in Nat
          /\ nobufs[t] \in Nat
      BY <1>0, Numbers, NumbersNext
    <2> QED
      BY <2>1, <2>2, <2>3, <2>4, <2>5, <2>6
  <1> QED
    BY <1>1, <1>2, <1>3, <1>4, <1>5

\* What was due is printed or stays due.
LEMMA WithinHandled ==
  ASSUME TransferInv, Shapes', NEW e \in Ends, NEW t \in Streams, Handles(e),
         \/ reported'[e][t] = reported[e][t] /\ (Due(e, t)' => Due(e, t))
         \/ reported'[e][t] = reported[e][t] + result[e][t].last /\ Due(e, t) /\ ~Due(e, t)'
  PROVE  Within(e, t)'
  <1>1. Within(e, t) /\ Shapes /\ conf' = conf
    BY DEF TransferInv, Withins, Handles
  <1>2. /\ result'[e][t].bytes = result[e][t].bytes
        /\ result'[e][t].interval = result[e][t].interval
        /\ result'[e][t].last = result[e][t].last
        /\ result'[e][t].bytes_sent_omit = result[e][t].bytes_sent_omit
        /\ main[e].pc \notin {"clear", "aborted"}
    BY DEF Handles
  <1>3. Counted(e, t)' = Counted(e, t) /\ Counted(e, t) \in Int
    BY <1>1, <1>2, SameConf, Numbers DEF Counted
  <1> DEFINE o == IF conf.omit THEN Block ELSE 0
             k == IF worker[e][t].pc = "interval" THEN worker[e][t].r ELSE 0
             j == IF worker'[e][t].pc = "interval" THEN worker'[e][t].r ELSE 0
  <1>4. o \in Nat /\ k \in Nat /\ j \in Nat /\ j <= k
    <2>1. \/ worker'[e][t] = worker[e][t] \/ worker'[e][t].pc = "gone"
          \/ worker'[e][t].pc = "top"
      BY DEF Handles
    <2> QED
      BY <1>1, <2>1, Numbers
  <1>5. reported[e][t] + result[e][t].interval
          + (IF Due(e, t) THEN result[e][t].last ELSE 0) + k <= Counted(e, t) + o
    BY <1>1, <1>2 DEF Within
  <1>6. reported[e][t] \in Nat /\ result[e][t].interval \in Nat /\ result[e][t].last \in Nat
    BY <1>1, Numbers
  <1> HIDE DEF o, k, j
  <1>7. reported'[e][t] + result[e][t].interval
          + (IF Due(e, t)' THEN result[e][t].last ELSE 0) + j <= Counted(e, t) + o
    BY <1>3, <1>4, <1>5, <1>6
  <1> QED
    BY <1>1, <1>2, <1>3, <1>7 DEF Within, o, j

LEMMA Cancelled ==
  ASSUME TransferInv, NEW e \in Ends, NEW gone, Cancel(e, gone)
  PROVE  /\ worker' \in [Ends -> [Streams -> WorkerType]]
         /\ \A x \in Ends : x # e => worker'[x] = worker[x]
         /\ \A t \in Streams : worker'[e][t] = worker[e][t] \/ worker'[e][t].pc = "gone"
  <1> DEFINE w == [pc |-> "gone", r |-> 0, multisend |-> 0]
  <1>1. w \in WorkerType /\ w.pc = "gone"
    BY Sizes DEF WorkerType, ThreadPcs
  <1>2. worker' = [worker EXCEPT ![e] = [t \in Streams |-> IF t \in gone THEN w ELSE worker[e][t]]]
    BY DEF Cancel
  <1> HIDE DEF w
  <1>3. worker \in [Ends -> [Streams -> WorkerType]]
    BY DEF TransferInv, Shapes
  <1> QED
    BY <1>1, <1>2, <1>3

\* The shapes after a handler.
LEMMA HandlesShapes ==
  ASSUME TransferInv, conf' = conf, UNCHANGED <<pending, disk, wire, nobufs, rate>>,
         test' \in [Ends -> TestType], result' \in [Ends -> [Streams -> ResultType]],
         worker' \in [Ends -> [Streams -> WorkerType]], open' \in BOOLEAN,
         main' \in [Ends -> MainType], DOMAIN ctrl' = Ends, DOMAIN summary' = Ends,
         reported' \in [Ends -> [Streams -> Nat]]
  PROVE  Shapes'
  BY SameConf DEF TransferInv, Shapes

\* A handler that prints nothing.
LEMMA HandlesQuietly ==
  ASSUME TransferInv, Shapes', NEW e \in Ends, Handles(e), Walk(e)', Phase', ServerSide',
         reported' = reported, summary'["client"] = summary["client"],
         \A t \in Streams : Due(e, t)' => Due(e, t)
  PROVE  TransferInv'
  <1>1. \A t \in Streams : Within(e, t)'
    BY WithinHandled
  <1>2. Stages' /\ Walks' /\ Omits' /\ Withins' /\ Flows'
    BY <1>1, HandlesInv
  <1>3. Printed' /\ ReceivedWasSent'
    <2>1. main["client"].pc = "aborted" => main'["client"].pc = "aborted"
      BY DEF Handles, Ends
    <2>2. Shapes /\ Printed /\ ReceivedWasSent
      BY DEF TransferInv
    <2>3. conf' = conf /\ \A t \in Streams : nobufs'[t] >= nobufs[t]
      BY <2>2, Numbers DEF Handles, Ends
    <2> QED
      BY <2>1, <2>2, <2>3, ReportStays
  <1> QED
    BY <1>2, <1>3 DEF TransferInv

\* The test of e gets a new state.
LEMMA StateMoves ==
  ASSUME Shapes, NEW e \in Ends, NEW state \in TestStates, NEW done \in BOOLEAN,
         \/ test' = [test EXCEPT ![e].state = state] /\ done = test[e].done
         \/ test' = [test EXCEPT ![e].done = done] /\ state = test[e].state
         \/ test' = [test EXCEPT ![e].state = state, ![e].done = done]
  PROVE  /\ test' \in [Ends -> TestType] /\ test'[e].state = state /\ test'[e].done = done
         /\ test'[e].omitting = test[e].omitting
         /\ \A x \in Ends : x # e => test'[x] = test[x]
  <1> DEFINE u == [test[e] EXCEPT !.state = state, !.done = done]
  <1>1. test[e] \in TestType
    BY DEF Shapes
  <1>2. /\ u \in TestType /\ u.state = state /\ u.done = done
        /\ u.omitting = test[e].omitting
    BY <1>1 DEF TestType
  <1>3. test' = [test EXCEPT ![e] = u]
    <2>1. CASE test' = [test EXCEPT ![e].state = state] /\ done = test[e].done
      <3>1. u = [test[e] EXCEPT !.state = state]
        BY <1>1, <2>1 DEF TestType
      <3> QED
        BY <2>1, <3>1
    <2>2. CASE test' = [test EXCEPT ![e].done = done] /\ state = test[e].state
      <3>1. u = [test[e] EXCEPT !.done = done]
        BY <1>1, <2>2 DEF TestType
      <3> QED
        BY <2>2, <3>1
    <2>3. CASE test' = [test EXCEPT ![e].state = state, ![e].done = done]
      BY <2>3 DEF Shapes
    <2> QED
      BY <2>1, <2>2, <2>3
  <1> HIDE DEF u
  <1> QED
    BY <1>2, <1>3 DEF Shapes

LEMMA DoneType ==
  ASSUME Shapes, NEW e \in Ends
  PROVE  test[e].done \in BOOLEAN /\ test[e].state \in TestStates
  <1>1. test[e] \in TestType
    BY DEF Shapes
  <1> QED
    BY <1>1 DEF TestType

LEMMA EndsAre == "client" \in Ends /\ "server" \in Ends /\ "client" # "server"
  BY DEF Ends

LEMMA ClientTestRunning ==
  ASSUME TransferInv, client_test_running
  PROVE  TransferInv'
  <1> USE EndsAre
  <1>0. /\ Shapes /\ conf' = conf /\ Streams' = Streams /\ Starting /\ ServerSide
        /\ UNCHANGED <<result, summary, rate, reported, pending, disk, wire, open, nobufs>>
        /\ Go("client", "check") /\ Reply("client", <<>>)
    BY SameConf, ToldWhen DEF TransferInv, client_test_running, WorkersIdle, counting, sockets
  <1>1. /\ main' \in [Ends -> MainType] /\ main'["client"].pc = "check"
        /\ \A x \in Ends : x # "client" => main'[x] = main[x]
    BY <1>0, MainGoes DEF MainPcs
  <1>2. /\ test' \in [Ends -> TestType] /\ test'["client"].state = "TEST_RUNNING"
        /\ test'["client"].omitting = test["client"].omitting
        /\ \A x \in Ends : x # "client" => test'[x] = test[x]
    <2>1. test' = [test EXCEPT !["client"].state = "TEST_RUNNING"] /\ "TEST_RUNNING" \in TestStates
      BY DEF client_test_running, TestStates
    <2> QED
      BY <1>0, <2>1, DoneType, StateMoves
  <1>3. /\ worker' \in [Ends -> [Streams -> WorkerType]]
        /\ \A t \in Streams : worker'["client"][t].pc = "top"
        /\ \A x \in Ends : x # "client" => worker'[x] = worker[x]
    <2>1. worker' = [worker EXCEPT !["client"] =
                       [t \in Streams |-> [worker["client"][t] EXCEPT !.pc = "top"]]]
      BY DEF client_test_running
    <2>2. \A t \in Streams : /\ [worker["client"][t] EXCEPT !.pc = "top"] \in WorkerType
                             /\ [worker["client"][t] EXCEPT !.pc = "top"].pc = "top"
      <3> SUFFICES ASSUME NEW t \in Streams
                   PROVE  /\ [worker["client"][t] EXCEPT !.pc = "top"] \in WorkerType
                          /\ [worker["client"][t] EXCEPT !.pc = "top"].pc = "top"
        OBVIOUS
      <3>1. worker["client"][t] \in WorkerType /\ "top" \in ThreadPcs
        BY <1>0 DEF Shapes, ThreadPcs
      <3> QED
        BY <3>1 DEF WorkerType
    <2> QED
      BY <1>0, <2>1, <2>2 DEF Shapes
  <1>4. DOMAIN ctrl' = Ends /\ ctrl'["client"] = <<>> /\ ctrl'["server"] = <<>>
    BY <1>0, Replied, OtherIs, Queues DEF Starting, Mail
  <1>5. Shapes'
    BY <1>0, <1>1, <1>2, <1>3, <1>4, HandlesShapes DEF Shapes
  <1>6. Handles("client")
    BY <1>0, <1>1, <1>2, <1>3 DEF Handles, Starting, Places
  <1>7. Walk("client")' /\ \A t \in Streams : Due("client", t)' => Due("client", t)
    BY <1>1, <1>2 DEF Walk, Due
  <1>8. Running'
    BY <1>0, <1>1, <1>2, <1>4 DEF Starting, Running, InState, Places, Mail
  <1>9. ServerSide'
    BY <1>0, <1>1, <1>2 DEF ServerSide
  <1> QED
    BY <1>0, <1>5, <1>6, <1>7, <1>8, <1>9, HandlesQuietly DEF Phase

LEMMA ClientCheckDone ==
  ASSUME TransferInv, client_check_done
  PROVE  TransferInv'
  <1> USE EndsAre
  <1>0. /\ Shapes /\ conf' = conf /\ Streams' = Streams /\ Running /\ ServerSide
        /\ main["client"].pc = "check"
        /\ UNCHANGED <<result, ctrl, summary, counting>> /\ WorkersIdle
    BY SameConf, Where DEF TransferInv, client_check_done, WorkersIdle, At
  <1>1. CASE TestDone
    <2>1. /\ test' = [test EXCEPT !["client"].done = TRUE]
          /\ Cancel("client", {s \in Streams : Sends("client", s)})
          /\ Stats("client", "test_end")
      BY <1>1 DEF client_check_done
    <2>2. /\ test' \in [Ends -> TestType] /\ test'["client"].state = test["client"].state
          /\ test'["client"].omitting = test["client"].omitting
          /\ \A x \in Ends : x # "client" => test'[x] = test[x]
      BY <1>0, <2>1, DoneType, StateMoves
    <2>3. /\ worker' \in [Ends -> [Streams -> WorkerType]]
          /\ \A x \in Ends : x # "client" => worker'[x] = worker[x]
          /\ \A t \in Streams : \/ worker'["client"][t] = worker["client"][t]
                                \/ worker'["client"][t].pc = "gone"
      BY <2>1, Cancelled
    <2>4. /\ main' \in [Ends -> MainType] /\ main'["client"].pc = "read" /\ main'["client"].s = 1
          /\ main'["client"].then = "test_end" /\ \A x \in Ends : x # "client" => main'[x] = main[x]
      BY <1>0, <2>1, StatsCalled
    <2>5. UNCHANGED <<pending, disk, wire, open, nobufs, rate, reported>>
      BY <1>0 DEF WorkersIdle, sockets, counting
    <2>6. Shapes'
      BY <1>0, <2>2, <2>3, <2>4, <2>5, HandlesShapes DEF Shapes
    <2>7. Handles("client")
      BY <1>0, <2>2, <2>3, <2>4, <2>5 DEF Handles
    <2>8. 1 \in Streams
      BY <1>0, ConfIs DEF Shapes
    <2>9. Walk("client")'
      BY <1>0, <2>4, <2>8 DEF Walk
    <2>10. \A t \in Streams : Due("client", t)' => Due("client", t)
      <3>1. \A t \in Streams : ~(t < 1)
        BY <1>0, ConfIs DEF Shapes
      <3> QED
        BY <2>2, <2>4, <3>1 DEF Due
    <2>11. Running'
      BY <1>0, <2>2, <2>4 DEF Running, InState, Places, Mail, Busy
    <2>12. ServerSide'
      BY <1>0, <2>2, <2>4, <2>5 DEF ServerSide
    <2> QED
      BY <1>0, <2>5, <2>6, <2>7, <2>9, <2>10, <2>11, <2>12, HandlesQuietly DEF Phase
  <1>2. CASE ~TestDone
    <2>1. Go("client", "select") /\ UNCHANGED <<test, worker>>
      BY <1>2 DEF client_check_done
    <2>2. test["client"].state = "TEST_RUNNING" /\ test' \in [Ends -> TestType]
      BY <1>0, <2>1 DEF Running, InState, Shapes
    <2> QED
      BY <1>0, <2>1, <2>2, ClientGoes
  <1> QED
    BY <1>1, <1>2

LEMMA ClientTestEnd ==
  ASSUME TransferInv, client_test_end
  PROVE  TransferInv'
  <1> USE EndsAre
  <1>0. /\ Shapes /\ conf' = conf /\ Streams' = Streams /\ Running /\ ServerSide
        /\ main["client"].pc = "test_end" /\ Go("client", "select")
        /\ UNCHANGED <<result, worker, summary, rate, reported, pending, disk, wire, open, nobufs>>
    BY SameConf, Where DEF TransferInv, client_test_end, WorkersIdle, sockets, counting, At
  <1>1. /\ test' \in [Ends -> TestType] /\ test'["client"].state = "TEST_END"
        /\ test'["client"].omitting = test["client"].omitting
        /\ \A x \in Ends : x # "client" => test'[x] = test[x]
    <2>1. test' = [test EXCEPT !["client"].state = "TEST_END"] /\ "TEST_END" \in TestStates
      BY DEF client_test_end, TestStates
    <2> QED
      BY <1>0, <2>1, DoneType, StateMoves
  <1>2. /\ main' \in [Ends -> MainType] /\ main'["client"].pc = "select"
        /\ \A x \in Ends : x # "client" => main'[x] = main[x]
    BY <1>0, MainGoes DEF MainPcs
  <1>3. DOMAIN ctrl' = Ends /\ ctrl'["client"] = <<>> /\ ctrl'["server"] = <<Message("TEST_END")>>
    BY <1>0, Queues DEF client_test_end, Shapes, Running, Mail
  <1>4. Shapes'
    BY <1>0, <1>1, <1>2, <1>3, HandlesShapes DEF Shapes
  <1>5. Handles("client")
    BY <1>0, <1>1, <1>2 DEF Handles
  <1>6. Walk("client")' /\ \A t \in Streams : Due("client", t)' => Due("client", t)
    BY <1>0, <1>2 DEF Walk, Due
  <1>7. Ending'
    BY <1>0, <1>1, <1>2, <1>3 DEF Running, Ending, InState, Places, Mail
  <1>8. ServerSide'
    BY <1>0, <1>1, <1>2 DEF ServerSide
  <1> QED
    BY <1>0, <1>4, <1>5, <1>6, <1>7, <1>8, HandlesQuietly DEF Phase

\* What an end tells about its streams.
LEMMA ResultsSent ==
  ASSUME TransferInv, NEW e \in Ends
  PROVE  /\ send_results(e) \in Docs
         /\ \A t \in Streams :
              /\ send_results(e)[t] <= result[e][t].bytes
              /\ ~conf.omit => send_results(e)[t] = result[e][t].bytes
  <1> SUFFICES ASSUME NEW t \in Streams
               PROVE  LET d == IF Sends(e, t) THEN result[e][t].bytes - result[e][t].bytes_sent_omit
                               ELSE result[e][t].bytes
                      IN d \in Nat /\ d <= result[e][t].bytes
                         /\ (~conf.omit => d = result[e][t].bytes)
    BY DEF send_results, Docs
  <1>1. result[e][t].bytes \in Nat /\ result[e][t].bytes_sent_omit \in Nat
    BY Numbers DEF TransferInv
  <1>2. /\ Sends(e, t) => result[e][t].bytes_sent_omit <= result[e][t].bytes
        /\ ~conf.omit => result[e][t].bytes_sent_omit = 0
    BY DEF TransferInv, Omits
  <1> QED
    BY <1>1, <1>2

LEMMA ClientExchangeResults ==
  ASSUME TransferInv, client_exchange_results
  PROVE  TransferInv'
  <1> USE EndsAre
  <1>0. /\ Shapes /\ conf' = conf /\ Streams' = Streams /\ Asking /\ ServerSide
        /\ main["client"].pc = "select" /\ Go("client", "results")
        /\ Reply("client", <<Results(send_results("client"))>>)
        /\ UNCHANGED <<result, worker, summary, rate, reported, pending, disk, wire, open, nobufs>>
    BY SameConf, ToldWhen DEF TransferInv, client_exchange_results, WorkersIdle, sockets,
       counting, At
  <1>1. /\ test' \in [Ends -> TestType] /\ test'["client"].state = "EXCHANGE_RESULTS"
        /\ test'["client"].omitting = test["client"].omitting
        /\ \A x \in Ends : x # "client" => test'[x] = test[x]
    <2>1. test' = [test EXCEPT !["client"].state = "EXCHANGE_RESULTS"]
          /\ "EXCHANGE_RESULTS" \in TestStates
      BY DEF client_exchange_results, TestStates
    <2> QED
      BY <1>0, <2>1, DoneType, StateMoves
  <1>2. /\ main' \in [Ends -> MainType] /\ main'["client"].pc = "results"
        /\ \A x \in Ends : x # "client" => main'[x] = main[x]
    BY <1>0, MainGoes DEF MainPcs
  <1>3. PICK d \in Docs : d = send_results("client")
    BY ResultsSent
  <1>4. DOMAIN ctrl' = Ends /\ ctrl'["client"] = <<>> /\ ctrl'["server"] = <<Results(d)>>
    <2>1. /\ DOMAIN ctrl' = Ends /\ ctrl'["client"] = Tail(ctrl["client"])
          /\ ctrl'["server"] = ctrl["server"] \o <<Results(d)>>
      BY <1>0, <1>3, Replied, OtherIs
    <2>2. ctrl["client"] = <<Message("EXCHANGE_RESULTS")>> /\ ctrl["server"] = <<>>
      BY <1>0 DEF Asking, Mail
    <2> QED
      BY ONLY <2>1, <2>2, Queues
  <1>5. Shapes'
    BY <1>0, <1>1, <1>2, <1>4, HandlesShapes DEF Shapes
  <1>6. Handles("client")
    BY <1>0, <1>1, <1>2 DEF Handles
  <1>7. Walk("client")' /\ \A t \in Streams : Due("client", t)' => Due("client", t)
    BY <1>0, <1>2 DEF Walk, Due, Asking, InState
  <1>8. Telling'
    <2>1. ctrl'["server"][1].doc = d /\ d \in Docs'
      BY <1>0, <1>4 DEF Results, Docs
    <2> QED
      BY <1>0, <1>1, <1>2, <1>4, <2>1 DEF Asking, Telling, InState, Places, Mail
  <1>9. ServerSide'
    BY <1>0, <1>1, <1>2 DEF ServerSide
  <1> QED
    BY <1>0, <1>5, <1>6, <1>7, <1>8, <1>9, HandlesQuietly DEF Phase

\* The counts of the other end are stored; everything else stays.
LEMMA ResultsTaken ==
  ASSUME TransferInv, NEW e \in Ends, NEW d \in Docs, get_results(e, d)
  PROVE  /\ result' \in [Ends -> [Streams -> ResultType]]
         /\ \A x \in Ends : x # e => result'[x] = result[x]
         /\ \A t \in Streams : result'[e][t].peer = d[t]
         /\ \A x \in Ends, t \in Streams :
              /\ result'[x][t].bytes = result[x][t].bytes
              /\ result'[x][t].interval = result[x][t].interval
              /\ result'[x][t].last = result[x][t].last
              /\ result'[x][t].bytes_sent_omit = result[x][t].bytes_sent_omit
  <1>0. result \in [Ends -> [Streams -> ResultType]]
    BY DEF TransferInv, Shapes
  <1>1. \A t \in Streams : [result[e][t] EXCEPT !.peer = d[t]] \in ResultType
    <2> SUFFICES ASSUME NEW t \in Streams
                 PROVE  [result[e][t] EXCEPT !.peer = d[t]] \in ResultType
      OBVIOUS
    <2>1. result[e][t] \in ResultType /\ d[t] \in Nat
      BY <1>0 DEF Docs
    <2> QED
      BY <2>1 DEF ResultType
  <1> DEFINE new == [t \in Streams |-> [result[e][t] EXCEPT !.peer = d[t]]]
  <1>2. new \in [Streams -> ResultType]
    BY <1>1
  <1>3. result' = [result EXCEPT ![e] = new]
    BY DEF get_results
  <1>4. \A t \in Streams :
          /\ new[t].peer = d[t] /\ new[t].bytes = result[e][t].bytes
          /\ new[t].interval = result[e][t].interval /\ new[t].last = result[e][t].last
          /\ new[t].bytes_sent_omit = result[e][t].bytes_sent_omit
    <2> SUFFICES ASSUME NEW t \in Streams
                 PROVE  LET r == [result[e][t] EXCEPT !.peer = d[t]]
                        IN /\ r.peer = d[t] /\ r.bytes = result[e][t].bytes
                           /\ r.interval = result[e][t].interval /\ r.last = result[e][t].last
                           /\ r.bytes_sent_omit = result[e][t].bytes_sent_omit
      OBVIOUS
    <2>1. result[e][t] \in ResultType
      BY <1>0
    <2> QED
      BY <2>1 DEF ResultType
  <1> HIDE DEF new
  <1>5. result' \in [Ends -> [Streams -> ResultType]] /\ result'[e] = new
        /\ \A x \in Ends : x # e => result'[x] = result[x]
    BY <1>0, <1>2, <1>3
  <1> QED
    BY <1>4, <1>5

LEMMA ClientGetResults ==
  ASSUME TransferInv, client_get_results
  PROVE  TransferInv'
  <1> USE EndsAre
  <1>0. /\ Shapes /\ conf' = conf /\ Streams' = Streams /\ Answering /\ ServerSide
        /\ main["client"].pc = "results" /\ Go("client", "select") /\ Reply("client", <<>>)
        /\ UNCHANGED <<test, worker, summary, rate, reported, pending, disk, wire, open, nobufs>>
    BY SameConf, ToldWhen DEF TransferInv, client_get_results, WorkersIdle, sockets, counting, At
  <1>1. PICK d \in Docs : d = ctrl["client"][1].doc
    BY <1>0 DEF Answering
  <1>2. /\ ctrl["client"] = <<Results(d), Message("DISPLAY_RESULTS")>> /\ ctrl["server"] = <<>>
        /\ ~conf.omit => Answered(d)
    BY <1>0, <1>1 DEF Answering, Mail
  <1>3. get_results("client", d)
    <2>1. Head(ctrl["client"]).doc = d
      BY <1>2, Queues DEF Results
    <2> QED
      BY <2>1 DEF client_get_results
  <1>4. /\ result' \in [Ends -> [Streams -> ResultType]]
        /\ \A t \in Streams : result'["client"][t].peer = d[t]
        /\ \A x \in Ends, t \in Streams :
             /\ result'[x][t].bytes = result[x][t].bytes
             /\ result'[x][t].interval = result[x][t].interval
             /\ result'[x][t].last = result[x][t].last
             /\ result'[x][t].bytes_sent_omit = result[x][t].bytes_sent_omit
    BY <1>3, ResultsTaken
  <1>5. /\ main' \in [Ends -> MainType] /\ main'["client"].pc = "select"
        /\ \A x \in Ends : x # "client" => main'[x] = main[x]
    BY <1>0, MainGoes DEF MainPcs
  <1>6. /\ DOMAIN ctrl' = Ends /\ ctrl'["client"] = <<Message("DISPLAY_RESULTS")>>
        /\ ctrl'["server"] = <<>>
    <2>1. /\ DOMAIN ctrl' = Ends /\ ctrl'["client"] = Tail(ctrl["client"])
          /\ ctrl'["server"] = ctrl["server"] \o <<>>
      BY <1>0, Replied, OtherIs
    <2> QED
      BY ONLY <1>2, <2>1, Queues
  <1>7. Shapes'
    BY <1>0, <1>4, <1>5, <1>6, HandlesShapes DEF Shapes
  <1>8. Handles("client")
    BY <1>0, <1>4, <1>5 DEF Handles
  <1>9. Walk("client")' /\ \A t \in Streams : Due("client", t)' => Due("client", t)
    BY <1>0, <1>5 DEF Walk, Due, Answering, InState
  <1>10. ~conf.omit => Answered(Peers)'
    <2> SUFFICES ASSUME ~conf.omit PROVE Answered(Peers)'
      OBVIOUS
    <2>1. \A t \in Streams :
            /\ result'["client"][t].bytes >= result["client"][t].bytes
            /\ nobufs'[t] >= nobufs[t] /\ Arrived("client", t)' <= Arrived("client", t)
      BY <1>0, <1>4, <1>7, <1>8, HandlesArrived, Numbers
    <2>2. Answered(d)'
      BY <1>0, <1>2, <1>7, <2>1, AnswerStays
    <2>3. Peers' = d
      BY <1>0, <1>4 DEF Peers, Docs
    <2> QED
      BY <2>2, <2>3 DEF Answered
  <1>11. Displaying'
    BY <1>0, <1>5, <1>6, <1>10 DEF Answering, Displaying, InState, Places, Mail
  <1>12. ServerSide'
    BY <1>0, <1>5 DEF ServerSide
  <1> QED
    BY <1>0, <1>7, <1>8, <1>9, <1>11, <1>12, HandlesQuietly DEF Phase

LEMMA ClientJoin ==
  ASSUME TransferInv, client_join
  PROVE  TransferInv'
  <1> USE EndsAre
  <1>0. /\ Shapes /\ conf' = conf /\ Streams' = Streams /\ Phase /\ ServerSide
        /\ main["client"].pc = "join" /\ Go("client", "done") /\ Cancel("client", Streams)
        /\ UNCHANGED <<test, result, ctrl, summary, rate, reported, pending, disk, wire, open, nobufs>>
    BY SameConf DEF TransferInv, client_join, WorkersIdle, sockets, counting, At
  <1>1. /\ main' \in [Ends -> MainType] /\ main'["client"].pc = "done"
        /\ \A x \in Ends : x # "client" => main'[x] = main[x]
    BY <1>0, MainGoes DEF MainPcs
  <1>2. /\ worker' \in [Ends -> [Streams -> WorkerType]]
        /\ \A x \in Ends : x # "client" => worker'[x] = worker[x]
        /\ \A t \in Streams : worker'["client"][t] = worker["client"][t]
                              \/ worker'["client"][t].pc = "gone"
    BY <1>0, Cancelled
  <1>3. Finishing \/ Finished
    BY <1>0 DEF Phase, Starting, Running, Ending, Stopping, Asking, Telling, Answering,
       Displaying, Places, Busy
  <1>4. Shapes'
    BY <1>0, <1>1, <1>2, HandlesShapes DEF Shapes
  <1>5. Handles("client")
    BY <1>0, <1>1, <1>2 DEF Handles
  <1>6. Walk("client")' /\ \A t \in Streams : Due("client", t)' => Due("client", t)
    BY <1>0, <1>1 DEF Walk, Due
  <1>7. Phase'
    BY <1>0, <1>1, <1>3 DEF Phase, Finishing, Finished, InState, Places, Mail
  <1>8. ServerSide'
    BY <1>0, <1>1 DEF ServerSide
  <1> QED
    BY <1>0, <1>4, <1>5, <1>6, <1>7, <1>8, HandlesQuietly

LEMMA ServerTestEnd ==
  ASSUME TransferInv, server_test_end
  PROVE  TransferInv'
  <1> USE EndsAre
  <1>0. /\ Shapes /\ conf' = conf /\ Streams' = Streams /\ Ending /\ ServerSide
        /\ main["server"].pc = "select" /\ Stats("server", "test_end")
        /\ ctrl' = [ctrl EXCEPT !["server"] = Tail(@)]
        /\ UNCHANGED <<result, worker, summary, rate, reported, pending, disk, wire, open, nobufs>>
    BY SameConf, ToldWhen DEF TransferInv, server_test_end, WorkersIdle, sockets, counting, At
  <1>1. /\ test' \in [Ends -> TestType] /\ test'["server"].state = "TEST_END"
        /\ test'["server"].done = TRUE /\ test'["server"].omitting = test["server"].omitting
        /\ \A x \in Ends : x # "server" => test'[x] = test[x]
    <2>1. test' = [test EXCEPT !["server"].state = "TEST_END", !["server"].done = TRUE]
          /\ "TEST_END" \in TestStates
      BY DEF server_test_end, TestStates
    <2> QED
      BY <1>0, <2>1, StateMoves
  <1>2. /\ main' \in [Ends -> MainType] /\ main'["server"].pc = "read" /\ main'["server"].s = 1
        /\ main'["server"].then = "test_end" /\ \A x \in Ends : x # "server" => main'[x] = main[x]
    BY <1>0, StatsCalled
  <1>3. DOMAIN ctrl' = Ends /\ ctrl'["client"] = <<>> /\ ctrl'["server"] = <<>>
    <2>1. ctrl["client"] = <<>> /\ ctrl["server"] = <<Message("TEST_END")>>
      BY <1>0 DEF Ending, Mail
    <2>2. DOMAIN ctrl' = Ends /\ ctrl'["client"] = ctrl["client"]
          /\ ctrl'["server"] = Tail(ctrl["server"])
      BY <1>0 DEF Shapes
    <2> QED
      BY ONLY <2>1, <2>2, Queues
  <1>4. Shapes'
    BY <1>0, <1>1, <1>2, <1>3, HandlesShapes DEF Shapes
  <1>5. Handles("server")
    BY <1>0, <1>1, <1>2 DEF Handles
  <1>6. Streams = 1..NumStreams /\ NumStreams \in Nat \ {0}
    BY <1>0, ConfIs DEF Shapes
  <1>7. Walk("server")'
    BY <1>0, <1>2, <1>6 DEF Walk
  <1>8. \A t \in Streams : Due("server", t)' => Due("server", t)
    BY <1>2, <1>6 DEF Due
  <1>9. Stopping'
    BY <1>0, <1>1, <1>2, <1>3 DEF Ending, Stopping, InState, Places, Mail
  <1>10. ServerSide'
    BY <1>0, <1>1, <1>2 DEF ServerSide
  <1> QED
    BY <1>0, <1>4, <1>5, <1>7, <1>8, <1>9, <1>10, HandlesQuietly DEF Phase

\* The server tells its counts after its sockets were closed: they answer the client's.
LEMMA ServerAnswers ==
  ASSUME TransferInv, ~conf.omit, NEW d \in Docs, d = send_results("server")
  PROVE  Answered(d)
  <1> USE EndsAre
  <1> SUFFICES ASSUME NEW t \in Streams
               PROVE  IF Sends("client", t)
                      THEN d[t] <= result["client"][t].bytes + nobufs[t] + Block
                      ELSE Arrived("client", t) <= d[t] + nobufs[t] + Block
    BY DEF Answered
  <1>0. Shapes /\ conf \in Confs
    BY DEF TransferInv, Shapes
  <1>1. d[t] = result["server"][t].bytes
    BY ResultsSent
  <1>2. /\ Late("client", t) \in 0..Block /\ Late("server", t) \in 0..Block /\ Block \in Nat
    BY <1>0, Numbers DEF Late
  <1>3. /\ result["client"][t].bytes \in Nat /\ result["server"][t].bytes \in Nat
        /\ nobufs[t] \in Nat /\ wire[t] \in Nat /\ worker["server"][t].r \in Nat
        /\ Arrived("client", t) \in Nat /\ Arrived("server", t) \in Nat
    BY <1>0, Numbers
  <1>4. CASE Sends("client", t)
    <2>1. Arrived("server", t) <= result["client"][t].bytes + nobufs[t] + Late("client", t)
      BY <1>4 DEF TransferInv, Flows, Flow
    <2>2. result["server"][t].bytes <= Arrived("server", t)
      BY <1>3 DEF Arrived
    <2> QED
      BY <1>1, <1>2, <1>3, <1>4, <2>1, <2>2
  <1>5. CASE ~Sends("client", t)
    <2>1. Sends("server", t)
      BY <1>0, <1>5, OneSender
    <2>2. Arrived("client", t) <= result["server"][t].bytes + nobufs[t] + Late("server", t)
      BY <2>1 DEF TransferInv, Flows, Flow
    <2> QED
      BY <1>1, <1>2, <1>3, <1>5, <2>2
  <1> QED
    BY <1>4, <1>5

LEMMA ServerExchangeResults ==
  ASSUME TransferInv, server_exchange_results
  PROVE  TransferInv'
  <1> USE EndsAre
  <1>0. /\ Shapes /\ conf' = conf /\ Streams' = Streams /\ Telling /\ ServerSide
        /\ main["server"].pc = "results" /\ Go("server", "select")
        /\ Reply("server", <<Results(send_results("server")), Message("DISPLAY_RESULTS")>>)
        /\ UNCHANGED <<worker, summary, rate, reported, pending, disk, wire, open, nobufs>>
    BY SameConf, ToldWhen DEF TransferInv, server_exchange_results, WorkersIdle, sockets,
       counting, At
  <1>1. PICK c \in Docs : c = ctrl["server"][1].doc
    BY <1>0 DEF Telling
  <1>2. ctrl["server"] = <<Results(c)>> /\ ctrl["client"] = <<>>
    BY <1>0, <1>1 DEF Telling, Mail
  <1>3. get_results("server", c)
    <2>1. Head(ctrl["server"]).doc = c
      BY <1>2, Queues DEF Results
    <2> QED
      BY <2>1 DEF server_exchange_results
  <1>4. /\ result' \in [Ends -> [Streams -> ResultType]]
        /\ \A x \in Ends : x # "server" => result'[x] = result[x]
        /\ \A x \in Ends, t \in Streams :
             /\ result'[x][t].bytes = result[x][t].bytes
             /\ result'[x][t].interval = result[x][t].interval
             /\ result'[x][t].last = result[x][t].last
             /\ result'[x][t].bytes_sent_omit = result[x][t].bytes_sent_omit
    BY <1>3, ResultsTaken
  <1>5. /\ main' \in [Ends -> MainType] /\ main'["server"].pc = "select"
        /\ \A x \in Ends : x # "server" => main'[x] = main[x]
    BY <1>0, MainGoes DEF MainPcs
  <1>6. /\ test' \in [Ends -> TestType] /\ test'["server"].state = "DISPLAY_RESULTS"
        /\ test'["server"].done = test["server"].done
        /\ test'["server"].omitting = test["server"].omitting
        /\ \A x \in Ends : x # "server" => test'[x] = test[x]
    <2>1. test' = [test EXCEPT !["server"].state = "DISPLAY_RESULTS"]
          /\ "DISPLAY_RESULTS" \in TestStates
      BY DEF server_exchange_results, TestStates
    <2> QED
      BY <1>0, <2>1, DoneType, StateMoves
  <1>7. PICK d \in Docs : d = send_results("server")
    BY ResultsSent
  <1>8. /\ DOMAIN ctrl' = Ends /\ ctrl'["server"] = <<>>
        /\ ctrl'["client"] = <<Results(d), Message("DISPLAY_RESULTS")>>
    <2>1. /\ DOMAIN ctrl' = Ends /\ ctrl'["server"] = Tail(ctrl["server"])
          /\ ctrl'["client"] = ctrl["client"] \o <<Results(d), Message("DISPLAY_RESULTS")>>
      BY <1>0, <1>7, Replied, OtherIs
    <2> QED
      BY ONLY <1>2, <2>1, Queues
  <1>9. Shapes'
    BY <1>0, <1>4, <1>5, <1>6, <1>8, HandlesShapes DEF Shapes
  <1>10. Handles("server")
    BY <1>0, <1>4, <1>5, <1>6 DEF Handles
  <1>11. Walk("server")' /\ \A t \in Streams : Due("server", t)' => Due("server", t)
    BY <1>0, <1>5 DEF Walk, Due
  <1>12. ~conf.omit => Answered(d)'
    <2> SUFFICES ASSUME ~conf.omit PROVE Answered(d)'
      OBVIOUS
    <2>1. \A t \in Streams :
            /\ result'["client"][t].bytes >= result["client"][t].bytes
            /\ nobufs'[t] >= nobufs[t] /\ Arrived("client", t)' <= Arrived("client", t)
      BY <1>0, <1>4, <1>9, <1>10, HandlesArrived, Numbers
    <2>2. Answered(d)
      BY <1>7, ServerAnswers
    <2> QED
      BY <1>0, <1>9, <2>1, <2>2, AnswerStays
  <1>13. Answering'
    <2>1. ctrl'["client"][1].doc = d /\ d \in Docs'
      BY <1>0, <1>8 DEF Results, Docs
    <2>2. ~conf'.omit => Answered(ctrl["client"][1].doc)'
      BY <1>0, <1>12, <2>1 DEF Answered
    <2> QED
      BY <1>0, <1>5, <1>6, <1>8, <2>1, <2>2 DEF Telling, Answering, InState, Places, Mail, Idle
  <1>14. ServerSide'
    BY <1>0, <1>5, <1>6 DEF ServerSide, Telling, InState
  <1> QED
    BY <1>0, <1>9, <1>10, <1>11, <1>13, <1>14, HandlesQuietly DEF Phase

LEMMA ServerDone ==
  ASSUME TransferInv, server_done
  PROVE  TransferInv'
  <1> USE EndsAre
  <1>0. /\ Shapes /\ conf' = conf /\ Streams' = Streams /\ Finishing /\ ServerSide
        /\ main["server"].pc = "select" /\ Go("server", "done") /\ Cancel("server", Streams)
        /\ ctrl' = [ctrl EXCEPT !["server"] = Tail(@)]
        /\ UNCHANGED <<result, summary, rate, reported, pending, disk, wire, open, nobufs>>
    BY SameConf, ToldWhen DEF TransferInv, server_done, WorkersIdle, sockets, counting, At
  <1>1. /\ main' \in [Ends -> MainType] /\ main'["server"].pc = "done"
        /\ \A x \in Ends : x # "server" => main'[x] = main[x]
    BY <1>0, MainGoes DEF MainPcs
  <1>2. /\ test' \in [Ends -> TestType] /\ test'["server"].state = "IPERF_DONE"
        /\ test'["server"].done = test["server"].done
        /\ test'["server"].omitting = test["server"].omitting
        /\ \A x \in Ends : x # "server" => test'[x] = test[x]
    <2>1. test' = [test EXCEPT !["server"].state = "IPERF_DONE"] /\ "IPERF_DONE" \in TestStates
      BY DEF server_done, TestStates
    <2> QED
      BY <1>0, <2>1, DoneType, StateMoves
  <1>3. /\ worker' \in [Ends -> [Streams -> WorkerType]]
        /\ \A x \in Ends : x # "server" => worker'[x] = worker[x]
        /\ \A t \in Streams : worker'["server"][t] = worker["server"][t]
                              \/ worker'["server"][t].pc = "gone"
    BY <1>0, Cancelled
  <1>4. DOMAIN ctrl' = Ends /\ ctrl'["client"] = <<>> /\ ctrl'["server"] = <<>>
    <2>1. ctrl["client"] = <<>> /\ ctrl["server"] = <<Message("IPERF_DONE")>>
      BY <1>0 DEF Finishing, Mail
    <2>2. DOMAIN ctrl' = Ends /\ ctrl'["client"] = ctrl["client"]
          /\ ctrl'["server"] = Tail(ctrl["server"])
      BY <1>0 DEF Shapes
    <2> QED
      BY ONLY <2>1, <2>2, Queues
  <1>5. Shapes'
    BY <1>0, <1>1, <1>2, <1>3, <1>4, HandlesShapes DEF Shapes
  <1>6. Handles("server")
    BY <1>0, <1>1, <1>2, <1>3 DEF Handles
  <1>7. Walk("server")' /\ \A t \in Streams : Due("server", t)' => Due("server", t)
    BY <1>0, <1>1 DEF Walk, Due
  <1>8. Finished'
    BY <1>0, <1>1, <1>2, <1>4 DEF Finishing, Finished, InState, Places, Mail
  <1>9. ServerSide'
    BY <1>0, <1>1, <1>2 DEF ServerSide, Finishing, InState
  <1> QED
    BY <1>0, <1>5, <1>6, <1>7, <1>8, <1>9, HandlesQuietly DEF Phase

-----------------------------------------------------------------------------
(* Handlers that print, and ends that give up.                             *)

\* What is printed of a stream is what StreamSummary says of it.
LEMMA PrintedStreams ==
  ASSUME TransferInv, NEW e \in Ends, NEW p \in Range(iperf_print_results(e)),
         NEW t \in DOMAIN p.streams
  PROVE  /\ t \in Streams /\ p.streams[t] = StreamSummary(e, t)
         /\ p.streams[t].sent \in Int /\ p.streams[t].received \in Int
  <1>1. PICK i \in 1..Len(Passes(e)) : p = iperf_print_results(e)[i]
    BY DEF Range, iperf_print_results
  <1> DEFINE shown == {s \in Streams : Sends(e, s) = Passes(e)[i]}
  <1>2. p.streams = [s \in shown |-> StreamSummary(e, s)]
    BY <1>1 DEF iperf_print_results
  <1>3. t \in Streams /\ p.streams[t] = StreamSummary(e, t)
    BY <1>2
  <1>4. /\ result[e][t].bytes \in Nat /\ result[e][t].peer \in Nat
        /\ result[e][t].bytes_sent_omit \in Nat
    BY <1>3, Numbers DEF TransferInv
  <1>5. StreamSummary(e, t).sent \in Int /\ StreamSummary(e, t).received \in Int
    BY <1>4 DEF StreamSummary
  <1> QED
    BY <1>3, <1>5

LEMMA SummaryMoves ==
  ASSUME Shapes, NEW e \in Ends, NEW v,
         summary' = [summary EXCEPT ![e] = v]
  PROVE  /\ DOMAIN summary' = Ends /\ summary'[e] = v
         /\ \A x \in Ends : x # e => summary'[x] = summary[x]
  BY DEF Shapes

LEMMA ServerReport ==
  ASSUME TransferInv, server_report
  PROVE  TransferInv'
  <1> USE EndsAre
  <1>0. /\ Shapes /\ conf' = conf /\ Streams' = Streams /\ ServerSide /\ Phase
        /\ main["server"].pc = "test_end" /\ Go("server", "results") /\ open' = FALSE
        /\ ctrl' = [ctrl EXCEPT !["client"] = Append(@, Message("EXCHANGE_RESULTS"))]
        /\ iperf_print_intermediate("server")
        /\ summary' = [summary EXCEPT !["server"] = iperf_print_results("server")]
        /\ UNCHANGED <<result, worker, rate, pending, disk, wire, nobufs>>
    BY SameConf DEF TransferInv, server_report, iperf_reporter_callback, At
  <1>1. Stopping
    <2>1. test["server"].state = "TEST_END"
      BY <1>0, Where
    <2> QED
      BY <1>0, <2>1 DEF Phase, Starting, Running, Ending, Asking, Telling, Answering,
         Displaying, Finishing, Finished, InState
  <1>2. /\ main' \in [Ends -> MainType] /\ main'["server"].pc = "results"
        /\ \A x \in Ends : x # "server" => main'[x] = main[x]
    BY <1>0, MainGoes DEF MainPcs
  <1>3. /\ test' \in [Ends -> TestType] /\ test'["server"].state = "EXCHANGE_RESULTS"
        /\ test'["server"].done = test["server"].done
        /\ test'["server"].omitting = test["server"].omitting
        /\ \A x \in Ends : x # "server" => test'[x] = test[x]
    <2>1. test' = [test EXCEPT !["server"].state = "EXCHANGE_RESULTS"]
          /\ "EXCHANGE_RESULTS" \in TestStates
      BY DEF server_report, TestStates
    <2> QED
      BY <1>0, <2>1, DoneType, StateMoves
  <1>4. /\ DOMAIN ctrl' = Ends /\ ctrl'["client"] = <<Message("EXCHANGE_RESULTS")>>
        /\ ctrl'["server"] = <<>>
    <2>1. ctrl["client"] = <<>> /\ ctrl["server"] = <<>>
      BY <1>1 DEF Stopping, Mail
    <2>2. /\ DOMAIN ctrl' = Ends /\ ctrl'["server"] = ctrl["server"]
          /\ ctrl'["client"] = Append(ctrl["client"], Message("EXCHANGE_RESULTS"))
      BY <1>0 DEF Shapes
    <2> QED
      BY ONLY <2>1, <2>2, Queues
  <1>5. /\ reported' \in [Ends -> [Streams -> Nat]]
        /\ \A t \in Streams : reported'["server"][t] = reported["server"][t] + result["server"][t].last
        /\ \A x \in Ends : x # "server" => reported'[x] = reported[x]
    BY <1>0, Intermediate
  <1>6. DOMAIN summary' = Ends /\ summary'["client"] = summary["client"]
    BY <1>0, SummaryMoves
  <1>7. Shapes'
    BY <1>0, <1>2, <1>3, <1>4, <1>5, <1>6, HandlesShapes DEF Shapes
  <1>8. Handles("server")
    BY <1>0, <1>2, <1>3, <1>5 DEF Handles
  <1>9. Walk("server")'
    BY <1>2 DEF Walk
  <1>10. \A t \in Streams : Within("server", t)'
    <2>1. \A t \in Streams : Due("server", t) /\ ~Due("server", t)'
      BY <1>0, <1>2 DEF Due
    <2> QED
      BY <1>5, <1>7, <1>8, <2>1, WithinHandled
  <1>11. Stages' /\ Walks' /\ Omits' /\ Withins' /\ Flows'
    BY <1>7, <1>8, <1>9, <1>10, HandlesInv
  <1>12. Asking' /\ ServerSide'
    BY <1>0, <1>1, <1>2, <1>3, <1>4 DEF Stopping, Asking, InState, Places, Mail, ServerSide
  <1>13. Printed' /\ ReceivedWasSent'
    <2>1. Printed /\ ReceivedWasSent /\ main'["client"] = main["client"]
      BY <1>2 DEF TransferInv
    <2>2. \A t \in Streams : nobufs'[t] >= nobufs[t]
      BY <1>0, Numbers
    <2> QED
      BY <1>0, <1>6, <1>7, <2>1, <2>2, ReportStays
  <1> QED
    BY <1>7, <1>11, <1>12, <1>13 DEF TransferInv, Phase

\* The client prints what the server answered.
LEMMA ClientDisplayResults ==
  ASSUME TransferInv, client_display_results
  PROVE  TransferInv'
  <1> USE EndsAre
  <1>0. /\ Shapes /\ conf' = conf /\ Streams' = Streams /\ ServerSide /\ Displaying
        /\ main["client"].pc = "select" /\ Go("client", "join")
        /\ Reply("client", <<Message("IPERF_DONE")>>)
        /\ iperf_print_intermediate("client")
        /\ summary' = [summary EXCEPT !["client"] = iperf_print_results("client")]
        /\ UNCHANGED <<result, worker, rate, pending, disk, wire, nobufs, open>>
    BY SameConf, ToldWhen DEF TransferInv, client_display_results, iperf_reporter_callback, At,
       WorkersIdle, sockets
  <1>1. /\ main' \in [Ends -> MainType] /\ main'["client"].pc = "join"
        /\ \A x \in Ends : x # "client" => main'[x] = main[x]
    BY <1>0, MainGoes DEF MainPcs
  <1>2. /\ test' \in [Ends -> TestType] /\ test'["client"].state = "IPERF_DONE"
        /\ test'["client"].omitting = test["client"].omitting
        /\ \A x \in Ends : x # "client" => test'[x] = test[x]
    <2>1. test' = [test EXCEPT !["client"].state = "IPERF_DONE"] /\ "IPERF_DONE" \in TestStates
      BY DEF client_display_results, TestStates
    <2> QED
      BY <1>0, <2>1, DoneType, StateMoves
  <1>3. /\ DOMAIN ctrl' = Ends /\ ctrl'["client"] = <<>>
        /\ ctrl'["server"] = <<Message("IPERF_DONE")>>
    <2>1. ctrl["client"] = <<Message("DISPLAY_RESULTS")>> /\ ctrl["server"] = <<>>
      BY <1>0 DEF Displaying, Mail
    <2>2. /\ DOMAIN ctrl' = Ends /\ ctrl'["client"] = Tail(ctrl["client"])
          /\ ctrl'["server"] = ctrl["server"] \o <<Message("IPERF_DONE")>>
      BY <1>0, Replied, OtherIs
    <2> QED
      BY ONLY <2>1, <2>2, Queues
  <1>4. /\ reported' \in [Ends -> [Streams -> Nat]]
        /\ \A t \in Streams : reported'["client"][t] = reported["client"][t] + result["client"][t].last
        /\ \A x \in Ends : x # "client" => reported'[x] = reported[x]
    BY <1>0, Intermediate
  <1>5. DOMAIN summary' = Ends /\ summary'["client"] = iperf_print_results("client")
    BY <1>0, SummaryMoves
  <1>6. Shapes'
    BY <1>0, <1>1, <1>2, <1>3, <1>4, <1>5, HandlesShapes DEF Shapes
  <1>7. Handles("client")
    BY <1>0, <1>1, <1>2, <1>4 DEF Handles
  <1>8. Walk("client")'
    BY <1>1 DEF Walk
  <1>9. \A t \in Streams : Within("client", t)'
    <2>1. \A t \in Streams : Due("client", t) /\ ~Due("client", t)'
      BY <1>0, <1>1, <1>2 DEF Due, Displaying, InState
    <2> QED
      BY <1>4, <1>6, <1>7, <2>1, WithinHandled
  <1>10. Stages' /\ Walks' /\ Omits' /\ Withins' /\ Flows'
    BY <1>6, <1>7, <1>8, <1>9, HandlesInv
  <1>11. Finishing' /\ ServerSide'
    BY <1>0, <1>1, <1>2, <1>3 DEF Displaying, Finishing, InState, Places, Mail, ServerSide
  <1>12. Printed'
    BY <1>0, <1>5, PrintedStreams DEF Printed
  <1>13. ReceivedWasSent'
    <2> SUFFICES ASSUME ~conf.omit, NEW p \in Range(iperf_print_results("client")),
                        NEW t \in DOMAIN p.streams
                 PROVE  p.streams[t].received <= p.streams[t].sent + Block + nobufs[t]
      BY <1>0, <1>5 DEF ReceivedWasSent
    <2>1. t \in Streams /\ p.streams[t] = StreamSummary("client", t)
      BY PrintedStreams
    <2>2. /\ result["client"][t].bytes \in Nat /\ result["client"][t].peer \in Nat
          /\ nobufs[t] \in Nat /\ Block \in Nat /\ wire[t] \in Nat
          /\ worker["client"][t].r \in Nat /\ Arrived("client", t) \in Nat
      BY <1>0, <2>1, Numbers
    <2>3. result["client"][t].bytes_sent_omit = 0
      BY <2>1 DEF TransferInv, Omits
    <2>4. IF Sends("client", t)
          THEN result["client"][t].peer <= result["client"][t].bytes + nobufs[t] + Block
          ELSE Arrived("client", t) <= result["client"][t].peer + nobufs[t] + Block
      BY <1>0, <2>1 DEF Displaying, Answered, Peers
    <2>5. result["client"][t].bytes <= Arrived("client", t)
      BY <2>2 DEF Arrived
    <2>6. /\ p.streams[t].sent = IF Sends("client", t) THEN result["client"][t].bytes
                                 ELSE result["client"][t].peer
          /\ p.streams[t].received = IF Sends("client", t) THEN result["client"][t].peer
                                     ELSE result["client"][t].bytes
      BY <2>1, <2>2, <2>3 DEF StreamSummary
    <2> QED
      BY <2>2, <2>4, <2>5, <2>6
  <1> QED
    BY <1>6, <1>10, <1>11, <1>12, <1>13 DEF TransferInv, Phase

\* An end that gives up leaves the other one where it is.
LEMMA GivesUpInv ==
  ASSUME TransferInv, NEW e \in Ends, main[e].pc = "select", GivesUp(e),
         e = "client" => \/ Running
                         \/ Ending /\ main["server"].pc = "aborted"
  PROVE  TransferInv'
  <1> USE EndsAre
  <1>0. /\ Shapes /\ conf' = conf /\ Streams' = Streams /\ ServerSide /\ Phase
        /\ Cancel(e, Streams) /\ Go(e, "aborted") /\ open' = (open /\ e # "server")
        /\ UNCHANGED <<test, result, pending, disk, wire, ctrl, rate, nobufs>>
    BY SameConf DEF TransferInv, GivesUp
  <1>1. /\ main' \in [Ends -> MainType] /\ main'[e].pc = "aborted"
        /\ \A x \in Ends : x # e => main'[x] = main[x]
    BY <1>0, MainGoes DEF MainPcs
  <1>2. /\ worker' \in [Ends -> [Streams -> WorkerType]]
        /\ \A x \in Ends : x # e => worker'[x] = worker[x]
        /\ \A t \in Streams : worker'[e][t] = worker[e][t] \/ worker'[e][t].pc = "gone"
    BY <1>0, Cancelled
  <1>3. /\ DOMAIN summary' = Ends
        /\ \/ summary'["client"] = summary["client"]
           \/ e = "client" /\ summary'["client"] = iperf_print_results("client")
    <2>1. \/ summary' = summary
          \/ e = "client" /\ summary' = [summary EXCEPT !["client"] = iperf_print_results("client")]
      BY DEF GivesUp, iperf_reporter_callback
    <2>2. CASE summary' = summary
      <3>1. DOMAIN summary = Ends
        BY <1>0 DEF Shapes
      <3> QED
        BY <2>2, <3>1
    <2>3. CASE e = "client" /\ summary' = [summary EXCEPT !["client"] = iperf_print_results("client")]
      BY <1>0, <2>3, SummaryMoves
    <2> QED
      BY <2>1, <2>2, <2>3
  <1>4. /\ reported' \in [Ends -> [Streams -> Nat]]
        /\ \A x \in Ends : x # e => reported'[x] = reported[x]
    <2>1. reported' = reported \/ iperf_print_intermediate(e)
      BY DEF GivesUp, iperf_reporter_callback
    <2>2. CASE reported' = reported
      <3>1. reported \in [Ends -> [Streams -> Nat]]
        BY <1>0 DEF Shapes
      <3> QED
        BY <2>2, <3>1
    <2>3. CASE iperf_print_intermediate(e)
      BY <1>0, <2>3, Intermediate
    <2> QED
      BY <2>1, <2>2, <2>3
  <1>5. open' \in BOOLEAN /\ test' \in [Ends -> TestType] /\ DOMAIN ctrl' = Ends
        /\ result' \in [Ends -> [Streams -> ResultType]]
    BY <1>0 DEF Shapes
  <1>6. Shapes'
    BY <1>0, <1>1, <1>2, <1>3, <1>4, <1>5, HandlesShapes
  <1>7. Handles(e)
    BY <1>0, <1>1, <1>2, <1>4 DEF Handles
  <1>8. Walk(e)' /\ \A t \in Streams : Within(e, t)'
    BY <1>1 DEF Walk, Within
  <1>9. Stages' /\ Walks' /\ Omits' /\ Withins' /\ Flows'
    BY <1>6, <1>7, <1>8, HandlesInv
  <1>10. ServerSide'
    BY <1>0, <1>1 DEF ServerSide, Ends
  <1>11. Phase'
    <2> USE DEF InState, Places, Mail
    <2>1. CASE e = "client"
      BY <1>0, <1>1, <2>1 DEF Running, Ending, Phase, Busy
    <2>2. CASE e = "server"
      <3>1. main'["client"] = main["client"] /\ main'["server"].pc = "aborted"
            /\ worker'["client"] = worker["client"] /\ main["server"].pc = "select"
        BY <1>1, <1>2, <2>2
      <3>2. CASE Starting \/ Running \/ Ending \/ Finishing
        BY <1>0, <3>1, <3>2 DEF Starting, Running, Ending, Finishing, Phase, Busy, Idle
      <3>3. CASE Stopping \/ Asking \/ Telling \/ Finished
        BY <3>1, <3>3 DEF Stopping, Asking, Telling, Finished
      <3>4. CASE Answering \/ Displaying
        <4>1. \A t \in Streams : /\ result'["client"][t].peer = result["client"][t].peer
                                 /\ result'["client"][t].bytes >= result["client"][t].bytes
                                 /\ nobufs'[t] >= nobufs[t]
                                 /\ Arrived("client", t)' <= Arrived("client", t)
          BY <1>0, <1>6, <1>7, HandlesArrived, Numbers
        <4>2. Docs' = Docs
          BY <1>0 DEF Docs
        <4>3. CASE Answering
          <5>1. ctrl["client"][1].doc \in Docs /\ (~conf.omit => Answered(ctrl["client"][1].doc)')
            BY <1>0, <1>6, <4>1, <4>3, AnswersStay DEF Answering
          <5>2. Answering'
            BY <1>0, <3>1, <4>2, <4>3, <5>1 DEF Answering, Idle
          <5> QED
            BY <5>2 DEF Phase
        <4>4. CASE Displaying
          <5>1. ~conf.omit => Answered(Peers)'
            BY <1>0, <1>6, <4>1, <4>4, AnswersStay DEF Displaying
          <5>2. Displaying'
            BY <1>0, <3>1, <4>4, <5>1 DEF Displaying, Idle
          <5> QED
            BY <5>2 DEF Phase
        <4> QED
          BY <3>4, <4>3, <4>4
      <3> QED
        BY <1>0, <3>2, <3>3, <3>4 DEF Phase
    <2> QED
      BY <2>1, <2>2 DEF Ends
  <1>12. Printed' /\ ReceivedWasSent'
    <2>1. CASE summary'["client"] = summary["client"]
      <3>1. Printed /\ ReceivedWasSent
        BY DEF TransferInv
      <3>2. main["client"].pc = "aborted" => main'["client"].pc = "aborted"
        BY <1>1
      <3>3. \A t \in Streams : nobufs'[t] >= nobufs[t]
        BY <1>0, Numbers
      <3> QED
        BY <1>0, <1>6, <2>1, <3>1, <3>2, <3>3, ReportStays
    <2>2. CASE e = "client" /\ summary'["client"] = iperf_print_results("client")
      <3>1. Printed'
        BY <1>0, <2>2, PrintedStreams DEF Printed
      <3>2. ReceivedWasSent'
        BY <1>1, <2>2 DEF ReceivedWasSent
      <3> QED
        BY <3>1, <3>2
    <2> QED
      BY <1>3, <2>1, <2>2
  <1> QED
    BY <1>6, <1>9, <1>10, <1>11, <1>12 DEF TransferInv

LEMMA CtrlClosed ==
  ASSUME TransferInv, NEW e \in Ends, ctrl_closed(e)
  PROVE  TransferInv'
  <1>0. main[e].pc = "select" /\ ctrl[e] = <<>> /\ main[Other(e)].pc = "aborted" /\ GivesUp(e)
    BY DEF ctrl_closed, At
  <1>1. ASSUME e = "client" PROVE Running \/ (Ending /\ main["server"].pc = "aborted")
    <2>1. main["client"].pc = "select" /\ main["server"].pc = "aborted" /\ ctrl["client"] = <<>>
      BY <1>0, <1>1, OtherIs
    <2>2. ~Starting /\ ~Displaying
      BY <2>1, Queues DEF Starting, Displaying, Mail
    <2> QED
      BY <2>1, <2>2 DEF TransferInv, Phase, Stopping, Asking, Telling, Answering, Finishing,
         Finished, Places
  <1> QED
    BY <1>0, <1>1, GivesUpInv

\* Nothing moves: the test is running at both ends.
LEMMA QuietRuns ==
  ASSUME TransferInv, Quiet
  PROVE  /\ Running /\ main["client"].pc = "select" /\ main["server"].pc = "select"
         /\ test["client"].state = "TEST_RUNNING"
  BY Where DEF Quiet, At, Ends

LEMMA ClientTimeout ==
  ASSUME TransferInv, client_rcv_timeout
  PROVE  TransferInv'
  <1>0. /\ Running /\ main["client"].pc = "select" /\ test["client"].state = "TEST_RUNNING"
    BY QuietRuns DEF client_rcv_timeout
  <1>1. CASE TestDone
    <2>1. /\ Go("client", "check") /\ UNCHANGED <<test, result, worker, ctrl, summary, counting>>
          /\ WorkersIdle
      BY <1>1 DEF client_rcv_timeout
    <2>2. test' \in [Ends -> TestType]
      BY <2>1 DEF TransferInv, Shapes
    <2> QED
      BY <1>0, <2>1, <2>2, ClientGoes
  <1>2. CASE ~TestDone
    BY <1>0, <1>2, GivesUpInv, EndsAre DEF client_rcv_timeout
  <1> QED
    BY <1>1, <1>2

LEMMA ServerGivesUp ==
  ASSUME TransferInv, server_total_rate \/ server_rcv_timeout
  PROVE  TransferInv'
  <1>1. GivesUp("server") /\ main["server"].pc = "select"
    BY QuietRuns DEF server_total_rate, server_rcv_timeout, At
  <1> QED
    BY <1>1, GivesUpInv, EndsAre

-----------------------------------------------------------------------------
(* The invariant.                                                          *)

LEMMA NextInv == TransferInv /\ [Next]_vars => TransferInv'
  <1> SUFFICES ASSUME TransferInv, [Next]_vars PROVE TransferInv'
    OBVIOUS
  <1>1. ASSUME NEW e \in Ends, NEW s \in AllStreams, WorkerStep(e, s) PROVE TransferInv'
    BY <1>1, WorkerInv
  <1>2. ASSUME NEW e \in Ends, MainStep(e) PROVE TransferInv'
    BY <1>2, StatsReads, StatsZero, ReporterTimer, ResetOmit, ResetInterval, ClientCheckDone,
       ClientTestEnd, ClientJoin, ServerReport DEF MainStep
  <1>3. CASE ClientSelect
    BY <1>3, ClientTestRunning, ClientExchangeResults, ClientGetResults, ClientDisplayResults,
       CtrlClosed, EndsAre DEF ClientSelect
  <1>4. CASE ServerSelect
    BY <1>4, ServerGivesUp, ServerTestEnd, ServerExchangeResults, ServerDone, CtrlClosed, EndsAre
       DEF ServerSelect
  <1>5. CASE client_rcv_timeout
    BY <1>5, ClientTimeout
  <1>6. CASE Timer
    BY <1>6, TestTimer, StatsTimer, OmitTimer DEF Timer
  <1>7. CASE UNCHANGED vars
    <2> USE <1>7 DEF vars
    <2>1. Shapes' /\ Stages' /\ Walks' /\ Omits'
      BY DEF TransferInv, Shapes, Stages, Stage, Walks, Walk, Omits, Streams, Sends, Unsent
    <2>2. Shapes /\ Shapes' /\ Phase /\ Streams' = Streams /\ Docs' = Docs
      BY <2>1 DEF TransferInv, Streams, Docs
    <2>3. Phase'
      <3> USE DEF InState, Places, Mail
      <3>1. CASE Starting \/ Running \/ Ending \/ Stopping \/ Asking \/ Finishing \/ Finished
        BY <2>2, <3>1 DEF Phase, Starting, Running, Ending, Stopping, Asking, Finishing, Finished
      <3>2. CASE Telling
        BY <2>2, <3>2 DEF Telling, Phase
      <3>3. \A t \in Streams : /\ result'["client"][t].peer = result["client"][t].peer
                               /\ result'["client"][t].bytes >= result["client"][t].bytes
                               /\ nobufs'[t] >= nobufs[t]
                               /\ Arrived("client", t)' <= Arrived("client", t)
        <4>1. \A t \in Streams : Arrived("client", t)' = Arrived("client", t)
          BY DEF Arrived
        <4> QED
          BY <2>2, <4>1, Numbers DEF Ends
      <3>4. CASE Answering
        <4>1. ctrl["client"][1].doc \in Docs /\ (~conf.omit => Answered(ctrl["client"][1].doc)')
          BY <2>2, <3>3, <3>4, AnswersStay DEF Answering
        <4>2. Answering'
          BY <2>2, <3>4, <4>1 DEF Answering
        <4> QED
          BY <4>2 DEF Phase
      <3>5. CASE Displaying
        <4>1. ~conf.omit => Answered(Peers)'
          BY <2>2, <3>3, <3>5, AnswersStay DEF Displaying
        <4>2. Displaying'
          BY <2>2, <3>5, <4>1 DEF Displaying
        <4> QED
          BY <4>2 DEF Phase
      <3> QED
        BY <2>2, <3>1, <3>2, <3>4, <3>5 DEF Phase
    <2>4. ServerSide' /\ Printed' /\ ReceivedWasSent'
      BY DEF TransferInv, ServerSide, Printed, ReceivedWasSent, Streams
    <2>5. Withins' /\ Flows'
      BY DEF TransferInv, Withins, Within, Flows, Flow, Due, Counted, Arrived, Late, Streams, Sends
    <2> QED
      BY <2>1, <2>3, <2>4, <2>5 DEF TransferInv
  <1> QED
    BY <1>1, <1>2, <1>3, <1>4, <1>5, <1>6, <1>7 DEF Next

\* The invariant of the data phase: the phases of the test with the messages on their
\* way, the place of every thread, what is due to be printed, and the bytes between the
\* counters of the two ends.
THEOREM TransferInvariant == Spec => []TransferInv
  BY InitInv, NextInv, PTL DEF Spec

LEMMA InvTypeOK == TransferInv => TypeOK
  <1> SUFFICES ASSUME TransferInv PROVE TypeOK
    OBVIOUS
  <1>0. Shapes /\ conf \in Confs
    BY DEF TransferInv, Shapes
  <1>1. ASSUME NEW e \in Ends
        PROVE  /\ test[e].done \in BOOLEAN /\ test[e].omitting \in BOOLEAN
               /\ test[e].bytes_sent \in Nat /\ test[e].bytes_received \in Nat
    <2>1. test[e] \in TestType
      BY <1>0 DEF Shapes
    <2> QED
      BY <2>1 DEF TestType
  <1>2. ASSUME NEW e \in Ends, NEW s \in Streams
        PROVE  /\ {result[e][s].bytes, result[e][s].interval, result[e][s].peer} \subseteq Nat
               /\ Sends(e, s) => result[e][s].bytes_sent_omit <= result[e][s].bytes
               /\ worker[e][s].pc \in ThreadPcs /\ worker[e][s].r \in 0..Block
               /\ pending[s] \in 0..Block /\ wire[s] \in 0..SocketSize
    <2>1. Sends(e, s) => result[e][s].bytes_sent_omit <= result[e][s].bytes
      BY DEF TransferInv, Omits
    <2> QED
      BY <1>0, <2>1, Numbers
  <1>3. rate.bytes \in [0..Window - 1 -> Nat] /\ rate.index \in 0..Window - 1
    BY <1>0 DEF Shapes
  <1> QED
    BY <1>0, <1>1, <1>2, <1>3, EndsAre DEF TypeOK

\* Type correctness: no counter becomes negative, whatever is cleared, cancelled or
\* sent again.
THEOREM TransferTypes == Spec => []TypeOK
  BY TransferInvariant, InvTypeOK, PTL

LEMMA InvIntervals == TransferInv => IntervalsWithinTotals
  <1> SUFFICES ASSUME TransferInv, NEW e \in Ends, NEW s \in Streams,
                      main[e].pc \notin {"omit", "clear", "aborted"}
               PROVE  reported[e][s] + result[e][s].interval
                        <= Counted(e, s) + (IF conf.omit THEN Block ELSE 0)
    BY DEF IntervalsWithinTotals
  <1>1. Within(e, s) /\ Shapes
    BY DEF TransferInv, Withins
  <1> DEFINE o == IF conf.omit THEN Block ELSE 0
             d == IF Due(e, s) THEN result[e][s].last ELSE 0
             k == IF worker[e][s].pc = "interval" THEN worker[e][s].r ELSE 0
  <1>2. reported[e][s] + result[e][s].interval + d + k <= Counted(e, s) + o
    BY <1>1 DEF Within
  <1>3. o \in Nat /\ d \in Nat /\ k \in Nat /\ Counted(e, s) \in Int
        /\ reported[e][s] \in Nat /\ result[e][s].interval \in Nat
    BY <1>1, Numbers DEF Counted
  <1> HIDE DEF o, d, k
  <1>4. reported[e][s] + result[e][s].interval <= Counted(e, s) + o
    BY <1>2, <1>3
  <1> QED
    BY <1>4 DEF o

\* No interval is printed twice: the workers and iperf_stats_callback share the counters
\* without a lock, and what is lost between its read and its reset never comes back.
THEOREM IntervalsFit == Spec => []IntervalsWithinTotals
  BY TransferInvariant, InvIntervals, PTL

\* The summary a client prints after the exchange of results never shows more bytes
\* received than were sent, but for the block of a cancelled thread and ENOBUFS.
THEOREM ReceivedIsSent == Spec => []ReceivedWasSent
  <1>1. TransferInv => ReceivedWasSent
    BY DEF TransferInv
  <1> QED
    BY <1>1, TransferInvariant, PTL

-----------------------------------------------------------------------------
(* Induction over sets of natural numbers, and sums.                       *)

\* A set that holds 0 and with every number the next one holds them all.
LEMMA Induction ==
  ASSUME NEW S \in SUBSET Nat, 0 \in S, \A n \in S : n + 1 \in S
  PROVE  S = Nat
<1> SUFFICES ASSUME S # Nat PROVE FALSE
  OBVIOUS
<1> DEFINE T == Nat \ S
<1>1. T \subseteq Nat /\ T # {}
  OBVIOUS
<1>2. PICK x \in T : \A y \in T : ~(<<y, x>> \in OpToRel(<, Nat))
  BY <1>1, NatLessThanWellFounded, WFMin
<1>3. \A y \in T : ~(y < x)
  BY <1>1, <1>2 DEF OpToRel
<1>4. x \in Nat /\ x # 0 /\ x - 1 \in Nat /\ x - 1 < x /\ (x - 1) + 1 = x
  <2>1. x \in Nat /\ x \notin S
    BY <1>2
  <2>2. x # 0
    BY <2>1
  <2> HIDE DEF T
  <2> QED
    BY <2>1, <2>2
<1>5. x - 1 \in S
  BY <1>3, <1>4
<1> QED
  BY <1>2, <1>4, <1>5

\* What SumFunctionOnSet computes: the elements are taken out one by one.
Pick(s) == CHOOSE x \in s : TRUE
Adds(g, f, S) == \A s \in SUBSET S : g[s] = IF s = {} THEN 0 ELSE f[Pick(s)] + g[s \ {Pick(s)}]
IsSum(g, f, D) == g = [s \in D |-> IF s = {} THEN 0 ELSE f[Pick(s)] + g[s \ {Pick(s)}]]
TheSum(f, S) == CHOOSE g : IsSum(g, f, SUBSET S)

LEMMA SumIs ==
  ASSUME NEW f, NEW S
  PROVE  SumFunctionOnSet(f, S) = TheSum(f, S)[S]
BY DEF SumFunctionOnSet, FoldFunctionOnSet, MapThenFoldSet, TheSum, IsSum, Pick

LEMMA PickIn ==
  ASSUME NEW s, s # {}
  PROVE  Pick(s) \in s
BY DEF Pick

\* The subsets of at most n elements.
Small(S, n) == {s \in SUBSET S : Cardinality(s) <= n}

\* One element less.
LEMMA OneLess ==
  ASSUME NEW S, IsFiniteSet(S), NEW s \in SUBSET S, s # {}
  PROVE  /\ Cardinality(s) \in Nat \ {0}
         /\ s \ {Pick(s)} \in SUBSET S
         /\ Cardinality(s \ {Pick(s)}) = Cardinality(s) - 1
<1>1. IsFiniteSet(s)
  BY FS_Subset
<1>2. Cardinality(s) \in Nat /\ Cardinality(s) # 0
  BY <1>1, FS_CardinalityType, FS_EmptySet
<1> QED
  BY <1>1, <1>2, PickIn, FS_RemoveElement

LEMMA SumExists ==
  ASSUME NEW f, NEW S, IsFiniteSet(S)
  PROVE  \E g : IsSum(g, f, SUBSET S)
<1> DEFINE N == {n \in Nat : \E g : IsSum(g, f, Small(S, n))}
<1>1. 0 \in N
  <2> DEFINE g == [s \in Small(S, 0) |-> 0]
  <2>1. ASSUME NEW s \in Small(S, 0) PROVE s = {}
    <3>1. s \in SUBSET S /\ Cardinality(s) <= 0
      BY DEF Small
    <3>2. s # {} => Cardinality(s) \in Nat \ {0}
      BY <3>1, OneLess
    <3> QED
      BY <3>1, <3>2
  <2>2. g = [s \in Small(S, 0) |-> IF s = {} THEN 0 ELSE f[Pick(s)] + g[s \ {Pick(s)}]]
    BY <2>1
  <2>3. IsSum(g, f, Small(S, 0))
    BY <2>2 DEF IsSum
  <2> QED
    BY <2>3
<1>2. ASSUME NEW n \in N PROVE n + 1 \in N
  <2>1. PICK h : IsSum(h, f, Small(S, n))
    OBVIOUS
  <2> DEFINE g == [s \in Small(S, n + 1) |-> IF s = {} THEN 0 ELSE f[Pick(s)] + h[s \ {Pick(s)}]]
  <2>2. ASSUME NEW s \in Small(S, n + 1), s # {}
        PROVE  g[s \ {Pick(s)}] = h[s \ {Pick(s)}]
    <3>1. /\ s \ {Pick(s)} \in Small(S, n)
          /\ s \ {Pick(s)} \in Small(S, n + 1)
      <4>1. s \in SUBSET S /\ Cardinality(s) <= n + 1
        BY DEF Small
      <4>2. /\ Cardinality(s) \in Nat \ {0}
            /\ s \ {Pick(s)} \in SUBSET S
            /\ Cardinality(s \ {Pick(s)}) = Cardinality(s) - 1
        BY <2>2, <4>1, OneLess
      <4>3. Cardinality(s) - 1 <= n /\ Cardinality(s) - 1 <= n + 1
        BY <4>1, <4>2
      <4> QED
        BY <4>2, <4>3 DEF Small
    <3>2. \A u \in Small(S, n) : h[u] = IF u = {} THEN 0 ELSE f[Pick(u)] + h[u \ {Pick(u)}]
      BY <2>1 DEF IsSum
    <3>3. \A u \in Small(S, n + 1) : g[u] = IF u = {} THEN 0 ELSE f[Pick(u)] + h[u \ {Pick(u)}]
      OBVIOUS
    <3> HIDE DEF g
    <3> QED
      BY <3>1, <3>2, <3>3
  <2>3. g = [s \in Small(S, n + 1) |-> IF s = {} THEN 0 ELSE f[Pick(s)] + g[s \ {Pick(s)}]]
    BY <2>2
  <2>4. IsSum(g, f, Small(S, n + 1))
    BY <2>3 DEF IsSum
  <2> HIDE DEF g
  <2> QED
    BY <2>4
<1>3. N = Nat
  <2>1. N \in SUBSET Nat
    OBVIOUS
  <2> HIDE DEF N
  <2> QED
    BY <1>1, <1>2, <2>1, Induction
<1>4. Cardinality(S) \in Nat
  BY FS_CardinalityType
<1>5. Small(S, Cardinality(S)) = SUBSET S
  BY FS_Subset DEF Small
<1>6. Cardinality(S) \in N
  BY <1>3, <1>4
<1> QED
  BY <1>5, <1>6

\* The sum of a set does not depend on the set it is taken out of.
LEMMA SumUnique ==
  ASSUME NEW f, NEW S, IsFiniteSet(S), NEW g, Adds(g, f, S), NEW T \in SUBSET S,
         NEW h, Adds(h, f, T)
  PROVE  \A u \in SUBSET T : g[u] = h[u]
<1> DEFINE N == {n \in Nat : \A u \in SUBSET T : Cardinality(u) = n => g[u] = h[u]}
<1>1. /\ \A u \in SUBSET S : g[u] = IF u = {} THEN 0 ELSE f[Pick(u)] + g[u \ {Pick(u)}]
      /\ \A u \in SUBSET T : h[u] = IF u = {} THEN 0 ELSE f[Pick(u)] + h[u \ {Pick(u)}]
  BY DEF Adds
<1>2. IsFiniteSet(T) /\ SUBSET T \subseteq SUBSET S
  BY FS_Subset
<1>3. 0 \in N
  <2>1. ASSUME NEW u \in SUBSET T, Cardinality(u) = 0 PROVE u = {}
    BY <1>2, <2>1, OneLess
  <2> QED
    BY <1>1, <1>2, <2>1
<1>4. ASSUME NEW n \in N PROVE n + 1 \in N
  <2>1. ASSUME NEW u \in SUBSET T, Cardinality(u) = n + 1 PROVE g[u] = h[u]
    <3>1. u # {}
      <4>1. n \in Nat /\ n + 1 # 0
        OBVIOUS
      <4> QED
        BY <2>1, <4>1, FS_EmptySet
    <3>2. u \ {Pick(u)} \in SUBSET T /\ Cardinality(u \ {Pick(u)}) = n
      BY <1>2, <2>1, <3>1, OneLess
    <3>3. g[u \ {Pick(u)}] = h[u \ {Pick(u)}]
      BY <3>2
    <3> QED
      BY <1>1, <1>2, <3>1, <3>3
  <2> QED
    BY <2>1
<1>5. N = Nat
  <2>1. N \in SUBSET Nat
    OBVIOUS
  <2> HIDE DEF N
  <2> QED
    BY <1>3, <1>4, <2>1, Induction
<1>6. ASSUME NEW u \in SUBSET T PROVE Cardinality(u) \in Nat
  BY <1>2, FS_Subset, FS_CardinalityType
<1> QED
  BY <1>5, <1>6

\* The equation of the sum.
LEMMA SumEquation ==
  ASSUME NEW f, NEW S, IsFiniteSet(S)
  PROVE  /\ S = {} => SumFunctionOnSet(f, S) = 0
         /\ S # {} => SumFunctionOnSet(f, S) = f[Pick(S)] + SumFunctionOnSet(f, S \ {Pick(S)})
<1> DEFINE g == TheSum(f, S)
           T == S \ {Pick(S)}
           h == TheSum(f, T)
<1>1. IsSum(g, f, SUBSET S)
  BY SumExists DEF TheSum
<1>2. \A u \in SUBSET S : g[u] = IF u = {} THEN 0 ELSE f[Pick(u)] + g[u \ {Pick(u)}]
  BY <1>1 DEF IsSum
<1>3. T \in SUBSET S /\ IsFiniteSet(T)
  BY FS_RemoveElement
<1>4. IsSum(h, f, SUBSET T)
  BY <1>3, SumExists DEF TheSum
<1>5. g[T] = h[T]
  <2> HIDE DEF g, h, T
  <2>1. Adds(g, f, S) /\ Adds(h, f, T)
    BY <1>1, <1>4 DEF IsSum, Adds
  <2>2. \A u \in SUBSET T : g[u] = h[u]
    BY <1>3, <2>1, SumUnique
  <2> QED
    BY <2>2
<1>6. SumFunctionOnSet(f, S) = g[S] /\ SumFunctionOnSet(f, T) = h[T]
  BY SumIs
<1> HIDE DEF g, h
<1> QED
  BY <1>2, <1>5, <1>6

\* Induction over the subsets of a finite set by their size.
LEMMA BySize ==
  ASSUME NEW S, IsFiniteSet(S), NEW N \in SUBSET (SUBSET S), {} \in N,
         \A T \in SUBSET S : T # {} => \E x \in T : (T \ {x} \in N => T \in N)
  PROVE  N = SUBSET S
<1> DEFINE M == {n \in Nat : \A T \in SUBSET S : Cardinality(T) = n => T \in N}
<1>1. ASSUME NEW T \in SUBSET S
      PROVE  /\ IsFiniteSet(T) /\ Cardinality(T) \in Nat
             /\ Cardinality(T) = 0 => T = {}
  BY FS_Subset, FS_CardinalityType, FS_EmptySet
<1>2. 0 \in M
  BY <1>1
<1>3. ASSUME NEW n \in M PROVE n + 1 \in M
  <2>1. ASSUME NEW T \in SUBSET S, Cardinality(T) = n + 1 PROVE T \in N
    <3>1. n \in Nat /\ n + 1 # 0 /\ T # {}
      <4>1. n \in Nat /\ n + 1 # 0
        OBVIOUS
      <4> QED
        BY <2>1, <4>1, FS_EmptySet
    <3>2. PICK x \in T : T \ {x} \in N => T \in N
      BY <3>1
    <3>3. Cardinality(T \ {x}) = n /\ T \ {x} \in SUBSET S
      <4>1. IsFiniteSet(T)
        BY <1>1
      <4>2. Cardinality(T \ {x}) = Cardinality(T) - 1
        BY <4>1, FS_RemoveElement
      <4> QED
        BY <2>1, <3>1, <4>2
    <3> QED
      BY <3>2, <3>3
  <2> QED
    BY <2>1
<1>4. M = Nat
  <2>1. M \in SUBSET Nat
    OBVIOUS
  <2> HIDE DEF M
  <2> QED
    BY <1>2, <1>3, <2>1, Induction
<1>5. ASSUME NEW T \in SUBSET S PROVE T \in N
  <2>1. Cardinality(T) \in M
    BY <1>1, <1>4
  <2> QED
    BY <2>1
<1> QED
  BY <1>5

\* A sum of integers is an integer.
LEMMA SumIsInt ==
  ASSUME NEW f, NEW S, IsFiniteSet(S), \A x \in S : f[x] \in Int
  PROVE  \A T \in SUBSET S : SumFunctionOnSet(f, T) \in Int
<1> DEFINE N == {T \in SUBSET S : SumFunctionOnSet(f, T) \in Int}
<1>1. {} \in N
  <2>1. IsFiniteSet({})
    BY FS_EmptySet
  <2>2. SumFunctionOnSet(f, {}) = 0
    BY <2>1, SumEquation
  <2> QED
    BY <2>2
<1>2. ASSUME NEW T \in SUBSET S, T # {} PROVE T \ {Pick(T)} \in N => T \in N
  <2>1. IsFiniteSet(T) /\ Pick(T) \in T
    BY <1>2, FS_Subset, PickIn
  <2>2. SumFunctionOnSet(f, T) = f[Pick(T)] + SumFunctionOnSet(f, T \ {Pick(T)})
    BY <1>2, <2>1, SumEquation
  <2> QED
    BY <2>1, <2>2
<1>3. \A T \in SUBSET S : T # {} => \E x \in T : (T \ {x} \in N => T \in N)
  <2> HIDE DEF N
  <2> QED
    BY <1>2, PickIn
<1>4. N = SUBSET S
  <2>1. N \in SUBSET (SUBSET S)
    OBVIOUS
  <2> HIDE DEF N
  <2> QED
    BY <1>1, <1>3, <2>1, BySize
<1> QED
  BY <1>4

\* Any element may be taken out first.
LEMMA SumRemoves ==
  ASSUME NEW f, NEW S, IsFiniteSet(S), \A x \in S : f[x] \in Int
  PROVE  \A T \in SUBSET S : \A x \in T :
           SumFunctionOnSet(f, T) = f[x] + SumFunctionOnSet(f, T \ {x})
<1> DEFINE F(T) == SumFunctionOnSet(f, T)
           M == {n \in Nat : \A T \in SUBSET S : Cardinality(T) = n =>
                              \A x \in T : F(T) = f[x] + F(T \ {x})}
<1>1. ASSUME NEW T \in SUBSET S
      PROVE  /\ IsFiniteSet(T) /\ Cardinality(T) \in Nat /\ F(T) \in Int
             /\ Cardinality(T) = 0 => T = {}
             /\ \A x \in T : Cardinality(T \ {x}) = Cardinality(T) - 1
  BY FS_Subset, FS_CardinalityType, FS_EmptySet, FS_RemoveElement, SumIsInt
<1>2. 0 \in M
  BY <1>1
<1>3. ASSUME NEW n \in M PROVE n + 1 \in M
  <2>1. ASSUME NEW T \in SUBSET S, Cardinality(T) = n + 1, NEW x \in T
        PROVE  F(T) = f[x] + F(T \ {x})
    <3> DEFINE p == Pick(T)
    <3>1. p \in T
      BY PickIn
    <3>2. F(T) = f[p] + F(T \ {p})
      BY <1>1, SumEquation
    <3>3. CASE x = p
      BY <3>2, <3>3
    <3>4. CASE x # p
      <4> DEFINE V == T \ {p, x}
      <4>1. /\ T \ {p} \in SUBSET S /\ x \in T \ {p} /\ (T \ {p}) \ {x} = V
            /\ T \ {x} \in SUBSET S /\ p \in T \ {x} /\ (T \ {x}) \ {p} = V
            /\ V \in SUBSET S
        BY <3>1, <3>4
      <4>2. n \in Nat /\ Cardinality(T \ {p}) = n /\ Cardinality(T \ {x}) = n
        <5>1. n \in Nat
          OBVIOUS
        <5>2. /\ Cardinality(T \ {p}) = Cardinality(T) - 1
              /\ Cardinality(T \ {x}) = Cardinality(T) - 1
          BY <1>1, <3>1
        <5> HIDE DEF F, V, p, M
        <5> QED
          BY <2>1, <5>1, <5>2
      <4>3. \A U \in SUBSET S : Cardinality(U) = n => \A y \in U : F(U) = f[y] + F(U \ {y})
        OBVIOUS
      <4>4. F(T \ {p}) = f[x] + F(V)
        BY <4>1, <4>2, <4>3
      <4>5. F(T \ {x}) = f[p] + F(V)
        BY <4>1, <4>2, <4>3
      <4>6. f[p] \in Int /\ f[x] \in Int /\ F(V) \in Int
        BY <1>1, <3>1, <4>1
      <4> HIDE DEF F, V, p, M
      <4> QED
        BY <3>2, <4>4, <4>5, <4>6
    <3> QED
      BY <3>3, <3>4
  <2> QED
    BY <2>1
<1>4. M = Nat
  <2>1. M \in SUBSET Nat
    OBVIOUS
  <2> HIDE DEF M
  <2> QED
    BY <1>2, <1>3, <2>1, Induction
<1>5. ASSUME NEW T \in SUBSET S PROVE \A x \in T : F(T) = f[x] + F(T \ {x})
  <2>1. Cardinality(T) \in M
    BY <1>1, <1>4
  <2> QED
    BY <2>1
<1> QED
  BY <1>5

\* Terms that differ by at most b.
LEMMA SumNear ==
  ASSUME NEW f, NEW g, NEW b \in Nat, NEW S, IsFiniteSet(S),
         \A x \in S : /\ f[x] \in Int /\ g[x] \in Int
                       /\ f[x] <= g[x] /\ g[x] <= f[x] + b
  PROVE  /\ SumFunctionOnSet(f, S) <= SumFunctionOnSet(g, S)
         /\ SumFunctionOnSet(g, S) <= SumFunctionOnSet(f, S) + b * Cardinality(S)
<1> DEFINE F(T) == SumFunctionOnSet(f, T)
           G(T) == SumFunctionOnSet(g, T)
           N == {T \in SUBSET S : F(T) <= G(T) /\ G(T) <= F(T) + b * Cardinality(T)}
<1>1. ASSUME NEW T \in SUBSET S
      PROVE  /\ IsFiniteSet(T) /\ Cardinality(T) \in Nat /\ F(T) \in Int /\ G(T) \in Int
             /\ \A x \in T : Cardinality(T \ {x}) = Cardinality(T) - 1
  BY FS_Subset, FS_CardinalityType, FS_RemoveElement, SumIsInt
<1>2. {} \in N
  <2>1. F({}) = 0 /\ G({}) = 0 /\ Cardinality({}) = 0
    BY SumEquation, FS_EmptySet
  <2>2. b * 0 = 0
    OBVIOUS
  <2> HIDE DEF F, G
  <2> QED
    BY <2>1, <2>2
<1>3. ASSUME NEW T \in SUBSET S, T # {} PROVE T \ {Pick(T)} \in N => T \in N
  <2> DEFINE p == Pick(T)
             U == T \ {p}
  <2>1. p \in T /\ U \in SUBSET S
    BY <1>3, PickIn
  <2>2. F(T) = f[p] + F(U) /\ G(T) = g[p] + G(U)
    BY <1>1, <1>3, SumEquation
  <2>3. PICK k \in Nat : k = Cardinality(U)
    BY <1>1, <2>1
  <2>4. Cardinality(T) = k + 1
    BY <1>1, <2>1, <2>3
  <2>5. b * (k + 1) = b * k + b /\ b * k \in Int
    OBVIOUS
  <2>6. PICK m \in Int : m = b * k
    BY <2>5
  <2>7. /\ F(T) \in Int /\ G(T) \in Int /\ F(U) \in Int /\ G(U) \in Int
        /\ f[p] \in Int /\ g[p] \in Int /\ f[p] <= g[p] /\ g[p] <= f[p] + b
    BY <1>1, <2>1
  <2> HIDE DEF F, G, p
  <2>8. ASSUME F(U) <= G(U), G(U) <= F(U) + m
        PROVE  F(T) <= G(T) /\ G(T) <= F(T) + (m + b)
    BY <2>2, <2>7, <2>8
  <2>9. m + b = b * Cardinality(T) /\ m = b * Cardinality(U)
    BY <2>3, <2>4, <2>5, <2>6
  <2>10. U = T \ {Pick(T)}
    BY DEF p
  <2> QED
    BY <2>1, <2>8, <2>9, <2>10
<1>4. \A T \in SUBSET S : T # {} => \E x \in T : (T \ {x} \in N => T \in N)
  <2> HIDE DEF N
  <2> QED
    BY <1>3, PickIn
<1>5. N = SUBSET S
  <2>1. N \in SUBSET (SUBSET S)
    OBVIOUS
  <2> HIDE DEF N
  <2> QED
    BY <1>2, <1>4, <2>1, BySize
<1> QED
  BY <1>5

\* The same terms have the same sum.
LEMMA SumSame ==
  ASSUME NEW f, NEW g, NEW S, IsFiniteSet(S), \A x \in S : f[x] \in Int /\ g[x] = f[x]
  PROVE  SumFunctionOnSet(g, S) = SumFunctionOnSet(f, S)
<1>1. SumFunctionOnSet(f, S) \in Int /\ SumFunctionOnSet(g, S) \in Int
  BY SumIsInt
<1>2. SumFunctionOnSet(f, S) <= SumFunctionOnSet(g, S)
  <2>1. \A x \in S : f[x] <= g[x] /\ g[x] <= f[x] + 0
    OBVIOUS
  <2> QED
    BY <2>1, SumNear
<1>3. SumFunctionOnSet(g, S) <= SumFunctionOnSet(f, S)
  <2>1. \A x \in S : g[x] <= f[x] /\ f[x] <= g[x] + 0
    OBVIOUS
  <2> QED
    BY <2>1, SumNear
<1> QED
  BY <1>1, <1>2, <1>3

\* One term changes.
LEMMA SumChanges ==
  ASSUME NEW f, NEW g, NEW S, IsFiniteSet(S), NEW a \in S,
         \A x \in S : f[x] \in Int /\ g[x] \in Int, \A x \in S : x # a => g[x] = f[x]
  PROVE  SumFunctionOnSet(g, S) = SumFunctionOnSet(f, S) + g[a] - f[a]
<1> DEFINE T == S \ {a}
<1>1. IsFiniteSet(T) /\ S \in SUBSET S
  BY FS_RemoveElement
<1>2. /\ SumFunctionOnSet(f, S) = f[a] + SumFunctionOnSet(f, T)
      /\ SumFunctionOnSet(g, S) = g[a] + SumFunctionOnSet(g, T)
  BY <1>1, SumRemoves
<1>3. SumFunctionOnSet(g, T) = SumFunctionOnSet(f, T)
  BY <1>1, SumSame
<1>4. SumFunctionOnSet(f, T) \in Int
  BY <1>1, SumIsInt
<1> QED
  BY <1>2, <1>3, <1>4

\* The terms under other names.
Renames(b, f, g, S, U) ==
  /\ \A x \in S : b[x] \in U /\ f[x] \in Int /\ g[b[x]] = f[x]
  /\ \A x \in S, y \in S : b[x] = b[y] => x = y
  /\ \A u \in U : g[u] \in Int /\ \E x \in S : b[x] = u

LEMMA SumMoved ==
  ASSUME NEW f, NEW g, NEW b, NEW S, IsFiniteSet(S), NEW U, IsFiniteSet(U),
         Renames(b, f, g, S, U)
  PROVE  SumFunctionOnSet(g, U) = SumFunctionOnSet(f, S)
<1> USE DEF Renames
<1> DEFINE B(T) == {b[x] : x \in T}
           N == {T \in SUBSET S : SumFunctionOnSet(g, B(T)) = SumFunctionOnSet(f, T)}
<1>1. {} \in N
  <2>1. IsFiniteSet({}) /\ B({}) = {}
    BY FS_EmptySet
  <2>2. SumFunctionOnSet(f, {}) = 0 /\ SumFunctionOnSet(g, {}) = 0
    BY <2>1, SumEquation
  <2> QED
    BY <2>1, <2>2
<1>2. ASSUME NEW T \in SUBSET S, T # {} PROVE T \ {Pick(T)} \in N => T \in N
  <2> DEFINE p == Pick(T)
             V == T \ {p}
  <2>1. p \in T /\ p \in S /\ IsFiniteSet(T)
    BY <1>2, PickIn, FS_Subset
  <2>2. SumFunctionOnSet(f, T) = f[p] + SumFunctionOnSet(f, V)
    BY <1>2, <2>1, SumEquation
  <2>3. B(T) \in SUBSET U /\ b[p] \in B(T)
    BY <2>1
  <2>4. SumFunctionOnSet(g, B(T)) = g[b[p]] + SumFunctionOnSet(g, B(T) \ {b[p]})
    <3> HIDE DEF B, p
    <3> QED
      BY <2>3, SumRemoves
  <2>5. B(T) \ {b[p]} = B(V)
    BY <2>1
  <2>6. g[b[p]] = f[p]
    BY <2>1
  <2> HIDE DEF B, p
  <2> QED
    BY <2>2, <2>4, <2>5, <2>6 DEF p
<1>3. \A T \in SUBSET S : T # {} => \E x \in T : (T \ {x} \in N => T \in N)
  <2> HIDE DEF N
  <2> QED
    BY <1>2, PickIn
<1>4. N = SUBSET S
  <2>1. N \in SUBSET (SUBSET S)
    OBVIOUS
  <2> HIDE DEF N
  <2> QED
    BY ONLY <1>1, <1>3, <2>1, IsFiniteSet(S), BySize
<1>5. SumFunctionOnSet(g, B(S)) = SumFunctionOnSet(f, S) /\ B(S) = U
  BY <1>4
<1> QED
  BY <1>5

-----------------------------------------------------------------------------
(* The server's limit on the total rate.                                   *)

\* Where the interval of age a is in the cyclic array.
Place(i, a) == IF a <= i THEN i - a ELSE i - a + Window

\* The sum of the Window intervals up to the k-th.
WindowTotal(t, k) == SumFunction(SubSeq(t, k - Window + 1, k))

\* The array holds the last intervals.
Holds(bytes, i, t) ==
  \A a \in 0..Window - 1 : a < Len(t) => bytes[Place(i, a)] = t[Len(t) - a]
RateInv ==
  /\ totals \in Seq(Nat) /\ rate.count = Len(totals) /\ rate.exceeded \in BOOLEAN
  /\ Holds(rate.bytes, rate.index, totals)
  /\ RateLimitExact

LEMMA RateInit == Init => RateInv
  <1> SUFFICES ASSUME Init PROVE RateInv
    OBVIOUS
  <1>1. totals = <<>> /\ rate.count = 0 /\ rate.exceeded = FALSE
    BY DEF Init
  <1>2. Window..Len(totals) = {}
    BY <1>1, Sizes
  <1>3. totals \in Seq(Nat) /\ Len(totals) = 0
    BY <1>1
  <1>4. RateLimitExact
    BY <1>1, <1>2 DEF RateLimitExact
  <1>5. \A a \in 0..Window - 1 : ~(a < Len(totals))
    BY <1>3, Sizes
  <1> QED
    BY <1>1, <1>3, <1>4, <1>5 DEF RateInv, Holds

\* The places of the last Window ages are all of the array.
LEMMA Places1 ==
  ASSUME NEW i \in 0..Window - 1
  PROVE  /\ \A a \in 0..Window - 1 : Place(i, a) \in 0..Window - 1
         /\ \A a \in 0..Window - 1, c \in 0..Window - 1 : Place(i, a) = Place(i, c) => a = c
         /\ \A j \in 0..Window - 1 : \E a \in 0..Window - 1 : Place(i, a) = j
  <1>1. Window \in Nat \ {0} /\ i \in Nat /\ i < Window
    BY Sizes
  <1>2. \A a \in 0..Window - 1 : Place(i, a) \in 0..Window - 1
    BY <1>1 DEF Place
  <1>3. \A a \in 0..Window - 1, c \in 0..Window - 1 : Place(i, a) = Place(i, c) => a = c
    BY <1>1 DEF Place
  <1>4. ASSUME NEW j \in 0..Window - 1 PROVE \E a \in 0..Window - 1 : Place(i, a) = j
    <2>1. CASE j <= i
      <3>1. i - j \in 0..Window - 1 /\ Place(i, i - j) = j
        BY <1>1, <2>1 DEF Place
      <3> QED
        BY <3>1
    <2>2. CASE ~(j <= i)
      <3>1. i - j + Window \in 0..Window - 1 /\ Place(i, i - j + Window) = j
        BY <1>1, <2>2 DEF Place
      <3> QED
        BY <3>1
    <2> QED
      BY <2>1, <2>2
  <1> QED
    BY <1>2, <1>3, <1>4

\* After the next index every interval is one older.
LEMMA PlacesAge ==
  ASSUME NEW i \in 0..Window - 1
  PROVE  /\ NextIndex(i) \in 0..Window - 1
         /\ Place(NextIndex(i), 0) = NextIndex(i)
         /\ \A a \in 1..Window - 1 :
              Place(NextIndex(i), a) = Place(i, a - 1) /\ Place(NextIndex(i), a) # NextIndex(i)
  BY Sizes DEF Place, NextIndex

\* The sum over the array is the sum of the last intervals.
LEMMA WindowSum ==
  ASSUME NEW t \in Seq(Nat), NEW bytes \in [0..Window - 1 -> Nat], NEW i \in 0..Window - 1,
         Len(t) >= Window, Holds(bytes, i, t)
  PROVE  WindowTotal(t, Len(t)) = SumFunctionOnSet(bytes, 0..Window - 1)
  <1> DEFINE n == Len(t)
             f == SubSeq(t, n - Window + 1, n)
             S == 1..Window
             U == 0..Window - 1
             b == [k \in S |-> Place(i, Window - k)]
  <1>1. Window \in Nat \ {0} /\ n \in Nat /\ n >= Window
    BY Sizes
  <1>2. DOMAIN f = S /\ \A k \in S : f[k] = t[n - Window + k]
    BY <1>1
  <1>3. IsFiniteSet(S) /\ IsFiniteSet(U)
    BY <1>1, FS_Interval
  <1>4. ASSUME NEW k \in S
        PROVE  Window - k \in U /\ n - (Window - k) = n - Window + k /\ Window - k < n
               /\ n - Window + k \in 1..n
    BY <1>1
  <1>5. \A k \in S : b[k] \in U /\ f[k] \in Int /\ bytes[b[k]] = f[k]
    <2> SUFFICES ASSUME NEW k \in S PROVE b[k] \in U /\ f[k] \in Int /\ bytes[b[k]] = f[k]
      OBVIOUS
    <2>1. b[k] = Place(i, Window - k) /\ b[k] \in U
      BY <1>4, Places1
    <2>2. bytes[b[k]] = t[n - Window + k] /\ f[k] = t[n - Window + k]
      BY <1>2, <1>4, <2>1 DEF Holds
    <2>3. t[n - Window + k] \in Nat
      BY <1>4
    <2> HIDE DEF b, f
    <2> QED
      BY <2>1, <2>2, <2>3
  <1>6. ASSUME NEW k \in S, NEW l \in S, b[k] = b[l] PROVE k = l
    <2>1. Place(i, Window - k) = Place(i, Window - l)
      BY <1>6
    <2>2. Window - k = Window - l
      BY <1>4, <2>1, Places1
    <2> QED
      BY <1>1, <2>2
  <1>7. ASSUME NEW j \in U PROVE bytes[j] \in Int /\ \E k \in S : b[k] = j
    <2>1. PICK a \in U : Place(i, a) = j
      BY Places1
    <2>2. Window - a \in S /\ Window - (Window - a) = a
      BY <1>1
    <2>3. b[Window - a] = j
      BY <2>1, <2>2
    <2>4. \E k \in S : b[k] = j
      BY <2>2, <2>3
    <2> QED
      BY <2>4
  <1>8. SumFunctionOnSet(bytes, U) = SumFunctionOnSet(f, S)
    <2>1. \A k \in S, l \in S : b[k] = b[l] => k = l
      BY <1>6
    <2> HIDE DEF b, f, S, U
    <2>2. Renames(b, f, bytes, S, U)
      BY <1>5, <1>7, <2>1 DEF Renames
    <2> QED
      BY <1>3, <2>2, SumMoved
  <1> HIDE DEF f, b
  <1> QED
    BY <1>2, <1>8 DEF SumFunction, WindowTotal, f

\* A limit once exceeded stays exceeded; the newest window may exceed it.
LEMMA Windows ==
  ASSUME NEW t \in Seq(Nat), NEW total \in Nat
  PROVE  /\ Append(t, total) \in Seq(Nat) /\ Len(Append(t, total)) = Len(t) + 1
         /\ \A k \in 1..Len(t) : Append(t, total)[k] = t[k]
         /\ Append(t, total)[Len(t) + 1] = total
         /\ \A k \in Window..Len(t) :
              SubSeq(Append(t, total), k - Window + 1, k) = SubSeq(t, k - Window + 1, k)
  <1> DEFINE u == Append(t, total)
  <1>1. u \in Seq(Nat) /\ Len(u) = Len(t) + 1 /\ Len(t) \in Nat
    OBVIOUS
  <1>2. (\A k \in 1..Len(t) : u[k] = t[k]) /\ u[Len(t) + 1] = total
    OBVIOUS
  <1>3. ASSUME NEW k \in Window..Len(t)
        PROVE  SubSeq(u, k - Window + 1, k) = SubSeq(t, k - Window + 1, k)
    <2>1. Window \in Nat \ {0} /\ k \in Nat /\ k >= Window /\ k <= Len(t)
      BY <1>1, Sizes
    <2> DEFINE a == SubSeq(u, k - Window + 1, k)
               c == SubSeq(t, k - Window + 1, k)
    <2>2. \A i \in 1..Window : (k - Window + 1) + i - 1 \in 1..Len(t)
      BY <1>1, <2>1
    <2>3. \A i \in k - Window + 1..k : i \in 1..Len(t) /\ i \in 1..Len(u)
      BY <1>1, <2>1
    <2>4. k - Window + 1 \in Nat /\ k - Window + 1 <= k /\ k - (k - Window + 1) + 1 = Window
      BY <2>1
    <2> HIDE DEF u
    <2>5. \A i \in k - Window + 1..k : u[i] \in Nat /\ t[i] \in Nat
      BY <1>1, <2>3
    <2>6. a \in Seq(Nat) /\ Len(a) = Window /\ \A i \in 1..Window : a[i] = u[k - Window + 1 + i - 1]
      BY <1>1, <2>1, <2>4, <2>5, SubSeqProperties
    <2>7. c \in Seq(Nat) /\ Len(c) = Window /\ \A i \in 1..Window : c[i] = t[k - Window + 1 + i - 1]
      BY <1>1, <2>1, <2>4, <2>5, SubSeqProperties
    <2>8. \A i \in 1..Window : a[i] = c[i]
      BY <1>2, <2>2, <2>6, <2>7
    <2> HIDE DEF a, c
    <2>9. a = c
      BY <2>6, <2>7, <2>8
    <2> QED
      BY <2>9 DEF a, c
  <1> QED
    BY <1>1, <1>2, <1>3

LEMMA TotalAdded ==
  ASSUME Shapes, RateInv, NEW total \in Nat, iperf_check_total_rate(total)
  PROVE  RateInv'
  <1>1. CASE test["server"].done \/ ~conf.limited
    BY <1>1 DEF iperf_check_total_rate, RateInv, RateLimitExact
  <1>2. CASE ~(test["server"].done \/ ~conf.limited)
    <2> DEFINE i == NextIndex(rate.index)
               bytes == [j \in DOMAIN rate.bytes \cup {i} |-> IF j = i THEN total
                                                            ELSE rate.bytes[j]]
               t == totals
               u == Append(totals, total)
               n == Len(totals)
               Over(s, k) == WindowTotal(s, k) \div Window > RateLimit
    <2>1. t \in Seq(Nat) /\ n \in Nat /\ rate.count = n /\ rate.index \in 0..Window - 1
      BY DEF RateInv, Shapes
    <2>2. /\ u \in Seq(Nat) /\ Len(u) = n + 1 /\ (\A k \in 1..n : u[k] = t[k]) /\ u[n + 1] = total
          /\ \A k \in Window..n : SubSeq(u, k - Window + 1, k) = SubSeq(t, k - Window + 1, k)
      BY <2>1, Windows
    <2>3. /\ i \in 0..Window - 1 /\ Place(i, 0) = i
          /\ \A a \in 1..Window - 1 : Place(i, a) = Place(rate.index, a - 1) /\ Place(i, a) # i
      BY <2>1, PlacesAge
    <2>4. /\ totals' = u /\ rate'.bytes = bytes /\ rate'.index = i /\ rate'.count = n + 1
          /\ rate'.exceeded = (rate.exceeded \/ (/\ EnoughIntervals(n + 1)
                                /\ SumFunctionOnSet(bytes, 0..Window - 1) \div Window > RateLimit))
      BY <1>2, <2>1 DEF iperf_check_total_rate
    <2> HIDE DEF i
    <2>5. /\ bytes \in [0..Window - 1 -> Nat] /\ bytes[i] = total
          /\ \A j \in 0..Window - 1 : j # i => bytes[j] = rate.bytes[j]
      <3>1. rate.bytes \in [0..Window - 1 -> Nat] /\ DOMAIN rate.bytes \cup {i} = 0..Window - 1
        BY <2>3 DEF Shapes
      <3>2. bytes = [j \in 0..Window - 1 |-> IF j = i THEN total ELSE rate.bytes[j]]
        BY <3>1
      <3> QED
        BY <2>3, <3>1, <3>2
    <2> HIDE DEF bytes, u
    <2>6. ASSUME NEW a \in 0..Window - 1, a < n + 1
          PROVE  bytes[Place(i, a)] = u[n + 1 - a]
      <3>1. CASE a = 0
        <4>1. n + 1 - a = n + 1
          BY <2>1, <3>1
        <4> QED
          BY <2>2, <2>3, <2>5, <3>1, <4>1
      <3>2. CASE a # 0
        <4>1. /\ a \in 1..Window - 1 /\ a - 1 \in 0..Window - 1 /\ a - 1 < n
              /\ n - (a - 1) \in 1..n /\ n + 1 - a = n - (a - 1)
          BY <2>1, <2>6, <3>2, Sizes
        <4>2. rate.bytes[Place(rate.index, a - 1)] = totals[n - (a - 1)]
          BY <2>1, <4>1 DEF RateInv, Holds
        <4>3. Place(i, a) = Place(rate.index, a - 1) /\ Place(i, a) # i /\ Place(i, a) \in 0..Window - 1
          BY <2>3, <4>1, Places1
        <4> QED
          BY <2>2, <2>5, <4>1, <4>2, <4>3
      <3> QED
        BY <3>1, <3>2
    <2>7. n + 1 >= Window =>
            WindowTotal(u, n + 1) = SumFunctionOnSet(bytes, 0..Window - 1)
      <3>1. Holds(bytes, i, u)
        BY <2>2, <2>6 DEF Holds
      <3>2. Len(u) >= Window =>
              WindowTotal(u, Len(u)) = SumFunctionOnSet(bytes, 0..Window - 1)
        BY <2>2, <2>3, <2>5, <3>1, WindowSum
      <3>3. Len(u) = n + 1
        BY <2>2
      <3> HIDE DEF n
      <3> QED
        BY <3>2, <3>3
    <2>8. rate.exceeded = (\E k \in Window..n : Over(t, k))
      BY DEF RateInv, RateLimitExact, WindowTotal
    <2>9. \A k \in Window..n : Over(u, k) = Over(t, k)
      BY <2>2 DEF WindowTotal
    <2>10. rate'.exceeded = (rate.exceeded \/ (n + 1 >= Window /\ Over(u, n + 1)))
      <3>1. CASE n + 1 >= Window
        <4> DEFINE X == SumFunctionOnSet(bytes, 0..Window - 1) \div Window > RateLimit
        <4>1. Over(u, n + 1) = X
          BY <2>7, <3>1
        <4>2. rate'.exceeded = (rate.exceeded \/ X)
          BY <2>4, <3>1 DEF EnoughIntervals
        <4> HIDE DEF X, Over
        <4> QED
          BY <3>1, <4>1, <4>2
      <3>2. CASE ~(n + 1 >= Window)
        BY <2>4, <3>2 DEF EnoughIntervals
      <3> QED
        BY <3>1, <3>2
    <2>11. \A k : k \in Window..n + 1 <=> k \in Window..n \/ (k = n + 1 /\ n + 1 >= Window)
      BY <2>1, Sizes
    <2>12. rate'.exceeded = (\E k \in Window..n + 1 : Over(u, k))
      <3> HIDE DEF Over
      <3> QED
        BY <2>8, <2>9, <2>10, <2>11
    <2>13. RateLimitExact'
      BY <2>2, <2>4, <2>12 DEF RateLimitExact, WindowTotal
    <2>14. Holds(bytes, i, u)
      BY <2>2, <2>6 DEF Holds
    <2>15. totals' \in Seq(Nat) /\ rate'.count = Len(totals') /\ rate'.exceeded \in BOOLEAN
      BY <2>2, <2>4
    <2> QED
      BY <2>4, <2>13, <2>14, <2>15 DEF RateInv, Holds, Place
  <1> QED
    BY <1>1, <1>2

\* Only the end of the server's statistics touches the array.
LEMMA RateStep ==
  ASSUME TransferInv, RateInv, [Next]_vars
  PROVE  RateInv'
  <1>1. ASSUME UNCHANGED <<rate, totals>> PROVE RateInv'
    BY <1>1 DEF RateInv, RateLimitExact, Holds, Place
  <1>2. Shapes
    BY DEF TransferInv
  <1>3. ASSUME NEW e \in Ends, NEW s \in AllStreams, WorkerStep(e, s) PROVE RateInv'
    <2>1. UNCHANGED <<rate, totals>>
      BY <1>3 DEF WorkerStep, worker_ends, iperf_send_mt, diskfile_send, iperf_tcp_send,
         write_nobufs, stream_error, recv_starts, iperf_tcp_recv, count_bytes, count_interval,
         count_test, MainIdle, counting
    <2> QED
      BY <1>1, <2>1
  <1>4. ASSUME NEW e \in Ends, stats_zero(e) PROVE RateInv'
    <2>1. CASE iperf_check_total_rate(main[e].total)
      <3>1. main[e].total \in Nat
        BY <1>2 DEF Shapes, MainType
      <3> QED
        BY <1>2, <2>1, <3>1, TotalAdded
    <2>2. CASE UNCHANGED <<rate, totals>>
      BY <1>1, <2>2
    <2> QED
      BY <1>4, <2>1, <2>2 DEF stats_zero
  <1>5. ASSUME NEW e \in Ends, MainStep(e), ~stats_zero(e) PROVE RateInv'
    <2>1. UNCHANGED <<rate, totals>>
      BY <1>5 DEF MainStep, stats_read, stats_total, reporter_timer, reset_omit, reset_interval,
         client_check_done, client_test_end, client_join, server_report, counting
    <2> QED
      BY <1>1, <2>1
  <1>6. ASSUME ClientSelect \/ ServerSelect \/ client_rcv_timeout \/ Timer PROVE RateInv'
    <2>1. ASSUME ClientSelect PROVE UNCHANGED <<rate, totals>>
      BY <2>1 DEF ClientSelect, client_test_running, client_exchange_results, client_get_results,
         client_display_results, ctrl_closed, GivesUp, counting
    <2>2. ASSUME ServerSelect PROVE UNCHANGED <<rate, totals>>
      BY <2>2 DEF ServerSelect, server_total_rate, server_test_end, server_exchange_results,
         server_done, server_rcv_timeout, ctrl_closed, GivesUp, counting
    <2>3. ASSUME client_rcv_timeout \/ Timer PROVE UNCHANGED <<rate, totals>>
      BY <2>3 DEF client_rcv_timeout, Timer, test_timer_proc, stats_timer, omit_timer, GivesUp,
         counting
    <2> QED
      BY <1>1, <1>6, <2>1, <2>2, <2>3
  <1>7. CASE UNCHANGED vars
    BY <1>1, <1>7 DEF vars
  <1> QED
    BY <1>3, <1>4, <1>5, <1>6, <1>7 DEF Next

\* bitrate_limit_exceeded is set exactly when some Window intervals in a row average above
\* the limit, for every size of the cyclic array: what iperf_check_total_rate sums are the
\* last intervals, and never what the array held before it was full.
THEOREM RateLimitIsExact == Spec => []RateLimitExact
  <1>1. RateInv => RateLimitExact
    BY DEF RateInv
  <1> QED
    BY <1>1, RateInit, RateStep, TransferInvariant, PTL DEF Spec

-----------------------------------------------------------------------------
(* What iperf_print_results prints.                                        *)

\* The streams of one direction at an end, and the directions it has streams of.
Dir(e, d) == {s \in Streams : Sends(e, s) = d}
Shown(e)  == {d \in BOOLEAN : Dir(e, d) # {}}

\* What is printed if X is told of the streams, and the part of one direction.
Lines == [Streams -> [sent : Int, received : Int]]
SentIn(X) == [s \in Streams |-> X[s].sent]
GotIn(X)  == [s \in Streams |-> X[s].received]
Table(e, X) ==
  [p \in 1..Len(Passes(e)) |->
     LET shown == {s \in Streams : Sends(e, s) = Passes(e)[p]}
     IN [sender       |-> Passes(e)[p],
         streams      |-> [s \in shown |-> X[s]],
         sum_sent     |-> SumFunction([s \in shown |-> X[s].sent]),
         sum_received |-> SumFunction([s \in shown |-> X[s].received])]]
Row(e, X, d) ==
  [sender       |-> d,
   streams      |-> [s \in Dir(e, d) |-> X[s]],
   sum_sent     |-> SumFunctionOnSet(SentIn(X), Dir(e, d)),
   sum_received |-> SumFunctionOnSet(GotIn(X), Dir(e, d))]

LEMMA StreamsFinite ==
  ASSUME conf \in Confs
  PROVE  /\ IsFiniteSet(Streams) /\ 1 \in Streams
         /\ \A e, d : IsFiniteSet(Dir(e, d)) /\ Dir(e, d) \subseteq Streams
  <1>1. IsFiniteSet(Streams) /\ 1 \in Streams
    BY ConfIs, FS_Interval
  <1>2. \A e, d : Dir(e, d) \subseteq Streams
    BY DEF Dir
  <1> QED
    BY <1>1, <1>2, FS_Subset

\* An end has a pass for each of its directions.
LEMMA PassesAre ==
  ASSUME conf \in Confs, NEW e \in Ends
  PROVE  /\ Len(Passes(e)) \in Nat \ {0}
         /\ \A p \in 1..Len(Passes(e)) : Passes(e)[p] \in Shown(e)
         /\ \A d \in Shown(e) : \E p \in 1..Len(Passes(e)) : Passes(e)[p] = d
  <1>1. 1 \in Streams /\ \A s \in Streams : Sends(e, s) \in BOOLEAN
    BY StreamsFinite DEF Sends
  <1>2. CASE \A s \in Streams : Sends(e, s)
    <2>1. Mode(e) = "SENDER"
      BY <1>1, <1>2 DEF Mode
    <2>2. Passes(e) = <<TRUE>>
      BY <2>1 DEF Passes
    <2>3. Shown(e) = {TRUE}
      BY <1>1, <1>2 DEF Shown, Dir
    <2>4. Len(Passes(e)) = 1 /\ Passes(e)[1] = TRUE
      BY <2>2
    <2>5. 1..Len(Passes(e)) = {1} /\ Len(Passes(e)) \in Nat \ {0}
      BY <2>4
    <2> QED
      BY <2>3, <2>4, <2>5, Zenon
  <1>3. CASE \A s \in Streams : ~Sends(e, s)
    <2>1. Mode(e) = "RECEIVER"
      BY <1>1, <1>3 DEF Mode
    <2>2. Passes(e) = <<FALSE>>
      BY <2>1 DEF Passes
    <2>3. Shown(e) = {FALSE}
      BY <1>1, <1>3 DEF Shown, Dir
    <2>4. Len(Passes(e)) = 1 /\ Passes(e)[1] = FALSE
      BY <2>2
    <2>5. 1..Len(Passes(e)) = {1} /\ Len(Passes(e)) \in Nat \ {0}
      BY <2>4
    <2> QED
      BY <2>3, <2>4, <2>5, Zenon
  <1>4. CASE /\ \E s \in Streams : Sends(e, s)
             /\ \E s \in Streams : ~Sends(e, s)
    <2>1. Mode(e) = "BIDIRECTIONAL"
      BY <1>4 DEF Mode
    <2>2. Passes(e) = <<TRUE, FALSE>> \/ Passes(e) = <<FALSE, TRUE>>
      BY <2>1 DEF Passes
    <2>3. Shown(e) = {TRUE, FALSE}
      BY <1>1, <1>4 DEF Shown, Dir
    <2>4. CASE Passes(e) = <<TRUE, FALSE>>
      <3>1. Len(Passes(e)) = 2 /\ Passes(e)[1] = TRUE /\ Passes(e)[2] = FALSE
        BY <2>4
      <3>2. 1..Len(Passes(e)) = {1, 2} /\ Len(Passes(e)) \in Nat \ {0}
        BY <3>1
      <3> QED
        BY <2>3, <3>1, <3>2, Zenon
    <2>5. CASE Passes(e) = <<FALSE, TRUE>>
      <3>1. Len(Passes(e)) = 2 /\ Passes(e)[1] = FALSE /\ Passes(e)[2] = TRUE
        BY <2>5
      <3>2. 1..Len(Passes(e)) = {1, 2} /\ Len(Passes(e)) \in Nat \ {0}
        BY <3>1
      <3> QED
        BY <2>3, <3>1, <3>2, Zenon
    <2> QED
      BY <2>2, <2>4, <2>5
  <1> QED
    BY <1>1, <1>2, <1>3, <1>4

\* The passes are the rows of the directions.
LEMMA TableRows ==
  ASSUME conf \in Confs, NEW e \in Ends, NEW X \in Lines
  PROVE  /\ Table(e, X) # <<>>
         /\ Range(Table(e, X)) = {Row(e, X, d) : d \in Shown(e)}
  <1> DEFINE T == Table(e, X)
             n == Len(Passes(e))
  <1>1. n \in Nat \ {0} /\ DOMAIN T = 1..n
    BY PassesAre DEF Table
  <1>2. ASSUME NEW p \in 1..n PROVE T[p] = Row(e, X, Passes(e)[p])
    <2> DEFINE d == Passes(e)[p]
               S == Dir(e, d)
               f == [s \in S |-> X[s].sent]
               g == [s \in S |-> X[s].received]
    <2>1. T[p] = [sender |-> d, streams |-> [s \in S |-> X[s]],
                  sum_sent |-> SumFunction(f), sum_received |-> SumFunction(g)]
      BY DEF Table, Dir
    <2>2. IsFiniteSet(S) /\ S \subseteq Streams
      BY StreamsFinite
    <2>3. \A s \in S : /\ SentIn(X)[s] \in Int /\ f[s] = SentIn(X)[s]
                       /\ GotIn(X)[s] \in Int /\ g[s] = GotIn(X)[s]
      BY <2>2 DEF SentIn, GotIn, Lines
    <2>4. SumFunction(f) = SumFunctionOnSet(f, S) /\ SumFunction(g) = SumFunctionOnSet(g, S)
      BY DEF SumFunction
    <2> HIDE DEF f, g, S
    <2>5. /\ SumFunctionOnSet(f, S) = SumFunctionOnSet(SentIn(X), S)
          /\ SumFunctionOnSet(g, S) = SumFunctionOnSet(GotIn(X), S)
      BY <2>2, <2>3, SumSame
    <2> QED
      BY <2>1, <2>4, <2>5 DEF Row, S
  <1>3. Range(T) = {T[p] : p \in 1..n}
    BY <1>1 DEF Range
  <1>4. Range(T) = {Row(e, X, d) : d \in Shown(e)}
    <2> HIDE DEF T
    <2> QED
      BY <1>2, <1>3, PassesAre
  <1>5. T # <<>>
    <2> HIDE DEF T, n
    <2>1. 1 \in DOMAIN T
      BY <1>1
    <2> QED
      BY <2>1
  <1> QED
    BY <1>4, <1>5

\* What an end tells of its streams.
Says(e) == [s \in Streams |-> StreamSummary(e, s)]

LEMMA PrintIsTable ==
  ASSUME Shapes, NEW e \in Ends
  PROVE  iperf_print_results(e) = Table(e, Says(e)) /\ Says(e) \in Lines
  <1>1. \A s \in Streams : /\ result[e][s].bytes \in Nat /\ result[e][s].peer \in Nat
                           /\ result[e][s].bytes_sent_omit \in Nat
    BY Numbers
  <1>2. \A s \in Streams : StreamSummary(e, s) \in [sent : Int, received : Int]
    BY <1>1 DEF StreamSummary
  <1>3. Says(e) \in Lines
    BY <1>2 DEF Says, Lines
  <1>4. ASSUME NEW d
        PROVE  /\ [s \in {s \in Streams : Sends(e, s) = d} |-> StreamSummary(e, s)]
                    = [s \in {s \in Streams : Sends(e, s) = d} |-> Says(e)[s]]
               /\ Sum(e, {s \in Streams : Sends(e, s) = d}, "sent")
                    = SumFunction([s \in {s \in Streams : Sends(e, s) = d} |-> Says(e)[s].sent])
               /\ Sum(e, {s \in Streams : Sends(e, s) = d}, "received")
                    = SumFunction([s \in {s \in Streams : Sends(e, s) = d} |-> Says(e)[s].received])
    <2> DEFINE S == {s \in Streams : Sends(e, s) = d}
    <2>1. \A s \in S : Says(e)[s] = StreamSummary(e, s)
      BY DEF Says
    <2>2. [s \in S |-> StreamSummary(e, s)] = [s \in S |-> Says(e)[s]]
      BY <2>1
    <2>3. [s \in S |-> StreamSummary(e, s)["sent"]] = [s \in S |-> Says(e)[s].sent]
      BY <2>1
    <2>4. [s \in S |-> StreamSummary(e, s)["received"]] = [s \in S |-> Says(e)[s].received]
      BY <2>1
    <2> HIDE DEF S
    <2>5. Sum(e, S, "sent") = SumFunction([s \in S |-> Says(e)[s].sent])
          /\ Sum(e, S, "received") = SumFunction([s \in S |-> Says(e)[s].received])
      BY <2>3, <2>4 DEF Sum
    <2> QED
      BY <2>2, <2>5 DEF S
  <1> QED
    BY <1>3, <1>4 DEF iperf_print_results, Table

\* Larger terms have a larger sum.
LEMMA SumGrows ==
  ASSUME NEW f, NEW g, NEW S, IsFiniteSet(S),
         \A x \in S : f[x] \in Int /\ g[x] \in Int /\ f[x] <= g[x]
  PROVE  SumFunctionOnSet(f, S) <= SumFunctionOnSet(g, S)
<1> DEFINE F(T) == SumFunctionOnSet(f, T)
           G(T) == SumFunctionOnSet(g, T)
           N == {T \in SUBSET S : F(T) <= G(T)}
<1>1. ASSUME NEW T \in SUBSET S PROVE IsFiniteSet(T) /\ F(T) \in Int /\ G(T) \in Int
  BY FS_Subset, SumIsInt
<1>2. {} \in N
  <2>1. F({}) = 0 /\ G({}) = 0
    BY SumEquation, FS_EmptySet
  <2> HIDE DEF F, G
  <2> QED
    BY <2>1
<1>3. ASSUME NEW T \in SUBSET S, T # {} PROVE T \ {Pick(T)} \in N => T \in N
  <2> DEFINE p == Pick(T)
             U == T \ {p}
  <2>1. p \in T /\ U \in SUBSET S
    BY <1>3, PickIn
  <2>2. F(T) = f[p] + F(U) /\ G(T) = g[p] + G(U)
    BY <1>1, <1>3, SumEquation
  <2>3. /\ F(T) \in Int /\ G(T) \in Int /\ F(U) \in Int /\ G(U) \in Int
        /\ f[p] \in Int /\ g[p] \in Int /\ f[p] <= g[p]
    BY <1>1, <2>1
  <2>4. F(U) <= G(U) => F(T) <= G(T)
    <3> HIDE DEF F, G, p, U
    <3> QED
      BY <2>2, <2>3
  <2> QED
    BY <2>1, <2>4
<1>4. \A T \in SUBSET S : T # {} => \E x \in T : (T \ {x} \in N => T \in N)
  <2> HIDE DEF N
  <2> QED
    BY <1>3, PickIn
<1>5. N = SUBSET S
  <2>1. N \in SUBSET (SUBSET S)
    OBVIOUS
  <2> HIDE DEF N
  <2> QED
    BY ONLY <1>2, <1>4, <2>1, IsFiniteSet(S), BySize
<1> QED
  BY <1>5

-----------------------------------------------------------------------------
(* The end of a test by bytes.                                             *)

Active == test["client"].state \in {"TEST_START", "TEST_RUNNING"}

\* Counted for the stream, and counted for the test as well.
Bytes  == [s \in Streams |-> result["client"][s].bytes]
BookedAt(s) ==
  LET w == worker["client"][s]
  IN result["client"][s].bytes - (IF w.pc \in {"interval", "test"} THEN w.r ELSE 0)
Booked == [s \in Streams |-> BookedAt(s)]
Tallied ==
  Active =>
    /\ test["client"].bytes_sent <= SumFunctionOnSet(Booked, Dir("client", TRUE))
    /\ test["client"].bytes_received <= SumFunctionOnSet(Booked, Dir("client", FALSE))

\* The limit was reached in one direction, or a file was read to its end.
Moved == \E d \in BOOLEAN : SumFunctionOnSet(Bytes, Dir("client", d)) >= conf.bytes
FileRead ==
  /\ conf.file # 0
  /\ \/ "nobufs" \in conf.faults
     \/ \E s \in Streams : Sends("client", s) /\ result["client"][s].bytes >= conf.file

\* Every byte of the file is counted, in the buffer, or not yet read.
FileKept(s) ==
  LET w == worker["client"][s]
      b == result["client"][s].bytes
      d == disk[s]
  IN /\ w.pc \in {"none", "top", "next", "file"} => b + d.diskfile_left + d.unread = conf.file
     /\ w.pc \in {"snd", "bytes"} => b + d.buffer_left + d.unread = conf.file
     /\ w.pc \in {"interval", "test"} => b - w.r + d.buffer_left + d.unread = conf.file
     /\ w.pc \in {"bytes", "interval"} => w.r # 0
     /\ w.pc = "test" /\ w.r = 0 => d.diskfile_left = d.buffer_left
FilesKept ==
  \A s \in Streams :
    /\ worker["client"][s].pc = "file" => conf.file # 0
    /\ Sends("client", s) /\ conf.file # 0 /\ "nobufs" \notin conf.faults => FileKept(s)

\* The client has decided that the test is over.
Closing ==
  \/ ~Active \/ main["client"].pc = "test_end"
  \/ main["client"].pc \in {"read", "total", "zero"} /\ main["client"].then = "test_end"

LimitInv ==
  /\ FilesKept
  /\ ~conf.omit /\ conf.bytes # 0 =>
       /\ Tallied
       /\ test["client"].done => Moved \/ FileRead
       /\ Closing => test["client"].done
       /\ LimitIsMet

LEMMA ConfLimits ==
  ASSUME conf \in Confs
  PROVE  conf.bytes \in Nat /\ conf.blocks \in Nat /\ (conf.bytes = 0 \/ conf.blocks = 0)
  <1>1. conf \in ConfType
    BY TransferAssumption
  <1> QED
    BY <1>1, TransferAssumption DEF ConfType

LEMMA BookedIs ==
  ASSUME Shapes
  PROVE  /\ \A s \in Streams :
              /\ Bytes[s] = result["client"][s].bytes /\ Bytes[s] \in Nat
              /\ Booked[s] \in Int /\ Booked[s] <= Bytes[s]
         /\ \A d : SumFunctionOnSet(Booked, Dir("client", d)) \in Int
         /\ \A d : SumFunctionOnSet(Bytes, Dir("client", d)) \in Int
         /\ \A d : SumFunctionOnSet(Booked, Dir("client", d))
                     <= SumFunctionOnSet(Bytes, Dir("client", d))
  <1>1. ASSUME NEW s \in Streams
        PROVE  /\ Bytes[s] = result["client"][s].bytes /\ Bytes[s] \in Nat
               /\ Booked[s] \in Int /\ Booked[s] <= Bytes[s]
    <2>1. /\ result["client"][s].bytes \in Nat /\ worker["client"][s].r \in 0..Block /\ Block \in Nat
      BY Numbers, EndsAre
    <2> QED
      BY <2>1 DEF Bytes, Booked, BookedAt
  <1>2. ASSUME NEW d
        PROVE  IsFiniteSet(Dir("client", d)) /\ Dir("client", d) \subseteq Streams
    BY StreamsFinite DEF Shapes
  <1>3. ASSUME NEW d
        PROVE  /\ SumFunctionOnSet(Booked, Dir("client", d)) \in Int
               /\ SumFunctionOnSet(Bytes, Dir("client", d)) \in Int
               /\ SumFunctionOnSet(Booked, Dir("client", d))
                    <= SumFunctionOnSet(Bytes, Dir("client", d))
    <2>1. \A s \in Dir("client", d) : /\ Booked[s] \in Int /\ Bytes[s] \in Int
                                      /\ Booked[s] <= Bytes[s]
      BY <1>1, <1>2
    <2> QED
      BY <1>2, <2>1, SumIsInt, SumGrows
  <1> QED
    BY <1>1, <1>3

\* The bytes a client counts are never forgotten.
LEMMA MovedStays ==
  ASSUME Shapes, Shapes', conf' = conf,
         \A t \in Streams : result'["client"][t].bytes >= result["client"][t].bytes
  PROVE  Moved \/ FileRead => Moved' \/ FileRead'
  <1>0. Streams' = Streams /\ (\A e, s : Sends(e, s)' = Sends(e, s)) /\ conf \in Confs
    BY SameConf DEF Shapes
  <1>1. \A t \in Streams : /\ result["client"][t].bytes \in Nat
                           /\ result'["client"][t].bytes \in Nat
    BY <1>0, Numbers, NumbersNext, EndsAre
  <1>2. ASSUME FileRead PROVE FileRead'
    <2>1. conf.file \in Nat
      BY <1>0, ConfIs
    <2> QED
      BY <1>0, <1>1, <1>2, <2>1 DEF FileRead
  <1>3. ASSUME Moved PROVE Moved'
    <2>1. PICK d \in BOOLEAN : SumFunctionOnSet(Bytes, Dir("client", d)) >= conf.bytes
      BY <1>3 DEF Moved
    <2> DEFINE S == Dir("client", d)
               f == Bytes
               g == [t \in Streams |-> result'["client"][t].bytes]
    <2>2. IsFiniteSet(S) /\ S \subseteq Streams
      BY <1>0, StreamsFinite
    <2>3. \A t \in S : f[t] \in Int /\ g[t] \in Int /\ f[t] <= g[t]
      BY <1>1, <2>2 DEF Bytes
    <2>4. Dir("client", d)' = S /\ Bytes' = g
      BY <1>0 DEF Dir, Bytes
    <2>5. SumFunctionOnSet(f, S) \in Int /\ SumFunctionOnSet(g, S) \in Int /\ conf.bytes \in Nat
      <3> HIDE DEF f, g, S
      <3> QED
        BY <1>0, <2>2, <2>3, SumIsInt, ConfLimits
    <2>6. SumFunctionOnSet(f, S) <= SumFunctionOnSet(g, S)
      <3> HIDE DEF f, g, S
      <3> QED
        BY <2>2, <2>3, SumGrows
    <2>7. SumFunctionOnSet(g, S) >= conf.bytes
      <3> HIDE DEF g
      <3> QED
        BY <2>1, <2>5, <2>6
    <2>8. \E x \in BOOLEAN : SumFunctionOnSet(g, Dir("client", x)') >= conf.bytes
      BY <2>4, <2>7
    <2> QED
      BY <2>4, <2>8 DEF Moved
  <1> QED
    BY <1>2, <1>3

\* A step in which the client's threads count nothing: they may be started or stopped.
Idles ==
  /\ conf' = conf
  /\ \A t \in Streams :
       /\ \/ worker'["client"][t] = worker["client"][t]
          \/ worker'["client"][t].pc = "gone"
          \/ worker["client"][t].pc = "none" /\ worker'["client"][t].pc = "top"
       /\ Sends("client", t) => disk'[t] = disk[t]
       /\ Sends("client", t) \/ ~conf.omit =>
            result'["client"][t].bytes = result["client"][t].bytes

\* What such a step may do to the end of the test.
Decides ==
  ~conf.omit /\ conf.bytes # 0 =>
    /\ test'["client"].bytes_sent = test["client"].bytes_sent
    /\ test'["client"].bytes_received = test["client"].bytes_received
    /\ Active' => Active
    /\ test["client"].done => test'["client"].done
    /\ test'["client"].done => test["client"].done \/ Moved
    /\ Closing' => test'["client"].done
    /\ LimitIsMet'

LEMMA IdleLimit ==
  ASSUME TransferInv, TransferInv', LimitInv, Idles, Decides
  PROVE  LimitInv'
  <1>0. /\ Shapes /\ Shapes' /\ conf' = conf /\ conf \in Confs /\ Streams' = Streams
        /\ \A e, s : Sends(e, s)' = Sends(e, s)
    BY SameConf DEF TransferInv, Shapes, Idles
  <1>1. FilesKept'
    <2> SUFFICES ASSUME NEW t \in Streams
                 PROVE  /\ worker'["client"][t].pc = "file" => conf.file # 0
                        /\ Sends("client", t) /\ conf.file # 0 /\ "nobufs" \notin conf.faults
                             => FileKept(t)'
      BY <1>0 DEF FilesKept
    <2>1. /\ worker["client"][t].pc = "file" => conf.file # 0
          /\ Sends("client", t) /\ conf.file # 0 /\ "nobufs" \notin conf.faults => FileKept(t)
      BY DEF LimitInv, FilesKept
    <2>2. worker'["client"][t].pc = "file" => conf.file # 0
      BY <2>1 DEF Idles
    <2>3. ASSUME Sends("client", t), FileKept(t) PROVE FileKept(t)'
      <3>1. disk'[t] = disk[t] /\ result'["client"][t].bytes = result["client"][t].bytes
        BY <2>3 DEF Idles
      <3>2. CASE worker'["client"][t] = worker["client"][t]
        BY <1>0, <2>3, <3>1, <3>2 DEF FileKept
      <3>3. CASE worker'["client"][t].pc = "gone"
        BY <3>3 DEF FileKept
      <3>4. CASE worker["client"][t].pc = "none" /\ worker'["client"][t].pc = "top"
        BY <1>0, <2>3, <3>1, <3>4 DEF FileKept
      <3> QED
        BY <3>2, <3>3, <3>4 DEF Idles
    <2> QED
      BY <2>1, <2>2, <2>3
  <1>2. ASSUME ~conf.omit, conf.bytes # 0
        PROVE  /\ Tallied' /\ (test'["client"].done => Moved' \/ FileRead')
               /\ (Closing' => test'["client"].done) /\ LimitIsMet'
    <2>1. \A t \in Streams : result'["client"][t].bytes = result["client"][t].bytes
      BY <1>2 DEF Idles
    <2>2. \A t \in Streams : result'["client"][t].bytes >= result["client"][t].bytes
      BY <1>0, <2>1, Numbers, EndsAre
    <2>3. Moved \/ FileRead => Moved' \/ FileRead'
      BY <1>0, <2>2, MovedStays
    <2>4. Tallied /\ (test["client"].done => Moved \/ FileRead)
      BY <1>2 DEF LimitInv
    <2>5. Tallied'
      <3> SUFFICES ASSUME Active' PROVE Tallied'
        BY DEF Tallied
      <3>1. Active
        BY <1>2 DEF Decides
      <3> DEFINE g == [t \in Streams |-> result'["client"][t].bytes -
                         (IF worker'["client"][t].pc \in {"interval", "test"}
                          THEN worker'["client"][t].r ELSE 0)]
      <3>2. Booked' = g /\ \A d : Dir("client", d)' = Dir("client", d)
        BY <1>0 DEF Booked, BookedAt, Dir
      <3>3. ASSUME NEW t \in Streams
            PROVE  Booked[t] \in Int /\ g[t] \in Int /\ Booked[t] <= g[t]
        <4>1. /\ result["client"][t].bytes \in Nat /\ worker["client"][t].r \in 0..Block
              /\ worker'["client"][t].r \in 0..Block /\ Block \in Nat
          BY <1>0, Numbers, NumbersNext, EndsAre
        <4>2. CASE worker'["client"][t] = worker["client"][t]
          BY <2>1, <4>1, <4>2 DEF Booked, BookedAt
        <4>3. CASE worker'["client"][t].pc \in {"gone", "top"}
          BY <2>1, <4>1, <4>3 DEF Booked, BookedAt
        <4> QED
          BY <4>2, <4>3 DEF Idles
      <3> HIDE DEF g
      <3>4. ASSUME NEW d
            PROVE  /\ SumFunctionOnSet(Booked, Dir("client", d)) \in Int
                   /\ SumFunctionOnSet(g, Dir("client", d)) \in Int
                   /\ SumFunctionOnSet(Booked, Dir("client", d))
                        <= SumFunctionOnSet(g, Dir("client", d))
        <4>1. IsFiniteSet(Dir("client", d)) /\ Dir("client", d) \subseteq Streams
          BY <1>0, StreamsFinite
        <4>2. \A t \in Dir("client", d) : Booked[t] \in Int /\ g[t] \in Int /\ Booked[t] <= g[t]
          BY <3>3, <4>1
        <4> QED
          BY <4>1, <4>2, SumIsInt, SumGrows
      <3>5. /\ test["client"].bytes_sent \in Nat /\ test["client"].bytes_received \in Nat
            /\ test'["client"].bytes_sent = test["client"].bytes_sent
            /\ test'["client"].bytes_received = test["client"].bytes_received
        BY <1>0, <1>2, EndsAre DEF Decides, Shapes, TestType
      <3>6. /\ test["client"].bytes_sent <= SumFunctionOnSet(Booked, Dir("client", TRUE))
            /\ test["client"].bytes_received <= SumFunctionOnSet(Booked, Dir("client", FALSE))
        BY <2>4, <3>1 DEF Tallied
      <3>7. /\ test'["client"].bytes_sent <= SumFunctionOnSet(g, Dir("client", TRUE))
            /\ test'["client"].bytes_received <= SumFunctionOnSet(g, Dir("client", FALSE))
        <4> DEFINE a == SumFunctionOnSet(Booked, Dir("client", TRUE))
                   b == SumFunctionOnSet(Booked, Dir("client", FALSE))
                   x == SumFunctionOnSet(g, Dir("client", TRUE))
                   y == SumFunctionOnSet(g, Dir("client", FALSE))
        <4>1. a \in Int /\ x \in Int /\ a <= x
          BY <3>4
        <4>2. b \in Int /\ y \in Int /\ b <= y
          BY <3>4
        <4> HIDE DEF a, b, x, y
        <4>3. test["client"].bytes_sent <= a /\ test["client"].bytes_received <= b
          BY <3>6 DEF a, b
        <4>4. test'["client"].bytes_sent <= x /\ test'["client"].bytes_received <= y
          BY <3>5, <4>1, <4>2, <4>3
        <4> QED
          BY <4>4 DEF x, y
      <3> QED
        BY <3>2, <3>7 DEF Tallied
    <2> QED
      BY <1>2, <2>3, <2>4, <2>5 DEF Decides
  <1> QED
    BY <1>0, <1>1, <1>2 DEF LimitInv

\* The limit is met by what a client that is done prints.
LEMMA PrintMeets ==
  ASSUME TransferInv, conf' = conf, ~conf.omit, conf.bytes # 0, Moved \/ FileRead,
         summary'["client"] = iperf_print_results("client")
  PROVE  LimitIsMet'
  <1> DEFINE X == Says("client")
             R(d) == Row("client", X, d)
  <1>0. Shapes /\ conf \in Confs /\ conf.bytes \in Nat
    BY ConfLimits DEF TransferInv, Shapes
  <1>1. X \in Lines /\ summary'["client"] = Table("client", X)
    BY <1>0, PrintIsTable, EndsAre
  <1>2. Range(summary'["client"]) = {R(d) : d \in Shown("client")}
    BY <1>0, <1>1, TableRows, EndsAre
  <1>3. ASSUME NEW s \in Streams
        PROVE  /\ Sends("client", s) => X[s].sent = Bytes[s]
               /\ ~Sends("client", s) => X[s].received = Bytes[s]
               /\ Bytes[s] \in Nat /\ Bytes[s] = result["client"][s].bytes
    <2>1. result["client"][s].bytes_sent_omit = 0
      BY EndsAre DEF TransferInv, Omits
    <2>2. Bytes[s] = result["client"][s].bytes /\ Bytes[s] \in Nat
      BY <1>0, BookedIs
    <2>3. X[s] = StreamSummary("client", s)
      BY DEF Says
    <2> QED
      BY <2>1, <2>2, <2>3 DEF StreamSummary
  <1>4. ASSUME Moved PROVE LimitMoved'
    <2>1. PICK d \in BOOLEAN : SumFunctionOnSet(Bytes, Dir("client", d)) >= conf.bytes
      BY <1>4 DEF Moved
    <2>2. IsFiniteSet(Dir("client", d)) /\ Dir("client", d) \subseteq Streams
      BY <1>0, StreamsFinite
    <2>3. d \in Shown("client")
      <3>1. Dir("client", d) # {}
        <4> SUFFICES ASSUME Dir("client", d) = {} PROVE FALSE
          OBVIOUS
        <4>1. SumFunctionOnSet(Bytes, Dir("client", d)) = 0
          BY <2>2, SumEquation
        <4> QED
          BY <1>0, <2>1, <4>1
      <3> QED
        BY <3>1 DEF Shown
    <2>4. CASE d
      <3>1. \A s \in Dir("client", d) : Bytes[s] \in Int /\ SentIn(X)[s] = Bytes[s]
        <4>1. \A s \in Dir("client", d) : s \in Streams /\ Sends("client", s)
          BY <2>4 DEF Dir
        <4> HIDE DEF X
        <4> QED
          BY <1>3, <4>1 DEF SentIn
      <3>2. SumFunctionOnSet(SentIn(X), Dir("client", d)) = SumFunctionOnSet(Bytes, Dir("client", d))
        BY <2>2, <3>1, SumSame
      <3>3. R(d).sender = d /\ R(d).sum_sent >= conf.bytes
        BY <2>1, <3>2 DEF Row
      <3>4. \E p \in Range(summary'["client"]) :
              (IF p.sender THEN p.sum_sent ELSE p.sum_received) >= conf.bytes
        BY <1>2, <2>3, <2>4, <3>3
      <3> QED
        BY <3>4 DEF LimitMoved
    <2>5. CASE ~d
      <3>1. \A s \in Dir("client", d) : Bytes[s] \in Int /\ GotIn(X)[s] = Bytes[s]
        <4>1. \A s \in Dir("client", d) : s \in Streams /\ ~Sends("client", s)
          BY <2>5 DEF Dir
        <4> HIDE DEF X
        <4> QED
          BY <1>3, <4>1 DEF GotIn
      <3>2. SumFunctionOnSet(GotIn(X), Dir("client", d)) = SumFunctionOnSet(Bytes, Dir("client", d))
        BY <2>2, <3>1, SumSame
      <3>3. R(d).sender = d /\ R(d).sum_received >= conf.bytes
        BY <2>1, <3>2 DEF Row
      <3>4. \E p \in Range(summary'["client"]) :
              (IF p.sender THEN p.sum_sent ELSE p.sum_received) >= conf.bytes
        BY <1>2, <2>3, <2>5, <3>3
      <3> QED
        BY <3>4 DEF LimitMoved
    <2> QED
      BY <2>4, <2>5
  <1>5. ASSUME FileRead PROVE FileSent'
    <2>1. CASE "nobufs" \in conf.faults
      BY <1>5, <2>1 DEF FileRead, FileSent
    <2>2. CASE "nobufs" \notin conf.faults
      <3>1. PICK s \in Streams : Sends("client", s) /\ result["client"][s].bytes >= conf.file
        BY <1>5, <2>2 DEF FileRead
      <3>2. s \in Dir("client", TRUE) /\ TRUE \in Shown("client")
        BY <3>1 DEF Dir, Shown, Sends
      <3>3. /\ R(TRUE).sender /\ s \in DOMAIN R(TRUE).streams
            /\ R(TRUE).streams[s].sent >= conf.file
        BY <1>3, <3>1, <3>2 DEF Row
      <3>4. R(TRUE) \in Range(summary'["client"])
        BY <1>2, <3>2
      <3> HIDE DEF R
      <3>5. \E p \in Range(summary'["client"]) : \E t \in DOMAIN p.streams :
              p.sender /\ p.streams[t].sent >= conf.file
        BY <3>3, <3>4
      <3> QED
        BY <1>5, <3>5 DEF FileRead, FileSent
    <2> QED
      BY <2>1, <2>2
  <1> QED
    BY <1>4, <1>5 DEF LimitIsMet

\* A step of the client's thread of stream s, which counts d bytes for the test.
Works(s, d) ==
  /\ conf' = conf /\ main' = main /\ summary' = summary
  /\ \A t \in Streams : t # s =>
       /\ worker'["client"][t] = worker["client"][t] /\ disk'[t] = disk[t]
       /\ result'["client"][t].bytes = result["client"][t].bytes
  /\ result'["client"][s].bytes >= result["client"][s].bytes
  /\ Active => BookedAt(s)' = BookedAt(s) + d
  /\ test'["client"].state = test["client"].state
  /\ test'["client"].bytes_sent =
       test["client"].bytes_sent + (IF Sends("client", s) THEN d ELSE 0)
  /\ test'["client"].bytes_received =
       test["client"].bytes_received + (IF Sends("client", s) THEN 0 ELSE d)
  /\ test["client"].done => test'["client"].done
  /\ test'["client"].done => test["client"].done \/ FileRead
  /\ worker'["client"][s].pc = "file" => conf.file # 0
  /\ Sends("client", s) /\ conf.file # 0 /\ "nobufs" \notin conf.faults => FileKept(s)'

LEMMA WorkLimit ==
  ASSUME TransferInv, TransferInv', LimitInv, NEW s \in Streams, NEW d \in Nat, Works(s, d)
  PROVE  LimitInv'
  <1>0. /\ Shapes /\ Shapes' /\ conf' = conf /\ conf \in Confs /\ Streams' = Streams
        /\ \A e, t : Sends(e, t)' = Sends(e, t)
    BY SameConf DEF TransferInv, Shapes, Works
  <1>1. FilesKept'
    <2> SUFFICES ASSUME NEW t \in Streams
                 PROVE  /\ worker'["client"][t].pc = "file" => conf.file # 0
                        /\ Sends("client", t) /\ conf.file # 0 /\ "nobufs" \notin conf.faults
                             => FileKept(t)'
      BY <1>0 DEF FilesKept
    <2>1. CASE t = s
      BY <2>1 DEF Works
    <2>2. CASE t # s
      <3>1. /\ worker'["client"][t] = worker["client"][t] /\ disk'[t] = disk[t]
            /\ result'["client"][t].bytes = result["client"][t].bytes
        BY <2>2 DEF Works
      <3>2. FileKept(t)' <=> FileKept(t)
        BY <1>0, <3>1 DEF FileKept
      <3> QED
        BY <3>1, <3>2 DEF LimitInv, FilesKept
    <2> QED
      BY <2>1, <2>2
  <1>2. \A t \in Streams : result'["client"][t].bytes >= result["client"][t].bytes
    BY <1>0, Numbers, EndsAre DEF Works
  <1>3. Moved \/ FileRead => Moved' \/ FileRead'
    BY <1>0, <1>2, MovedStays
  <1>4. Active' = Active /\ Closing' = Closing /\ LimitIsMet' = LimitIsMet
    BY DEF Works, Active, Closing, LimitIsMet, LimitMoved, FileSent
  <1>5. ASSUME Tallied, Active PROVE Tallied'
    <2> DEFINE g == [t \in Streams |-> BookedAt(t)']
               own == Sends("client", s)
    <2>1. Booked' = g /\ (\A x : Dir("client", x)' = Dir("client", x)) /\ own \in BOOLEAN
      BY <1>0 DEF Booked, Dir, Sends
    <2>2. \A t \in Streams : Booked[t] \in Int
      BY <1>0, BookedIs
    <2>3. g[s] = Booked[s] + d /\ \A t \in Streams : t # s => g[t] = Booked[t]
      BY <1>5 DEF Works, Booked, BookedAt
    <2>4. \A t \in Streams : g[t] \in Int
      BY <2>2, <2>3
    <2> HIDE DEF g
    <2>5. ASSUME NEW x \in BOOLEAN
          PROVE  /\ SumFunctionOnSet(Booked, Dir("client", x)) \in Int
                 /\ SumFunctionOnSet(g, Dir("client", x))
                      = SumFunctionOnSet(Booked, Dir("client", x)) + (IF x = own THEN d ELSE 0)
      <3> DEFINE S == Dir("client", x)
      <3>1. IsFiniteSet(S) /\ S \subseteq Streams
        BY <1>0, StreamsFinite
      <3>2. SumFunctionOnSet(Booked, S) \in Int
        BY <2>2, <3>1, SumIsInt
      <3>3. CASE x = own
        <4>1. s \in S
          BY <3>3 DEF Dir
        <4>2. SumFunctionOnSet(g, S) = SumFunctionOnSet(Booked, S) + g[s] - Booked[s]
          <5>1. /\ \A t \in S : Booked[t] \in Int /\ g[t] \in Int
                /\ \A t \in S : t # s => g[t] = Booked[t]
            BY <2>2, <2>3, <2>4, <3>1
          <5> HIDE DEF S
          <5> QED
            BY <3>1, <4>1, <5>1, SumChanges
        <4>3. Booked[s] \in Int
          BY <2>2
        <4> HIDE DEF S
        <4>4. SumFunctionOnSet(g, S) = SumFunctionOnSet(Booked, S) + d
          BY <2>3, <3>2, <4>2, <4>3
        <4> QED
          BY <3>2, <3>3, <4>4 DEF S
      <3>4. CASE x # own
        <4>1. s \notin S
          BY <3>4 DEF Dir
        <4>2. \A t \in S : Booked[t] \in Int /\ g[t] = Booked[t]
          BY <2>2, <2>3, <3>1, <4>1
        <4> HIDE DEF S
        <4>3. SumFunctionOnSet(g, S) = SumFunctionOnSet(Booked, S)
          BY <3>1, <4>2, SumSame
        <4>4. SumFunctionOnSet(g, S) = SumFunctionOnSet(Booked, S) + 0
          BY <3>2, <4>3
        <4> QED
          BY <3>2, <3>4, <4>4 DEF S
      <3> QED
        BY <3>3, <3>4
    <2> DEFINE a == SumFunctionOnSet(Booked, Dir("client", TRUE))
               b == SumFunctionOnSet(Booked, Dir("client", FALSE))
               x == SumFunctionOnSet(g, Dir("client", TRUE))
               y == SumFunctionOnSet(g, Dir("client", FALSE))
    <2>6. a \in Int /\ x = a + (IF own THEN d ELSE 0)
      BY <2>1, <2>5
    <2>7. b \in Int /\ y = b + (IF own THEN 0 ELSE d)
      BY <2>1, <2>5
    <2>8. test["client"].bytes_sent <= a /\ test["client"].bytes_received <= b
      BY <1>5 DEF Tallied
    <2>9. test["client"].bytes_sent \in Nat /\ test["client"].bytes_received \in Nat
      BY <1>0, EndsAre DEF Shapes, TestType
    <2>10. /\ test'["client"].bytes_sent = test["client"].bytes_sent + (IF own THEN d ELSE 0)
           /\ test'["client"].bytes_received =
                test["client"].bytes_received + (IF own THEN 0 ELSE d)
      BY DEF Works
    <2> HIDE DEF a, b, x, y, own
    <2>11. test'["client"].bytes_sent <= x /\ test'["client"].bytes_received <= y
      BY <2>6, <2>7, <2>8, <2>9, <2>10
    <2> QED
      BY <2>1, <2>11 DEF Tallied, x, y
  <1>6. Tallied => Tallied'
    BY <1>4, <1>5 DEF Tallied
  <1>7. test["client"].done => test'["client"].done
    BY DEF Works
  <1>8. test'["client"].done => test["client"].done \/ FileRead
    BY DEF Works
  <1> QED
    BY <1>0, <1>1, <1>3, <1>4, <1>6, <1>7, <1>8 DEF LimitInv

\* A step that counts nothing and leaves the files alone.
LEMMA HopWorks ==
  ASSUME TransferInv, LimitInv, NEW s \in Streams, Elsewhere("client", s), MainIdle,
         UNCHANGED <<test, result, disk>>,
         worker["client"][s].pc \in {"top", "next", "snd", "rcv"},
         worker'["client"][s].pc \notin {"interval", "test"} \/ ~Active,
         worker'["client"][s].pc = "file" => conf.file # 0,
         Sends("client", s) /\ conf.file # 0 /\ "nobufs" \notin conf.faults => FileKept(s)'
  PROVE  Works(s, 0)
  <1>0. Shapes /\ conf' = conf /\ main' = main /\ summary' = summary
    BY DEF TransferInv, MainIdle, control
  <1>1. \A t \in Streams : result["client"][t].bytes \in Nat
    BY <1>0, Numbers, EndsAre
  <1>2. /\ test["client"].bytes_sent \in Nat /\ test["client"].bytes_received \in Nat
    BY <1>0, EndsAre DEF Shapes, TestType
  <1>3. Active => BookedAt(s)' = BookedAt(s) + 0
    BY <1>1 DEF BookedAt
  <1>4. \A t \in Streams : t # s => worker'["client"][t] = worker["client"][t]
    BY EndsAre DEF Elsewhere
  <1>5. result'["client"][s].bytes >= result["client"][s].bytes
    BY <1>1
  <1>6. /\ test'["client"].bytes_sent =
             test["client"].bytes_sent + (IF Sends("client", s) THEN 0 ELSE 0)
        /\ test'["client"].bytes_received =
             test["client"].bytes_received + (IF Sends("client", s) THEN 0 ELSE 0)
    BY <1>2
  <1> QED
    BY <1>0, <1>3, <1>4, <1>5, <1>6 DEF Works

LEMMA GoingWorks ==
  ASSUME TransferInv, LimitInv, NEW s \in Streams,
         \/ worker_ends("client", s) \/ stream_error("client", s) \/ recv_starts("client", s)
         \/ write_nobufs("client", s)
  PROVE  Works(s, 0)
  <1>0. /\ Shapes /\ MainIdle /\ UNCHANGED <<test, result, disk>>
        /\ {"gone", "rcv", "top"} \subseteq ThreadPcs
    BY EndsAre DEF TransferInv, worker_ends, stream_error, recv_starts, write_nobufs, ThreadPcs
  <1>1. PICK pc \in {"gone", "rcv", "top"} :
          /\ Worker("client", s, pc) /\ worker["client"][s].pc \in {"top", "snd", "rcv"}
          /\ pc = "rcv" => ~Sends("client", s)
          /\ pc = "top" => "nobufs" \in conf.faults
    BY DEF worker_ends, stream_error, recv_starts, write_nobufs
  <1>2. worker'["client"][s].pc = pc /\ Elsewhere("client", s)
    BY <1>0, <1>1, ThreadGoes, EndsAre
  <1>3. Sends("client", s) /\ conf.file # 0 /\ "nobufs" \notin conf.faults => FileKept(s)'
    BY <1>1, <1>2 DEF FileKept
  <1> QED
    BY <1>0, <1>1, <1>2, <1>3, HopWorks

LEMMA SendWorks ==
  ASSUME TransferInv, LimitInv, NEW s \in Streams, iperf_send_mt("client", s)
  PROVE  Works(s, 0)
  <1> DEFINE w == worker'["client"][s]
  <1>0. /\ Shapes /\ MainIdle /\ UNCHANGED <<test, result, disk>> /\ Sends("client", s)
        /\ worker["client"][s].pc \in {"next", "top"} /\ conf' = conf
    BY DEF TransferInv, iperf_send_mt, MainIdle
  <1>1. w.pc \in {"top", "snd", "file"} /\ (w.pc = "file" <=> w.pc # "top" /\ conf.file # 0)
    <2>1. worker["client"] \in [Streams -> WorkerType] /\ worker \in [Ends -> [Streams -> WorkerType]]
      BY <1>0, EndsAre DEF Shapes
    <2> QED
      BY <2>1, EndsAre DEF iperf_send_mt
  <1>2. Elsewhere("client", s)
    BY <1>0, EndsAre DEF iperf_send_mt, Shapes, Elsewhere
  <1>3. ASSUME conf.file # 0, "nobufs" \notin conf.faults PROVE FileKept(s)'
    <2>1. FileKept(s)
      BY <1>0, <1>3 DEF LimitInv, FilesKept
    <2>2. w.pc \in {"top", "file"}
      BY <1>1, <1>3
    <2> HIDE DEF w
    <2> QED
      BY <1>0, <2>1, <2>2 DEF FileKept, w
  <1> HIDE DEF w
  <1> QED
    BY <1>0, <1>1, <1>2, <1>3, HopWorks DEF w

LEMMA WriteWorks ==
  ASSUME TransferInv, LimitInv, NEW s \in Streams, iperf_tcp_send("client", s)
  PROVE  Works(s, 0)
  <1>0. /\ Shapes /\ MainIdle /\ UNCHANGED <<test, result, disk>> /\ conf' = conf
        /\ worker["client"][s].pc = "snd" /\ worker["client"][s] \in WorkerType
    BY EndsAre DEF TransferInv, iperf_tcp_send, MainIdle, Shapes
  <1>1. PICK r \in 1..Unsent(s) :
          worker' = [worker EXCEPT !["client"][s].pc = "bytes", !["client"][s].r = r]
    BY DEF iperf_tcp_send
  <1>2. /\ worker'["client"][s].pc = "bytes" /\ worker'["client"][s].r = r
        /\ Elsewhere("client", s)
    BY <1>0, <1>1, EndsAre DEF Shapes, WorkerType, Elsewhere
  <1>3. r # 0
    BY <1>0, Numbers, EndsAre DEF Unsent
  <1>4. ASSUME Sends("client", s), conf.file # 0, "nobufs" \notin conf.faults PROVE FileKept(s)'
    <2>1. FileKept(s)
      BY <1>4 DEF LimitInv, FilesKept
    <2> QED
      BY <1>0, <1>2, <1>3, <2>1 DEF FileKept
  <1> QED
    BY <1>0, <1>2, <1>4, HopWorks

LEMMA ReadWorks ==
  ASSUME TransferInv, LimitInv, NEW s \in Streams, iperf_tcp_recv("client", s)
  PROVE  Works(s, 0)
  <1>0. /\ Shapes /\ MainIdle /\ UNCHANGED <<test, result, disk>> /\ conf' = conf
        /\ worker["client"][s].pc = "rcv" /\ worker["client"][s] \in WorkerType
        /\ ~Sends("client", s)
    BY EndsAre DEF TransferInv, iperf_tcp_recv, MainIdle, Shapes, Stages, Stage
  <1>1. Active => CountsIn("client")
    BY <1>0 DEF TransferInv, Phase, Starting, Running, Ending, Stopping, Asking, Telling,
       Answering, Displaying, Finishing, Finished, InState, Active, CountsIn
  <1>2. /\ Elsewhere("client", s)
        /\ worker'["client"][s].pc \in {"top", "bytes", "test"}
        /\ CountsIn("client") => worker'["client"][s].pc \in {"top", "bytes"}
    BY <1>0, EndsAre DEF iperf_tcp_recv, Shapes, WorkerType, Elsewhere
  <1> QED
    BY <1>0, <1>1, <1>2, HopWorks

LEMMA FileWorks ==
  ASSUME TransferInv, LimitInv, NEW s \in Streams, diskfile_send("client", s)
  PROVE  Works(s, 0)
  <1> DEFINE d == disk[s]
             t == test["client"]
             reads == d.diskfile_left < Block /\ ~t.done
             n == IF reads THEN Least(d.unread, Block - d.diskfile_left) ELSE 0
             left == d.diskfile_left + n
             over == t.done \/ left = 0
             pc == IF over THEN "test" ELSE "snd"
             w == worker["client"][s]
  <1>0. /\ Shapes /\ conf' = conf /\ Stage("client", s) /\ main' = main /\ summary' = summary
        /\ d \in DiskType /\ t \in TestType /\ w.pc = "file" /\ result' = result
        /\ conf.file # 0
    BY EndsAre DEF TransferInv, Shapes, Stages, MainIdle, control, diskfile_send, LimitInv, FilesKept
  <1>1. /\ d.diskfile_left \in Nat /\ d.unread \in Nat /\ d.buffer_left \in Nat /\ Block \in Nat \ {0}
        /\ t.done \in BOOLEAN /\ t.bytes_sent \in Nat /\ t.bytes_received \in Nat
        /\ result["client"][s].bytes \in Nat
    BY <1>0, Sizes, Numbers, EndsAre DEF DiskType, TestType
  <1>2. n \in Nat /\ n <= d.unread /\ left \in Nat /\ over \in BOOLEAN
    BY <1>1 DEF Least
  <1>3. Sends("client", s) /\ w.r = 0
    BY <1>0 DEF Stage
  <1>4. /\ disk' = [disk EXCEPT ![s].buffer_left = left, ![s].unread = @ - n]
        /\ test' = [test EXCEPT !["client"].done = over]
        /\ Worker("client", s, pc)
    BY DEF diskfile_send
  <1>5. /\ worker'["client"][s].pc = pc /\ worker'["client"][s].r = 0 /\ Elsewhere("client", s)
    <2>1. pc \in ThreadPcs
      BY DEF ThreadPcs
    <2> HIDE DEF pc
    <2> QED
      BY <1>0, <1>3, <1>4, <2>1, ThreadGoes, EndsAre
  <1>6. /\ disk'[s].buffer_left = left /\ disk'[s].unread = d.unread - n
        /\ disk'[s].diskfile_left = d.diskfile_left
        /\ \A x \in Streams : x # s => disk'[x] = disk[x]
    <2> HIDE DEF left, n
    <2> QED
      BY <1>0, <1>4 DEF Shapes, DiskType
  <1>7. /\ test'["client"].done = over /\ test'["client"].state = t.state
        /\ test'["client"].bytes_sent = t.bytes_sent
        /\ test'["client"].bytes_received = t.bytes_received
    <2> HIDE DEF over
    <2> QED
      BY <1>0, <1>4, EndsAre DEF Shapes, TestType
  <1>8. "nobufs" \notin conf.faults =>
          result["client"][s].bytes + d.diskfile_left + d.unread = conf.file
    <2>1. "nobufs" \notin conf.faults => FileKept(s)
      BY <1>0, <1>3 DEF LimitInv, FilesKept
    <2> QED
      BY <1>0, <2>1 DEF FileKept
  <1>9. t.done => left = d.diskfile_left
    BY <1>1
  <1>10. left = 0 => d.diskfile_left = 0
    BY <1>1, <1>2
  <1>11. left = 0 /\ ~t.done => d.unread = 0
    <2> SUFFICES ASSUME left = 0, ~t.done PROVE d.unread = 0
      OBVIOUS
    <2>1. d.diskfile_left = 0 /\ n = 0 /\ reads
      BY <1>1, <1>2
    <2> QED
      BY <1>1, <2>1 DEF Least
  <1>12. "nobufs" \notin conf.faults => FileKept(s)'
    <2> SUFFICES ASSUME "nobufs" \notin conf.faults PROVE FileKept(s)'
      OBVIOUS
    <2> DEFINE b == result["client"][s].bytes
    <2>1. b + left + (d.unread - n) = conf.file
      BY <1>1, <1>2, <1>8
    <2>2. CASE over
      <3>1. d.diskfile_left = left
        BY <1>1, <1>9, <1>10, <2>2
      <3>2. worker'["client"][s].pc = "test"
        BY <1>5, <2>2
      <3>3. b - 0 + left + (d.unread - n) = conf.file
        BY <1>1, <1>2, <2>1
      <3> HIDE DEF left, n, pc, d, w
      <3> QED
        BY <1>0, <1>5, <1>6, <3>1, <3>2, <3>3 DEF FileKept
    <2>3. CASE ~over
      <3>1. worker'["client"][s].pc = "snd"
        BY <1>5, <2>3
      <3> HIDE DEF left, n, pc, d, w
      <3> QED
        BY <1>0, <1>6, <2>1, <3>1 DEF FileKept
    <2> QED
      BY <2>2, <2>3
  <1>13. over => t.done \/ FileRead
    <2> SUFFICES ASSUME left = 0, ~t.done, "nobufs" \notin conf.faults PROVE FileRead
      BY <1>0 DEF FileRead
    <2>1. result["client"][s].bytes = conf.file
      BY <1>1, <1>8, <1>10, <1>11
    <2>2. result["client"][s].bytes >= conf.file
      BY <1>1, <2>1
    <2> QED
      BY <1>0, <1>3, <2>2 DEF FileRead
  <1>14. Active => BookedAt(s)' = BookedAt(s) + 0
    <2>1. BookedAt(s) = result["client"][s].bytes
      BY <1>0, <1>1 DEF BookedAt
    <2>2. BookedAt(s)' = result["client"][s].bytes
      BY <1>0, <1>1, <1>5 DEF BookedAt
    <2> QED
      BY <1>1, <2>1, <2>2
  <1>15. \A x \in Streams : x # s => worker'["client"][x] = worker["client"][x]
    BY <1>5, EndsAre DEF Elsewhere
  <1>16. worker'["client"][s].pc # "file" /\ result'["client"][s].bytes >= result["client"][s].bytes
    BY <1>0, <1>1, <1>5
  <1>17. /\ test'["client"].bytes_sent = t.bytes_sent + (IF Sends("client", s) THEN 0 ELSE 0)
         /\ test'["client"].bytes_received = t.bytes_received + (IF Sends("client", s) THEN 0 ELSE 0)
    BY <1>1, <1>7
  <1> HIDE DEF left, n, pc, d, w, over, reads
  <1> QED
    BY <1>0, <1>6, <1>7, <1>12, <1>13, <1>14, <1>15, <1>16, <1>17 DEF Works, over

LEMMA CountWorks ==
  ASSUME TransferInv, LimitInv, NEW s \in Streams,
         count_bytes("client", s) \/ count_interval("client", s)
  PROVE  Works(s, 0)
  <1> DEFINE w == worker["client"][s]
             v == worker'["client"][s]
             b == result["client"][s].bytes
             b2 == result'["client"][s].bytes
  <1>0. /\ Shapes /\ conf' = conf /\ test' = test /\ disk' = disk /\ main' = main
        /\ summary' = summary /\ w.r \in 0..Block /\ Block \in Nat /\ b \in Nat
        /\ result["client"][s] \in ResultType
        /\ test["client"].bytes_sent \in Nat /\ test["client"].bytes_received \in Nat
    <2>1. Shapes
      BY DEF TransferInv
    <2>2. test["client"] \in TestType /\ result["client"][s] \in ResultType
      BY <2>1, EndsAre DEF Shapes
    <2>3. conf' = conf /\ test' = test /\ disk' = disk /\ main' = main /\ summary' = summary
      BY DEF count_bytes, count_interval, MainIdle, control
    <2>4. w.r \in 0..Block /\ Block \in Nat /\ b \in Nat
      BY <2>1, Numbers, EndsAre
    <2> QED
      BY <2>1, <2>2, <2>3, <2>4 DEF TestType
  <1>1. /\ Elsewhere("client", s) /\ v.r = w.r
        /\ \/ w.pc = "bytes" /\ v.pc = "interval" /\ b2 = b + w.r
           \/ w.pc = "interval" /\ v.pc = "test" /\ b2 = b
        /\ \A t \in Streams : t # s => result'["client"][t] = result["client"][t]
    <2>0. "interval" \in ThreadPcs /\ "test" \in ThreadPcs
      BY DEF ThreadPcs
    <2>1. CASE count_bytes("client", s)
      <3>1. /\ w.pc = "bytes" /\ Worker("client", s, "interval")
            /\ result' = [result EXCEPT !["client"][s].bytes = @ + w.r]
        BY <2>1 DEF count_bytes
      <3>2. v.pc = "interval" /\ v.r = w.r /\ Elsewhere("client", s)
        BY <1>0, <2>0, <3>1, ThreadGoes, EndsAre
      <3>3. b2 = b + w.r /\ \A t \in Streams : t # s => result'["client"][t] = result["client"][t]
        BY <1>0, <3>1, EndsAre DEF Shapes, ResultType
      <3> QED
        BY <3>1, <3>2, <3>3
    <2>2. CASE count_interval("client", s)
      <3>1. /\ w.pc = "interval" /\ Worker("client", s, "test")
            /\ result' = [result EXCEPT !["client"][s].interval = @ + w.r]
        BY <2>2 DEF count_interval
      <3>2. v.pc = "test" /\ v.r = w.r /\ Elsewhere("client", s)
        BY <1>0, <2>0, <3>1, ThreadGoes, EndsAre
      <3>3. b2 = b /\ \A t \in Streams : t # s => result'["client"][t] = result["client"][t]
        BY <1>0, <3>1, EndsAre DEF Shapes, ResultType
      <3> QED
        BY <3>1, <3>2, <3>3
    <2> QED
      BY <2>1, <2>2
  <1>2. b2 >= b
    <2> HIDE DEF b, b2, w, v
    <2> QED
      BY <1>0, <1>1
  <1>3. Active => BookedAt(s)' = BookedAt(s) + 0
    <2>1. BookedAt(s) = b - (IF w.pc = "interval" THEN w.r ELSE 0)
      BY <1>1 DEF BookedAt
    <2>2. BookedAt(s)' = b2 - w.r
      BY <1>1 DEF BookedAt
    <2> HIDE DEF b, b2, w, v
    <2> QED
      BY <1>0, <1>1, <2>1, <2>2
  <1>4. ASSUME Sends("client", s), conf.file # 0, "nobufs" \notin conf.faults PROVE FileKept(s)'
    <2>1. FileKept(s)
      BY <1>4 DEF LimitInv, FilesKept
    <2> DEFINE l == disk[s].buffer_left
               u == disk[s].unread
    <2>2. l \in Nat /\ u \in Nat /\ conf.file \in Nat
      BY <1>0, Numbers, EndsAre, ConfIs DEF Shapes
    <2>3. CASE w.pc = "bytes"
      <3>1. b + l + u = conf.file /\ w.r # 0
        BY <2>1, <2>3 DEF FileKept
      <3>2. b2 - w.r + l + u = conf.file
        <4> HIDE DEF b, b2, w, v, l, u
        <4> QED
          BY <1>0, <1>1, <2>2, <2>3, <3>1
      <3> QED
        BY <1>0, <1>1, <2>3, <3>1, <3>2 DEF FileKept
    <2>4. CASE w.pc = "interval"
      <3>1. b - w.r + l + u = conf.file /\ w.r # 0
        BY <2>1, <2>4 DEF FileKept
      <3> QED
        BY <1>0, <1>1, <2>4, <3>1 DEF FileKept
    <2> QED
      BY <1>1, <2>3, <2>4
  <1>5. /\ \A t \in Streams : t # s => worker'["client"][t] = worker["client"][t]
        /\ v.pc # "file"
    BY <1>1, EndsAre DEF Elsewhere
  <1>6. /\ test'["client"].bytes_sent =
             test["client"].bytes_sent + (IF Sends("client", s) THEN 0 ELSE 0)
        /\ test'["client"].bytes_received =
             test["client"].bytes_received + (IF Sends("client", s) THEN 0 ELSE 0)
    BY <1>0
  <1> QED
    BY <1>0, <1>1, <1>2, <1>3, <1>4, <1>5, <1>6 DEF Works

LEMMA TestWorks ==
  ASSUME TransferInv, LimitInv, NEW s \in Streams, count_test("client", s)
  PROVE  Works(s, worker["client"][s].r) /\ worker["client"][s].r \in Nat
  <1> DEFINE w == worker["client"][s]
             v == worker'["client"][s]
             b == result["client"][s].bytes
             r == w.r
             own == Sends("client", s)
             t == test["client"]
  <1>0. /\ Shapes /\ conf' = conf /\ main' = main /\ summary' = summary /\ result' = result
        /\ r \in 0..Block /\ Block \in Nat /\ b \in Nat /\ t \in TestType /\ w.pc = "test"
        /\ w \in WorkerType /\ own \in BOOLEAN
    <2>1. Shapes
      BY DEF TransferInv
    <2>2. conf' = conf /\ main' = main /\ summary' = summary /\ result' = result /\ w.pc = "test"
      BY DEF count_test, MainIdle, control
    <2>3. t \in TestType /\ w \in WorkerType
      BY <2>1, EndsAre DEF Shapes
    <2>4. r \in 0..Block /\ Block \in Nat /\ b \in Nat
      BY <2>1, Numbers, EndsAre
    <2> QED
      BY <2>1, <2>2, <2>3, <2>4 DEF Sends
  <1>1. /\ Elsewhere("client", s) /\ v.pc = (IF own THEN "next" ELSE "top")
    BY <1>0, EndsAre DEF count_test, Shapes, WorkerType, Elsewhere
  <1>2. /\ test'["client"].state = t.state /\ test'["client"].done = t.done
        /\ test'["client"].bytes_sent = t.bytes_sent + (IF own THEN r ELSE 0)
        /\ test'["client"].bytes_received = t.bytes_received + (IF own THEN 0 ELSE r)
    <2>1. t.bytes_sent \in Nat /\ t.bytes_received \in Nat
      BY <1>0 DEF TestType
    <2>2. CASE own
      <3>1. test' = [test EXCEPT !["client"].bytes_sent = @ + r,
                                 !["client"].blocks_sent = IF pending[s] = 0 THEN @ + 1 ELSE @]
        BY <2>2 DEF count_test
      <3> QED
        BY <1>0, <2>1, <2>2, <3>1, EndsAre DEF Shapes, TestType
    <2>3. CASE ~own
      <3>1. test' = [test EXCEPT !["client"].bytes_received = @ + r,
                                 !["client"].blocks_received = @ + 1]
        BY <2>3 DEF count_test
      <3> QED
        BY <1>0, <2>1, <2>3, <3>1, EndsAre DEF Shapes, TestType
    <2> QED
      BY <2>2, <2>3
  <1>3. /\ disk' = LeftInBuffer("client", s) /\ \A x \in Streams : x # s => disk'[x] = disk[x]
    BY <1>0 DEF count_test, LeftInBuffer, Shapes
  <1>4. Active => BookedAt(s)' = BookedAt(s) + r
    <2>1. BookedAt(s) = b - r
      BY <1>0 DEF BookedAt
    <2>2. BookedAt(s)' = b - 0
      BY <1>0, <1>1 DEF BookedAt
    <2> HIDE DEF b, r
    <2> QED
      BY <1>0, <2>1, <2>2
  <1>5. ASSUME own, conf.file # 0, "nobufs" \notin conf.faults PROVE FileKept(s)'
    <2>1. FileKept(s) /\ Stage("client", s)
      BY <1>5, EndsAre DEF LimitInv, FilesKept, TransferInv, Stages
    <2> DEFINE l == disk[s].buffer_left
               u == disk[s].unread
               f == disk[s].diskfile_left
    <2>2. l \in Nat /\ u \in Nat /\ f \in Nat /\ conf.file \in Nat /\ disk[s] \in DiskType
      BY <1>0, Numbers, EndsAre, ConfIs DEF Shapes
    <2>3. b - r + l + u = conf.file /\ (r = 0 => f = l)
      BY <1>0, <2>1 DEF FileKept
    <2>4. disk'[s].unread = u /\ disk'[s].diskfile_left = l - r
      <3>1. CASE r = 0
        <4>1. disk' = disk
          BY <1>3, <3>1 DEF LeftInBuffer
        <4> QED
          BY <2>2, <2>3, <3>1, <4>1
      <3>2. CASE r # 0
        <4>1. disk' = [disk EXCEPT ![s].diskfile_left = l - r]
          BY <1>3, <1>5, <3>2 DEF LeftInBuffer
        <4> QED
          BY <1>0, <2>2, <4>1 DEF Shapes, DiskType
      <3> QED
        BY <3>1, <3>2
    <2>5. b + (l - r) + u = conf.file
      <3> HIDE DEF b, r, l, u
      <3> QED
        BY <1>0, <2>2, <2>3
    <2>6. v.pc = "next"
      BY <1>1, <1>5
    <2> QED
      BY <1>0, <2>4, <2>5, <2>6 DEF FileKept
  <1>6. /\ \A x \in Streams : x # s => worker'["client"][x] = worker["client"][x]
        /\ v.pc # "file" /\ b >= b
    BY <1>0, <1>1, EndsAre DEF Elsewhere
  <1> QED
    BY <1>0, <1>2, <1>3, <1>4, <1>5, <1>6 DEF Works

\* The threads of the client.
LEMMA ClientWorks ==
  ASSUME TransferInv, TransferInv', LimitInv, NEW s, WorkerStep("client", s)
  PROVE  LimitInv'
  <1>1. s \in Streams
    BY DEF WorkerStep
  <1>2. Works(s, 0) \/ (Works(s, worker["client"][s].r) /\ worker["client"][s].r \in Nat)
    BY <1>1, GoingWorks, SendWorks, WriteWorks, ReadWorks, FileWorks, CountWorks, TestWorks
       DEF WorkerStep
  <1> QED
    BY <1>1, <1>2, WorkLimit

LEMMA SameDecides ==
  ASSUME LimitInv, conf' = conf, test'["client"] = test["client"],
         summary'["client"] = summary["client"],
         ~conf.omit /\ Closing' => Closing
  PROVE  Decides
  <1>1. Active' = Active /\ LimitIsMet' = LimitIsMet
    BY DEF Active, LimitIsMet, LimitMoved, FileSent
  <1> QED
    BY <1>1 DEF LimitInv, Decides

LEMMA SameIdles ==
  ASSUME conf' = conf, worker'["client"] = worker["client"],
         \A t \in Streams : Sends("client", t) => disk'[t] = disk[t],
         \A t \in Streams : Sends("client", t) \/ ~conf.omit =>
           result'["client"][t].bytes = result["client"][t].bytes
  PROVE  Idles
  BY DEF Idles

\* The threads of the server.
LEMMA ServerWorks ==
  ASSUME TransferInv, TransferInv', LimitInv, NEW s, WorkerStep("server", s)
  PROVE  LimitInv'
  <1>0. /\ s \in Streams /\ Shapes /\ conf' = conf /\ main' = main /\ summary' = summary
    BY DEF WorkerStep, TransferInv, worker_ends, iperf_send_mt, diskfile_send, iperf_tcp_send,
       write_nobufs, stream_error, recv_starts, iperf_tcp_recv, count_bytes, count_interval,
       count_test, MainIdle, control
  <1>1. worker'["client"] = worker["client"]
    BY <1>0, EndsAre DEF Shapes, WorkerStep, worker_ends, iperf_send_mt, diskfile_send, iperf_tcp_send,
       write_nobufs, stream_error, recv_starts, iperf_tcp_recv, count_bytes, count_interval,
       count_test, Worker
  <1>2. result'["client"] = result["client"]
    BY <1>0, EndsAre DEF Shapes, WorkerStep, worker_ends, iperf_send_mt, diskfile_send, iperf_tcp_send,
       write_nobufs, stream_error, recv_starts, iperf_tcp_recv, count_bytes, count_interval,
       count_test
  <1>3. test'["client"] = test["client"]
    BY <1>0, EndsAre DEF Shapes, WorkerStep, worker_ends, iperf_send_mt, diskfile_send, iperf_tcp_send,
       write_nobufs, stream_error, recv_starts, iperf_tcp_recv, count_bytes, count_interval,
       count_test
  <1>4. \A t \in Streams : Sends("client", t) => disk'[t] = disk[t]
    <2>1. Stage("server", s) /\ (Sends("server", s) => ~Sends("client", s))
      BY <1>0, EndsAre, OneSender DEF TransferInv, Stages, Shapes
    <2>2. CASE diskfile_send("server", s)
      <3>1. Sends("server", s)
        BY <2>1, <2>2 DEF diskfile_send, Stage
      <3>2. \A t \in Streams : t # s => disk'[t] = disk[t]
        BY <1>0, <2>2 DEF diskfile_send, Shapes
      <3> QED
        BY <2>1, <3>1, <3>2
    <2>3. CASE count_test("server", s)
      <3>1. disk' = disk \/ (Sends("server", s) /\ \A t \in Streams : t # s => disk'[t] = disk[t])
        BY <1>0, <2>3 DEF count_test, LeftInBuffer, Shapes
      <3> QED
        BY <2>1, <3>1
    <2>4. CASE ~diskfile_send("server", s) /\ ~count_test("server", s)
      BY <2>4 DEF WorkerStep, worker_ends, iperf_send_mt, iperf_tcp_send,
         write_nobufs, stream_error, recv_starts, iperf_tcp_recv, count_bytes, count_interval
    <2> QED
      BY <2>2, <2>3, <2>4
  <1>5. Closing' = Closing
    BY <1>0, <1>3 DEF Closing, Active
  <1>6. Decides
    BY <1>0, <1>3, <1>5, SameDecides
  <1>7. Idles
    BY <1>0, <1>1, <1>2, <1>4, SameIdles
  <1> QED
    BY <1>6, <1>7, IdleLimit

\* The statistics and the reports of either end.
LEMMA StatsLimit ==
  ASSUME TransferInv, TransferInv', LimitInv, NEW e \in Ends,
         \/ stats_timer(e) \/ stats_read(e) \/ stats_total(e) \/ stats_zero(e)
         \/ reset_omit(e) \/ reset_interval(e) \/ reporter_timer(e) \/ omit_timer(e)
  PROVE  LimitInv'
  <1>0. /\ Shapes /\ Shapes' /\ conf' = conf /\ worker' = worker /\ disk' = disk
    BY DEF TransferInv, stats_timer, stats_read, stats_total, stats_zero, reset_omit,
       reset_interval, reporter_timer, omit_timer, WorkersIdle
  <1>1. \A t \in Streams : Sends("client", t) \/ ~conf.omit =>
          result'["client"][t].bytes = result["client"][t].bytes
    <2> DEFINE s == main[e].s
               old == result[e][s]
    <2>0. \A t \in Streams, x \in Ends : result[x][t] \in ResultType
      BY <1>0 DEF Shapes
    <2>1. CASE stats_zero(e)
      <3> DEFINE new == [old EXCEPT !.last = main[e].seen, !.interval = 0]
      <3>1. s \in Streams /\ main[e].seen \in Nat
        BY <1>0, <2>1 DEF TransferInv, Walks, Walk, stats_zero, At, Shapes, MainType
      <3>2. result' = [result EXCEPT ![e][s] = new]
        BY <2>1 DEF stats_zero, add_to_interval_list, Cleared
      <3>3. new \in ResultType /\ new.bytes = old.bytes
        BY <2>0, <3>1 DEF ResultType
      <3> HIDE DEF s, new
      <3>4. /\ result'[e][s] = new
            /\ \A x \in Ends, t \in Streams : x # e \/ t # s => result'[x][t] = result[x][t]
        <4>1. result \in [Ends -> [Streams -> ResultType]] /\ s \in Streams
          BY <1>0, <3>1 DEF Shapes
        <4> QED
          BY ONLY <3>2, <4>1, e \in Ends
      <3> QED
        BY <3>3, <3>4, EndsAre
    <2>2. CASE reset_omit(e)
      <3> DEFINE new == IF Sends(e, s) THEN [old EXCEPT !.bytes_sent_omit = old.bytes]
                        ELSE [old EXCEPT !.bytes_sent_omit = old.peer, !.bytes = 0]
      <3>1. s \in Streams /\ conf.omit
        BY <1>0, <2>2 DEF TransferInv, Walks, Walk, reset_omit, At, Omits
      <3>2. result' = [result EXCEPT ![e][s] = new]
        BY <2>2 DEF reset_omit
      <3>3. new \in ResultType /\ (Sends(e, s) => new.bytes = old.bytes)
        BY <2>0, <3>1 DEF ResultType
      <3> HIDE DEF s, new
      <3>4. /\ result'[e][s] = new
            /\ \A x \in Ends, t \in Streams : x # e \/ t # s => result'[x][t] = result[x][t]
        <4>1. result \in [Ends -> [Streams -> ResultType]] /\ s \in Streams
          BY <1>0, <3>1 DEF Shapes
        <4> QED
          BY ONLY <3>2, <4>1, e \in Ends
      <3> QED
        BY <3>1, <3>3, <3>4, EndsAre
    <2>3. CASE reset_interval(e)
      <3> DEFINE new == [old EXCEPT !.interval = 0]
      <3>1. s \in Streams
        BY <1>0, <2>3 DEF TransferInv, Walks, Walk, reset_interval, At
      <3>2. result' = [result EXCEPT ![e][s] = new]
        BY <2>3 DEF reset_interval
      <3>3. new \in ResultType /\ new.bytes = old.bytes
        BY <2>0, <3>1 DEF ResultType
      <3> HIDE DEF s, new
      <3>4. /\ result'[e][s] = new
            /\ \A x \in Ends, t \in Streams : x # e \/ t # s => result'[x][t] = result[x][t]
        <4>1. result \in [Ends -> [Streams -> ResultType]] /\ s \in Streams
          BY <1>0, <3>1 DEF Shapes
        <4> QED
          BY ONLY <3>2, <4>1, e \in Ends
      <3> QED
        BY <3>3, <3>4, EndsAre
    <2>4. CASE ~stats_zero(e) /\ ~reset_omit(e) /\ ~reset_interval(e)
      BY <2>4 DEF stats_timer, stats_read, stats_total, reporter_timer, omit_timer
    <2> QED
      BY <2>1, <2>2, <2>3, <2>4
  <1>2. Idles
    BY <1>0, <1>1, SameIdles
  <1>3. CASE conf.omit
    BY <1>2, <1>3, IdleLimit DEF Decides
  <1>4. CASE ~conf.omit
    <2>1. ~omit_timer(e) /\ ~reset_omit(e) /\ ~reset_interval(e)
      BY <1>4 DEF omit_timer, reset_omit, reset_interval, At, TransferInv, Omits
    <2>2. test' = test
      BY <2>1 DEF stats_timer, stats_read, stats_total, stats_zero, reporter_timer
    <2>3. summary'["client"] = summary["client"]
      <3>1. CASE reporter_timer(e)
        <4>1. /\ main[e].pc = "report"
              /\ summary' = summary \/ iperf_reporter_callback(e, test[e].state)
          BY <3>1 DEF reporter_timer, At
        <4>2. test[e].state = "TEST_RUNNING"
          BY <4>1, Where DEF Ends, Running, InState
        <4> QED
          BY <4>1, <4>2 DEF iperf_reporter_callback
      <3>2. CASE ~reporter_timer(e)
        BY <2>1, <3>2 DEF stats_timer, stats_read, stats_total, stats_zero
      <3> QED
        BY <3>1, <3>2
    <2>4. Closing' => Closing
      <3>1. CASE e = "server"
        <4>1. main'["client"] = main["client"]
          BY <1>0, <2>1, <3>1, EndsAre DEF Shapes, stats_timer, stats_read, stats_total, stats_zero,
             reporter_timer, Go, Stats
        <4> QED
          BY <2>2, <4>1 DEF Closing, Active
      <3>2. CASE e = "client"
        <4>0. main["client"] \in MainType /\ main \in [Ends -> MainType]
          BY <1>0, EndsAre DEF Shapes
        <4>1. CASE stats_timer(e)
          <5>1. main'["client"].pc # "test_end" /\ (main'["client"].pc = "read" => main'["client"].then = "report")
                /\ main'["client"].pc \in {"check", "read"}
            BY <3>2, <4>0, <4>1, EndsAre DEF stats_timer, Go, Stats, AfterTimers, MainType
          <5> QED
            BY <2>2, <5>1 DEF Closing, Active
        <4>2. CASE stats_read(e) \/ stats_total(e)
          <5>1. /\ main["client"].pc \in {"read", "total"} /\ main'["client"].pc \in {"total", "zero"}
                /\ main'["client"].then = main["client"].then
            BY <3>2, <4>0, <4>2, EndsAre DEF stats_read, stats_total, At, MainType
          <5> QED
            BY <2>2, <5>1 DEF Closing, Active
        <4>3. CASE stats_zero(e)
          <5>1. /\ main["client"].pc = "zero" /\ main'["client"].then = main["client"].then
                /\ main'["client"].pc = "read" \/ main'["client"].pc = main["client"].then
            BY <3>2, <4>0, <4>3, EndsAre DEF stats_zero, At, MainType
          <5>2. main["client"].then \in {"report", "test_end"}
            BY <5>1, WalkWhere, EndsAre
          <5> QED
            BY <2>2, <5>1, <5>2 DEF Closing, Active
        <4>4. CASE reporter_timer(e)
          <5>1. main'["client"].pc = "check"
            BY <3>2, <4>0, <4>4, EndsAre DEF reporter_timer, Go, AfterTimers, MainType
          <5> QED
            BY <2>2, <5>1 DEF Closing, Active
        <4> QED
          BY <2>1, <4>1, <4>2, <4>3, <4>4
      <3> QED
        BY <3>1, <3>2 DEF Ends
    <2>5. Decides
      BY <1>0, <2>2, <2>3, <2>4, SameDecides
    <2> QED
      BY <1>2, <2>5, IdleLimit
  <1>5. conf.omit \in BOOLEAN
    BY <1>0, ConfIs DEF Shapes
  <1> QED
    BY <1>3, <1>4, <1>5

\* The server's handlers.
LEMMA ServerLimit ==
  ASSUME TransferInv, TransferInv', LimitInv,
         \/ server_report \/ server_test_end \/ server_exchange_results \/ server_done
         \/ GivesUp("server")
  PROVE  LimitInv'
  <1>0. Shapes /\ conf' = conf /\ disk' = disk
    BY DEF TransferInv, server_report, server_test_end, server_exchange_results, server_done,
       GivesUp, WorkersIdle
  <1>1. worker'["client"] = worker["client"]
    BY <1>0, EndsAre DEF Shapes, server_report, server_test_end, server_exchange_results, server_done,
       GivesUp, Cancel
  <1>2. result'["client"] = result["client"] /\ test'["client"] = test["client"]
    BY <1>0, EndsAre DEF Shapes, server_report, server_test_end, server_exchange_results, server_done,
       GivesUp, get_results
  <1>3. main'["client"] = main["client"]
    BY <1>0, EndsAre DEF Shapes, server_report, server_test_end, server_exchange_results, server_done,
       GivesUp, Go, Stats
  <1>4. summary'["client"] = summary["client"]
    BY <1>0, EndsAre DEF Shapes, server_report, server_test_end, server_exchange_results, server_done,
       GivesUp, iperf_reporter_callback
  <1>5. Closing' = Closing
    BY <1>2, <1>3 DEF Closing, Active
  <1> QED
    BY <1>0, <1>1, <1>2, <1>4, <1>5, SameDecides, SameIdles, IdleLimit

LEMMA ClientState ==
  ASSUME Shapes, NEW st \in TestStates, test' = [test EXCEPT !["client"].state = st]
  PROVE  /\ test'["client"].state = st /\ test'["client"].done = test["client"].done
         /\ test'["client"].bytes_sent = test["client"].bytes_sent
         /\ test'["client"].bytes_received = test["client"].bytes_received
  BY EndsAre DEF Shapes, TestType

\* The client's handlers that neither count nor print.
LEMMA ClientLimit ==
  ASSUME TransferInv, TransferInv', LimitInv,
         \/ client_test_running \/ client_test_end \/ client_exchange_results
         \/ client_get_results \/ client_join \/ test_timer_proc
  PROVE  LimitInv'
  <1>0. /\ Shapes /\ conf' = conf /\ disk' = disk /\ summary' = summary /\ Phase
    BY DEF TransferInv, client_test_running, client_test_end, client_exchange_results,
       client_get_results, client_join, test_timer_proc, WorkersIdle
  <1>1. \A t \in Streams : result'["client"][t].bytes = result["client"][t].bytes
    <2>1. CASE client_get_results
      <3>1. \A t \in Streams : result["client"][t] \in ResultType
        BY <1>0, EndsAre DEF Shapes
      <3> QED
        BY <1>0, <2>1, <3>1, EndsAre DEF client_get_results, get_results, Shapes, ResultType
    <2>2. CASE ~client_get_results
      BY <2>2 DEF client_test_running, client_test_end, client_exchange_results, client_join,
         test_timer_proc
    <2> QED
      BY <2>1, <2>2
  <1>2. \A t \in Streams :
          \/ worker'["client"][t] = worker["client"][t]
          \/ worker'["client"][t].pc = "gone"
          \/ worker["client"][t].pc = "none" /\ worker'["client"][t].pc = "top"
    <2>1. CASE client_test_running
      <3>1. Starting
        BY <2>1, ToldWhen DEF client_test_running
      <3>2. \A t \in Streams : worker["client"][t].pc = "none" /\ worker["client"][t] \in WorkerType
        BY <1>0, <3>1, EndsAre DEF Starting, Shapes
      <3> QED
        BY <1>0, <2>1, <3>2, EndsAre DEF client_test_running, Shapes, WorkerType
    <2>2. CASE client_join
      BY <1>0, <2>2, EndsAre DEF client_join, Cancel, Shapes
    <2>3. CASE ~client_test_running /\ ~client_join
      BY <2>3 DEF client_test_end, client_exchange_results, client_get_results, test_timer_proc
    <2> QED
      BY <2>1, <2>2, <2>3
  <1>3. Idles
    BY <1>0, <1>1, <1>2 DEF Idles
  <1>4. LimitIsMet' = LimitIsMet
    BY <1>0 DEF LimitIsMet, LimitMoved, FileSent
  <1>5. Decides
    <2>1. CASE test_timer_proc
      BY <2>1 DEF test_timer_proc, Decides
    <2>2. CASE client_join \/ client_get_results
      <3>1. test' = test /\ ~Active
        <4>1. main["client"].pc \in {"join", "results"} /\ test' = test
          BY <2>2 DEF client_join, client_get_results, At
        <4> QED
          BY <1>0, <4>1 DEF Phase, Starting, Running, Ending, Stopping, Asking, Telling, Answering,
             Displaying, Finishing, Finished, InState, Places, Busy, Active
      <3>2. Closing
        BY <3>1 DEF Closing
      <3> QED
        BY <1>0, <3>1, <3>2, SameDecides
    <2>3. CASE client_test_running
      <3>1. /\ Starting /\ test' = [test EXCEPT !["client"].state = "TEST_RUNNING"]
            /\ Go("client", "check")
        BY <2>3, ToldWhen DEF client_test_running
      <3>2. "TEST_RUNNING" \in TestStates /\ "check" \in MainPcs
        BY DEF TestStates, MainPcs
      <3>3. /\ test'["client"].state = "TEST_RUNNING" /\ test'["client"].done = test["client"].done
            /\ test'["client"].bytes_sent = test["client"].bytes_sent
            /\ test'["client"].bytes_received = test["client"].bytes_received
        BY <1>0, <3>1, <3>2, ClientState
      <3>4. main'["client"].pc = "check"
        BY <1>0, <3>1, <3>2, MainGoes, EndsAre
      <3>5. Active /\ Active' /\ ~Closing'
        BY <3>1, <3>3, <3>4 DEF Starting, InState, Active, Closing
      <3> QED
        BY <1>4, <3>3, <3>5 DEF Decides, LimitInv
    <2>4. CASE client_test_end
      <3>1. /\ test' = [test EXCEPT !["client"].state = "TEST_END"] /\ main["client"].pc = "test_end"
            /\ "TEST_END" \in TestStates
        BY <2>4 DEF client_test_end, At, TestStates
      <3>2. /\ test'["client"].state = "TEST_END" /\ test'["client"].done = test["client"].done
            /\ test'["client"].bytes_sent = test["client"].bytes_sent
            /\ test'["client"].bytes_received = test["client"].bytes_received
        BY <1>0, <3>1, ClientState
      <3>3. Closing /\ ~Active'
        BY <3>1, <3>2 DEF Closing, Active
      <3> QED
        BY <1>4, <3>2, <3>3 DEF Decides, LimitInv
    <2>5. CASE client_exchange_results
      <3>1. /\ test' = [test EXCEPT !["client"].state = "EXCHANGE_RESULTS"] /\ Asking
            /\ "EXCHANGE_RESULTS" \in TestStates
        BY <2>5, ToldWhen DEF client_exchange_results, TestStates
      <3>2. /\ test'["client"].state = "EXCHANGE_RESULTS" /\ test'["client"].done = test["client"].done
            /\ test'["client"].bytes_sent = test["client"].bytes_sent
            /\ test'["client"].bytes_received = test["client"].bytes_received
        BY <1>0, <3>1, ClientState
      <3>3. Closing /\ ~Active'
        BY <3>1, <3>2 DEF Closing, Active, Asking, InState
      <3> QED
        BY <1>4, <3>2, <3>3 DEF Decides, LimitInv
    <2> QED
      BY <2>1, <2>2, <2>3, <2>4, <2>5
  <1> QED
    BY <1>3, <1>5, IdleLimit

\* The client looks whether the limit is reached: it is, in bytes counted for a stream.
LEMMA CheckLimit ==
  ASSUME TransferInv, TransferInv', LimitInv, client_check_done
  PROVE  LimitInv'
  <1>0. /\ Shapes /\ conf' = conf /\ disk' = disk /\ summary' = summary /\ result' = result
        /\ main["client"].pc = "check" /\ conf \in Confs
    BY DEF TransferInv, client_check_done, WorkersIdle, At, Shapes
  <1>1. Active
    BY <1>0, Where DEF Running, InState, Active
  <1>2. LimitIsMet' = LimitIsMet
    BY <1>0 DEF LimitIsMet, LimitMoved, FileSent
  <1>3. CASE TestDone
    <2>1. /\ test' = [test EXCEPT !["client"].done = TRUE] /\ Stats("client", "test_end")
          /\ Cancel("client", {s \in Streams : Sends("client", s)})
      BY <1>3 DEF client_check_done
    <2>2. /\ test'["client"].done = TRUE /\ test'["client"].state = test["client"].state
          /\ test'["client"].bytes_sent = test["client"].bytes_sent
          /\ test'["client"].bytes_received = test["client"].bytes_received
      BY <1>0, <2>1, EndsAre DEF Shapes, TestType
    <2>3. Idles
      <3>1. \A t \in Streams : worker'["client"][t] = worker["client"][t]
                               \/ worker'["client"][t].pc = "gone"
        BY <1>0, <2>1, EndsAre DEF Cancel, Shapes
      <3> QED
        BY <1>0, <3>1 DEF Idles
    <2>4. ASSUME ~conf.omit, conf.bytes # 0 PROVE test["client"].done \/ Moved
      <3>1. Tallied /\ conf.bytes \in Nat /\ conf.blocks = 0
        BY <1>0, <2>4, ConfLimits DEF LimitInv
      <3>2. test["client"].bytes_sent \in Nat /\ test["client"].bytes_received \in Nat
        BY <1>0, EndsAre DEF Shapes, TestType
      <3>3. \/ test["client"].done \/ test["client"].bytes_sent >= conf.bytes
            \/ test["client"].bytes_received >= conf.bytes
        BY <1>3, <3>1 DEF TestDone, EndReached
      <3> DEFINE a == SumFunctionOnSet(Booked, Dir("client", TRUE))
                 b == SumFunctionOnSet(Booked, Dir("client", FALSE))
                 x == SumFunctionOnSet(Bytes, Dir("client", TRUE))
                 y == SumFunctionOnSet(Bytes, Dir("client", FALSE))
      <3>4. a \in Int /\ b \in Int /\ x \in Int /\ y \in Int /\ a <= x /\ b <= y
        BY <1>0, BookedIs
      <3>5. test["client"].bytes_sent <= a /\ test["client"].bytes_received <= b
        BY <1>1, <3>1 DEF Tallied
      <3> HIDE DEF a, b, x, y
      <3>6. test["client"].done \/ x >= conf.bytes \/ y >= conf.bytes
        BY <3>1, <3>2, <3>3, <3>4, <3>5
      <3>7. x >= conf.bytes \/ y >= conf.bytes => Moved
        BY DEF Moved, x, y
      <3> QED
        BY <3>6, <3>7
    <2>5. Active' = Active
      BY <2>2 DEF Active
    <2>6. Decides
      BY <1>2, <2>2, <2>4, <2>5 DEF Decides, LimitInv
    <2> QED
      BY <2>3, <2>6, IdleLimit
  <1>4. CASE ~TestDone
    <2>1. UNCHANGED <<test, worker>> /\ Go("client", "select")
      BY <1>4 DEF client_check_done
    <2>2. main'["client"].pc = "select"
      BY <1>0, <2>1, EndsAre DEF Go, Shapes, MainType
    <2>3. ~Closing'
      BY <1>1, <2>1, <2>2 DEF Closing, Active
    <2> QED
      BY <1>0, <2>1, <2>3, SameDecides, SameIdles, IdleLimit
  <1> QED
    BY <1>3, <1>4

\* The client prints.
LEMMA PrintLimit ==
  ASSUME TransferInv, TransferInv', LimitInv, client_display_results \/ GivesUp("client")
  PROVE  LimitInv'
  <1>0. /\ Shapes /\ conf' = conf /\ disk' = disk /\ result' = result /\ Phase
    BY DEF TransferInv, client_display_results, GivesUp, WorkersIdle
  <1>1. Idles
    <2>1. \A t \in Streams : worker'["client"][t] = worker["client"][t]
                             \/ worker'["client"][t].pc = "gone"
      BY <1>0, EndsAre DEF Cancel, Shapes, client_display_results, GivesUp
    <2> QED
      BY <1>0, <2>1 DEF Idles
  <1>2. /\ test'["client"].done = test["client"].done
        /\ test'["client"].bytes_sent = test["client"].bytes_sent
        /\ test'["client"].bytes_received = test["client"].bytes_received
        /\ Active' => Active
    <2>1. CASE GivesUp("client")
      BY <2>1 DEF GivesUp, Active
    <2>2. CASE client_display_results
      <3>1. test' = [test EXCEPT !["client"].state = "IPERF_DONE"] /\ "IPERF_DONE" \in TestStates
        BY <2>2 DEF client_display_results, TestStates
      <3>2. /\ test'["client"].state = "IPERF_DONE" /\ test'["client"].done = test["client"].done
            /\ test'["client"].bytes_sent = test["client"].bytes_sent
            /\ test'["client"].bytes_received = test["client"].bytes_received
        BY <1>0, <3>1, ClientState
      <3> QED
        BY <3>2 DEF Active
    <2> QED
      BY <2>1, <2>2
  <1>3. Closing' => Closing
    <2>1. CASE GivesUp("client")
      <3>1. main'["client"].pc = "aborted" /\ test' = test
        BY <1>0, <2>1, EndsAre DEF GivesUp, Go, Shapes, MainType
      <3> QED
        BY <3>1 DEF Closing, Active
    <2>2. CASE client_display_results
      <3>1. Displaying
        BY <2>2, ToldWhen DEF client_display_results
      <3> QED
        BY <3>1 DEF Displaying, InState, Closing, Active
    <2> QED
      BY <2>1, <2>2
  <1>4. /\ summary'["client"] = summary["client"]
           \/ (summary'["client"] = iperf_print_results("client") /\ ~Active)
    <2>1. CASE GivesUp("client")
      BY <1>0, <2>1, EndsAre DEF GivesUp, iperf_reporter_callback, Shapes, Active
    <2>2. CASE client_display_results
      <3>1. Displaying
        BY <2>2, ToldWhen DEF client_display_results
      <3> QED
        BY <1>0, <2>2, <3>1, EndsAre DEF client_display_results, iperf_reporter_callback, Shapes,
           Displaying, InState, Active
    <2> QED
      BY <2>1, <2>2
  <1>5. ASSUME ~conf.omit, conf.bytes # 0 PROVE LimitIsMet'
    <2>1. CASE summary'["client"] = summary["client"]
      <3>1. LimitIsMet' = LimitIsMet
        BY <1>0, <2>1 DEF LimitIsMet, LimitMoved, FileSent
      <3> QED
        BY <1>5, <3>1 DEF LimitInv
    <2>2. CASE summary'["client"] = iperf_print_results("client") /\ ~Active
      <3>1. Moved \/ FileRead
        BY <1>5, <2>2 DEF LimitInv, Closing
      <3> QED
        BY <1>0, <1>5, <2>2, <3>1, PrintMeets
    <2> QED
      BY <1>4, <2>1, <2>2
  <1>6. Decides
    BY <1>2, <1>3, <1>5 DEF Decides, LimitInv
  <1> QED
    BY <1>1, <1>6, IdleLimit

LEMMA LimitInit == Init => LimitInv
  <1> SUFFICES ASSUME Init PROVE LimitInv
    OBVIOUS
  <1>0. conf \in Confs /\ conf.file \in Nat
    BY ConfIs DEF Init
  <1>1. \A s \in Streams :
          /\ worker["client"][s].pc = "none" /\ result["client"][s].bytes = 0
          /\ disk[s].diskfile_left = 0 /\ disk[s].unread = conf.file
    BY EndsAre DEF Init
  <1>2. FilesKept
    BY <1>0, <1>1 DEF FilesKept, FileKept
  <1>3. /\ ~test["client"].done /\ test["client"].state = "TEST_START"
        /\ test["client"].bytes_sent = 0 /\ test["client"].bytes_received = 0
        /\ main["client"].pc = "select" /\ summary["client"] = <<>>
    BY EndsAre DEF Init
  <1>4. ~Closing /\ LimitIsMet
    BY <1>3 DEF Closing, Active, LimitIsMet, LimitMoved
  <1>5. ASSUME NEW d \in BOOLEAN PROVE 0 <= SumFunctionOnSet(Booked, Dir("client", d))
    <2> DEFINE S == Dir("client", d)
               z == [s \in Streams |-> 0]
               N == {T \in SUBSET S : SumFunctionOnSet(z, T) = 0}
    <2>1. IsFiniteSet(S) /\ S \subseteq Streams
      BY <1>0, StreamsFinite
    <2>2. {} \in N
      <3>1. SumFunctionOnSet(z, {}) = 0
        BY FS_EmptySet, SumEquation
      <3> QED
        BY <3>1
    <2>3. ASSUME NEW T \in SUBSET S, T # {} PROVE T \ {Pick(T)} \in N => T \in N
      <3>1. IsFiniteSet(T) /\ Pick(T) \in T
        BY <2>1, <2>3, FS_Subset, PickIn
      <3>2. SumFunctionOnSet(z, T) = z[Pick(T)] + SumFunctionOnSet(z, T \ {Pick(T)})
        BY <2>3, <3>1, SumEquation
      <3>3. z[Pick(T)] = 0
        BY <2>1, <3>1
      <3> HIDE DEF z, S
      <3> QED
        BY <3>2, <3>3
    <2>4. \A T \in SUBSET S : T # {} => \E x \in T : (T \ {x} \in N => T \in N)
      <3> HIDE DEF N
      <3> QED
        BY <2>3, PickIn
    <2>5. N = SUBSET S
      <3>1. N \in SUBSET (SUBSET S) /\ IsFiniteSet(S)
        BY <2>1
      <3> HIDE DEF N, S
      <3> QED
        BY ONLY <2>2, <2>4, <3>1, BySize
    <2>6. SumFunctionOnSet(z, S) = 0
      BY <2>5
    <2>7. \A s \in S : z[s] \in Int /\ Booked[s] = z[s]
      BY <1>1, <2>1 DEF Booked, BookedAt
    <2> HIDE DEF z, S
    <2>8. SumFunctionOnSet(Booked, S) = 0
      BY <2>1, <2>6, <2>7, SumSame
    <2> QED
      BY <2>8 DEF S
  <1>6. Tallied
    BY <1>3, <1>5 DEF Tallied
  <1> QED
    BY <1>2, <1>3, <1>4, <1>6 DEF LimitInv

LEMMA LimitStep ==
  ASSUME TransferInv, TransferInv', LimitInv, [Next]_vars
  PROVE  LimitInv'
  <1>1. ASSUME NEW e \in Ends, NEW s \in AllStreams, WorkerStep(e, s) PROVE LimitInv'
    BY <1>1, ClientWorks, ServerWorks DEF Ends
  <1>2. ASSUME NEW e \in Ends, MainStep(e) PROVE LimitInv'
    BY <1>2, StatsLimit, CheckLimit, ClientLimit, ServerLimit DEF MainStep
  <1>3. CASE ClientSelect
    BY <1>3, ClientLimit, PrintLimit DEF ClientSelect, ctrl_closed
  <1>4. CASE ServerSelect
    BY <1>4, ServerLimit DEF ServerSelect, server_total_rate, server_rcv_timeout, ctrl_closed
  <1>5. CASE client_rcv_timeout
    <2>1. CASE TestDone
      <3>1. /\ UNCHANGED <<test, result, worker, summary>> /\ conf' = conf /\ disk' = disk
            /\ Go("client", "check") /\ Quiet
        BY <1>5, <2>1 DEF client_rcv_timeout, WorkersIdle
      <3>2. main'["client"].pc = "check"
        BY <3>1, EndsAre DEF TransferInv, Shapes, MainType, Go
      <3>3. Active
        BY <3>1, EndsAre DEF Quiet, Active
      <3>4. ~Closing'
        BY <3>1, <3>2, <3>3 DEF Closing, Active
      <3> QED
        BY <3>1, <3>4, SameDecides, SameIdles, IdleLimit
    <2>2. CASE ~TestDone
      BY <1>5, <2>2, PrintLimit DEF client_rcv_timeout
    <2> QED
      BY <2>1, <2>2
  <1>6. CASE Timer
    BY <1>6, ClientLimit, StatsLimit DEF Timer
  <1>7. CASE UNCHANGED vars
    <2>1. /\ UNCHANGED <<test, result, worker, summary, main>> /\ conf' = conf /\ disk' = disk
      BY <1>7 DEF vars
    <2>2. Closing' = Closing
      BY <2>1 DEF Closing, Active
    <2> QED
      BY <2>1, <2>2, SameDecides, SameIdles, IdleLimit
  <1> QED
    BY <1>1, <1>2, <1>3, <1>4, <1>5, <1>6, <1>7 DEF Next

\* A test that ends by its number of bytes and has no omitted period never reports less
\* than that number in both directions, whatever the client's threads were doing when it
\* looked at their counters and cancelled them, unless it sent a file to its end (or read
\* one whose blocks a write failing with ENOBUFS may have dropped).
THEOREM LimitAlwaysMet == Spec => []LimitIsMet
  <1>1. LimitInv => LimitIsMet
    <2> SUFFICES ASSUME LimitInv, ~conf.omit, conf.bytes = 0 PROVE LimitIsMet
      BY DEF LimitInv, LimitIsMet
    <2> QED
      BY DEF LimitIsMet, LimitMoved
  <1>2. Init => TransferInv /\ LimitInv
    BY InitInv, LimitInit
  <1>3. TransferInv /\ LimitInv /\ [Next]_vars => TransferInv' /\ LimitInv'
    BY NextInv, LimitStep
  <1> QED
    BY <1>1, <1>2, <1>3, PTL DEF Spec

-----------------------------------------------------------------------------
(* The two reports.                                                        *)

\* What the server itself counted.
Own(X, s) == IF Sends("server", s) THEN X[s].sent ELSE X[s].received
\* v says of each stream what X says, or up to a block more.
Near(X, v) == \A s \in Streams : v[s] \in Int /\ Own(X, s) <= v[s] /\ v[s] <= Own(X, s) + Block

\* Read by a thread of the server, and not yet counted.
Pend(s) == IF worker["server"][s].pc = "bytes" THEN worker["server"][s].r ELSE 0

\* What the server told of its streams, as the client gets it.
Heard == IF main["client"].pc = "results" THEN ctrl["client"][1].doc ELSE Peers

\* The way of the server's numbers, from its own report to that of the client.
Follows(X) ==
  /\ test["server"].state = "EXCHANGE_RESULTS" =>
       \A s \in Streams : /\ Own(X, s) <= Counted("server", s)
                          /\ Counted("server", s) + Pend(s) <= Own(X, s) + Block
  /\ InState("EXCHANGE_RESULTS", "DISPLAY_RESULTS") => Near(X, Heard)
  /\ test["client"].state = "IPERF_DONE" =>
       \E Y \in Lines : /\ summary["client"] = Table("client", Y)
                        /\ Near(X, [s \in Streams |-> Own(Y, s)])

\* What the server told is not there before the exchange, and no part of what the server
\* sent is left out as omitted.
PeersInv ==
  \A s \in Streams :
    /\ Active => result["client"][s].peer = 0
    /\ Sends("server", s) => result["client"][s].bytes_sent_omit = 0

Early == test["server"].state \in {"TEST_RUNNING", "TEST_END"}
ReportInv ==
  IF Early
  THEN /\ summary["server"] = <<>>
       /\ summary["client"] # <<>> => main["client"].pc = "aborted"
  ELSE /\ test["client"].state # "IPERF_DONE" => summary["client"] = <<>>
       /\ \E X \in Lines : summary["server"] = Table("server", X) /\ Follows(X)

LEMMA NearSums ==
  ASSUME conf \in Confs, NEW X \in Lines, NEW Y \in Lines, NEW d \in BOOLEAN,
         Near(X, [s \in Streams |-> Own(Y, s)])
  PROVE  LET D == Dir("server", d)
             late == IF d THEN SumFunctionOnSet(SentIn(Y), D) - SumFunctionOnSet(SentIn(X), D)
                     ELSE SumFunctionOnSet(GotIn(Y), D) - SumFunctionOnSet(GotIn(X), D)
         IN late \in 0..Block * Cardinality(D)
  <1> DEFINE D == Dir("server", d)
  <1>1. IsFiniteSet(D) /\ D \subseteq Streams /\ Block \in Nat /\ Cardinality(D) \in Nat
    BY StreamsFinite, Sizes, FS_CardinalityType
  <1>2. \A s \in Streams : Own(Y, s) \in Int /\ Own(X, s) <= Own(Y, s) /\ Own(Y, s) <= Own(X, s) + Block
    BY DEF Near
  <1>3. PICK m \in Int : m = Block * Cardinality(D)
    BY <1>1
  <1>4. ASSUME NEW f, NEW g, \A s \in D : f[s] = Own(X, s) /\ g[s] = Own(Y, s) /\ f[s] \in Int
        PROVE  SumFunctionOnSet(g, D) - SumFunctionOnSet(f, D) \in 0..Block * Cardinality(D)
    <2>1. \A s \in D : /\ f[s] \in Int /\ g[s] \in Int
                       /\ f[s] <= g[s] /\ g[s] <= f[s] + Block
      BY <1>1, <1>2, <1>4
    <2> HIDE DEF D
    <2>2. /\ SumFunctionOnSet(f, D) <= SumFunctionOnSet(g, D)
          /\ SumFunctionOnSet(g, D) <= SumFunctionOnSet(f, D) + Block * Cardinality(D)
      BY <1>1, <2>1, SumNear
    <2>3. SumFunctionOnSet(f, D) \in Int /\ SumFunctionOnSet(g, D) \in Int
      BY <1>1, <2>1, SumIsInt
    <2>4. SumFunctionOnSet(g, D) - SumFunctionOnSet(f, D) \in 0..m
      BY <1>3, <2>2, <2>3
    <2> QED
      BY <1>3, <2>4
  <1>5. CASE d
    <2>1. \A s \in D : /\ SentIn(X)[s] = Own(X, s) /\ SentIn(Y)[s] = Own(Y, s)
                       /\ SentIn(X)[s] \in Int
      BY <1>1, <1>5 DEF Dir, SentIn, Own, Lines
    <2>2. SumFunctionOnSet(SentIn(Y), D) - SumFunctionOnSet(SentIn(X), D)
            \in 0..Block * Cardinality(D)
      <3> HIDE DEF D
      <3> QED
        BY <1>4, <2>1
    <2> QED
      BY <1>5, <2>2
  <1>6. CASE ~d
    <2>1. \A s \in D : /\ GotIn(X)[s] = Own(X, s) /\ GotIn(Y)[s] = Own(Y, s)
                       /\ GotIn(X)[s] \in Int
      BY <1>1, <1>6 DEF Dir, GotIn, Own, Lines
    <2>2. SumFunctionOnSet(GotIn(Y), D) - SumFunctionOnSet(GotIn(X), D)
            \in 0..Block * Cardinality(D)
      <3> HIDE DEF D
      <3> QED
        BY <1>4, <2>1
    <2> QED
      BY <1>6, <2>2
  <1> QED
    BY <1>5, <1>6

LEMMA InvReports == TransferInv /\ ReportInv => ReportsAgree
  <1> SUFFICES ASSUME TransferInv, ReportInv, BothPrinted PROVE ReportsAgree
    BY DEF ReportsAgree
  <1>0. conf \in Confs /\ summary["client"] # <<>> /\ summary["server"] # <<>>
    BY EndsAre DEF TransferInv, Shapes, BothPrinted
  <1>1. ~Early /\ test["client"].state = "IPERF_DONE"
    BY <1>0 DEF ReportInv
  <1>2. PICK X \in Lines : summary["server"] = Table("server", X) /\ Follows(X)
    BY <1>1 DEF ReportInv
  <1>3. PICK Y \in Lines : /\ summary["client"] = Table("client", Y)
                           /\ Near(X, [s \in Streams |-> Own(Y, s)])
    BY <1>1, <1>2 DEF Follows
  <1>4. /\ Range(summary["server"]) = {Row("server", X, d) : d \in Shown("server")}
        /\ Range(summary["client"]) = {Row("client", Y, d) : d \in Shown("client")}
    BY <1>0, <1>2, <1>3, TableRows, EndsAre
  <1>5. \A e, Z, d : /\ Row(e, Z, d).sender = d
                     /\ Row(e, Z, d).sum_sent = SumFunctionOnSet(SentIn(Z), Dir(e, d))
                     /\ Row(e, Z, d).sum_received = SumFunctionOnSet(GotIn(Z), Dir(e, d))
                     /\ DOMAIN Row(e, Z, d).streams = Dir(e, d)
    BY DEF Row
  <1>6. Directions("server") = Shown("server") /\ Directions("client") = Shown("client")
    BY <1>4, <1>5 DEF Directions
  <1>7. \A d \in BOOLEAN : Dir("client", ~d) = Dir("server", d)
    <2>1. \A s \in Streams : Sends("client", s) <=> ~Sends("server", s)
      BY <1>0, OneSender, EndsAre
    <2>2. \A s \in Streams : Sends("client", s) \in BOOLEAN /\ Sends("server", s) \in BOOLEAN
      BY DEF Sends
    <2> QED
      BY <2>1, <2>2 DEF Dir
  <1>8. Shown("client") = {~d : d \in Shown("server")}
    <2>1. \A d \in BOOLEAN : (~d) \in Shown("client") <=> d \in Shown("server")
      BY <1>7 DEF Shown
    <2>2. \A d \in BOOLEAN : (~d) \in BOOLEAN /\ (~(~d)) = d
      OBVIOUS
    <2>3. Shown("client") \subseteq BOOLEAN /\ Shown("server") \subseteq BOOLEAN
      BY DEF Shown
    <2> QED
      BY <2>1, <2>2, <2>3
  <1>9. ASSUME NEW d \in Shown("server")
        PROVE  /\ Pass("server", d) = Row("server", X, d)
               /\ Pass("client", ~d) = Row("client", Y, ~d)
    <2>1. (~d) \in Shown("client")
      BY <1>8
    <2>2. Row("server", X, d) \in Range(summary["server"])
          /\ \A p \in Range(summary["server"]) : p.sender = d => p = Row("server", X, d)
      BY <1>4, <1>5
    <2>3. Row("client", Y, ~d) \in Range(summary["client"])
          /\ \A p \in Range(summary["client"]) : p.sender = (~d) => p = Row("client", Y, ~d)
      BY <1>4, <1>5, <2>1
    <2>4. Row("server", X, d).sender = d /\ Row("client", Y, ~d).sender = (~d)
      BY <1>5
    <2> QED
      BY <2>2, <2>3, <2>4 DEF Pass
  <1>10. ASSUME NEW d \in Shown("server")
         PROVE  LET mine   == Pass("server", d)
                    theirs == Pass("client", ~d)
                    late   == IF d THEN theirs.sum_sent - mine.sum_sent
                                   ELSE theirs.sum_received - mine.sum_received
                IN late \in 0..Block * Cardinality(DOMAIN mine.streams)
    <2> DEFINE D == Dir("server", d)
               mine == Pass("server", d)
               theirs == Pass("client", ~d)
    <2>1. d \in BOOLEAN /\ Dir("client", ~d) = D
      BY <1>7 DEF Shown
    <2>2. /\ mine.sum_sent = SumFunctionOnSet(SentIn(X), D)
          /\ mine.sum_received = SumFunctionOnSet(GotIn(X), D)
          /\ DOMAIN mine.streams = D
      BY <1>5, <1>9
    <2>3. /\ theirs.sum_sent = SumFunctionOnSet(SentIn(Y), D)
          /\ theirs.sum_received = SumFunctionOnSet(GotIn(Y), D)
      BY <1>5, <1>9, <2>1
    <2>4. (IF d THEN SumFunctionOnSet(SentIn(Y), D) - SumFunctionOnSet(SentIn(X), D)
           ELSE SumFunctionOnSet(GotIn(Y), D) - SumFunctionOnSet(GotIn(X), D))
          \in 0..Block * Cardinality(D)
      BY <1>0, <1>3, <2>1, NearSums
    <2> HIDE DEF D, mine, theirs
    <2>5. (IF d THEN theirs.sum_sent - mine.sum_sent
           ELSE theirs.sum_received - mine.sum_received) \in 0..Block * Cardinality(DOMAIN mine.streams)
      BY <2>2, <2>3, <2>4
    <2> QED
      BY <2>5 DEF mine, theirs
  <1> QED
    BY <1>6, <1>8, <1>10 DEF ReportsAgree

LEMMA PeersStay ==
  ASSUME PeersInv, conf' = conf, Active' => Active,
         \A t \in Streams :
           /\ result'["client"][t].peer = result["client"][t].peer
           /\ result'["client"][t].bytes_sent_omit = result["client"][t].bytes_sent_omit
  PROVE  PeersInv'
  BY SameConf DEF PeersInv

\* A thread leaves the results of the exchange, the states and the handlers alone.
LEMMA ThreadLeaves ==
  ASSUME TransferInv, NEW e \in Ends, NEW s, WorkerStep(e, s)
  PROVE  /\ s \in Streams /\ conf' = conf /\ main' = main /\ ctrl' = ctrl /\ summary' = summary
         /\ \A x \in Ends : test'[x].state = test[x].state
         /\ \A x \in Ends, t \in Streams :
              /\ result'[x][t].peer = result[x][t].peer
              /\ result'[x][t].bytes_sent_omit = result[x][t].bytes_sent_omit
  <1>0. /\ s \in Streams /\ Shapes /\ conf' = conf /\ main' = main /\ ctrl' = ctrl
        /\ summary' = summary
    BY DEF WorkerStep, TransferInv, worker_ends, iperf_send_mt, diskfile_send, iperf_tcp_send,
       write_nobufs, stream_error, recv_starts, iperf_tcp_recv, count_bytes, count_interval,
       count_test, MainIdle, control
  <1>1. \A x \in Ends : test'[x].state = test[x].state
    <2>1. test \in [Ends -> TestType] /\ \A x \in Ends : test[x] \in TestType
      BY <1>0 DEF Shapes
    <2>2. CASE diskfile_send(e, s)
      BY <2>1, <2>2 DEF diskfile_send, TestType
    <2>3. CASE count_test(e, s)
      BY <2>1, <2>3 DEF count_test, TestType
    <2>4. CASE ~diskfile_send(e, s) /\ ~count_test(e, s)
      BY <2>4 DEF WorkerStep, worker_ends, iperf_send_mt, iperf_tcp_send,
         write_nobufs, stream_error, recv_starts, iperf_tcp_recv, count_bytes, count_interval
    <2> QED
      BY <2>2, <2>3, <2>4
  <1>2. \A x \in Ends, t \in Streams :
          /\ result'[x][t].peer = result[x][t].peer
          /\ result'[x][t].bytes_sent_omit = result[x][t].bytes_sent_omit
    <2>1. /\ result \in [Ends -> [Streams -> ResultType]]
          /\ \A x \in Ends, t \in Streams : result[x][t] \in ResultType
      BY <1>0 DEF Shapes
    <2>2. CASE count_bytes(e, s)
      BY <1>0, <2>1, <2>2 DEF count_bytes, ResultType
    <2>3. CASE count_interval(e, s)
      BY <1>0, <2>1, <2>3 DEF count_interval, ResultType
    <2>4. CASE ~count_bytes(e, s) /\ ~count_interval(e, s)
      BY <2>4 DEF WorkerStep, worker_ends, iperf_send_mt, diskfile_send, iperf_tcp_send,
         write_nobufs, stream_error, recv_starts, iperf_tcp_recv, count_test
    <2> QED
      BY <2>2, <2>3, <2>4
  <1> QED
    BY <1>0, <1>1, <1>2

\* So do the statistics, but for what was omitted.
LEMMA StatsLeave ==
  ASSUME TransferInv, NEW e \in Ends,
         \/ stats_timer(e) \/ stats_read(e) \/ stats_total(e) \/ stats_zero(e)
         \/ reset_omit(e) \/ reset_interval(e) \/ reporter_timer(e) \/ omit_timer(e)
  PROVE  /\ conf' = conf /\ ctrl' = ctrl /\ summary' = summary /\ worker' = worker
         /\ \A x \in Ends : test'[x].state = test[x].state
         /\ \A x \in Ends, t \in Streams :
              /\ result'[x][t].peer = result[x][t].peer
              /\ reset_omit(e) \/ result'[x][t].bytes_sent_omit = result[x][t].bytes_sent_omit
              /\ reset_omit(e) \/ result'[x][t].bytes = result[x][t].bytes
              /\ x = "client" /\ reset_omit(e) =>
                   \/ result'[x][t].bytes_sent_omit = result[x][t].bytes_sent_omit
                   \/ Sends(x, t)
                   \/ e = "client" /\ result'[x][t].bytes_sent_omit = result[x][t].peer
  <1>0. Shapes /\ conf' = conf /\ ctrl' = ctrl /\ worker' = worker
    BY DEF TransferInv, stats_timer, stats_read, stats_total, stats_zero, reset_omit,
       reset_interval, reporter_timer, omit_timer, WorkersIdle
  <1>1. summary' = summary
    <2>1. CASE reporter_timer(e)
      <3>1. /\ main[e].pc = "report"
            /\ summary' = summary \/ iperf_reporter_callback(e, test[e].state)
        BY <2>1 DEF reporter_timer, At
      <3>2. test[e].state = "TEST_RUNNING"
        BY <3>1, Where DEF Ends, Running, InState
      <3> QED
        BY <3>1, <3>2 DEF iperf_reporter_callback
    <2>2. CASE ~reporter_timer(e)
      BY <2>2 DEF stats_timer, stats_read, stats_total, stats_zero, reset_omit, reset_interval,
         omit_timer
    <2> QED
      BY <2>1, <2>2
  <1>2. \A x \in Ends : test'[x].state = test[x].state
    <2>1. test \in [Ends -> TestType] /\ \A x \in Ends : test[x] \in TestType
      BY <1>0 DEF Shapes
    <2>2. CASE omit_timer(e)
      BY <2>1, <2>2 DEF omit_timer, TestType
    <2>3. CASE ~omit_timer(e)
      BY <2>3 DEF stats_timer, stats_read, stats_total, stats_zero, reset_omit, reset_interval,
         reporter_timer
    <2> QED
      BY <2>2, <2>3
  <1> DEFINE s == main[e].s
             old == result[e][s]
  <1>3. \A t \in Streams, x \in Ends : result[x][t] \in ResultType
    BY <1>0 DEF Shapes
  <1>4. CASE reset_omit(e)
    <2> DEFINE new == IF Sends(e, s) THEN [old EXCEPT !.bytes_sent_omit = old.bytes]
                      ELSE [old EXCEPT !.bytes_sent_omit = old.peer, !.bytes = 0]
    <2>1. s \in Streams
      BY <1>0, <1>4 DEF TransferInv, Walks, Walk, reset_omit, At
    <2>2. result' = [result EXCEPT ![e][s] = new]
      BY <1>4 DEF reset_omit
    <2>3. /\ new \in ResultType /\ new.peer = old.peer
          /\ ~Sends(e, s) => new.bytes_sent_omit = old.peer
      BY <1>3, <2>1 DEF ResultType
    <2> HIDE DEF s, old, new
    <2>4. /\ result'[e][s] = new
          /\ \A x \in Ends, t \in Streams : x # e \/ t # s => result'[x][t] = result[x][t]
      <3>1. result \in [Ends -> [Streams -> ResultType]] /\ s \in Streams
        BY <1>0, <2>1 DEF Shapes
      <3> QED
        BY ONLY <2>2, <3>1, e \in Ends
    <2> QED
      BY <1>0, <1>1, <1>2, <1>4, <2>3, <2>4 DEF old
  <1>5. CASE ~reset_omit(e)
    <2>1. CASE stats_zero(e)
      <3> DEFINE new == [old EXCEPT !.last = main[e].seen, !.interval = 0]
      <3>1. s \in Streams /\ main[e].seen \in Nat
        BY <1>0, <2>1 DEF TransferInv, Walks, Walk, stats_zero, At, Shapes, MainType
      <3>2. result' = [result EXCEPT ![e][s] = new]
        BY <2>1 DEF stats_zero, add_to_interval_list, Cleared
      <3>3. /\ new \in ResultType /\ new.peer = old.peer /\ new.bytes = old.bytes
            /\ new.bytes_sent_omit = old.bytes_sent_omit
        BY <1>3, <3>1 DEF ResultType
      <3> HIDE DEF s, old, new
      <3>4. /\ result'[e][s] = new
            /\ \A x \in Ends, t \in Streams : x # e \/ t # s => result'[x][t] = result[x][t]
        <4>1. result \in [Ends -> [Streams -> ResultType]] /\ s \in Streams
          BY <1>0, <3>1 DEF Shapes
        <4> QED
          BY ONLY <3>2, <4>1, e \in Ends
      <3> QED
        BY <1>0, <1>1, <1>2, <1>5, <3>3, <3>4 DEF old
    <2>2. CASE reset_interval(e)
      <3> DEFINE new == [old EXCEPT !.interval = 0]
      <3>1. s \in Streams
        BY <1>0, <2>2 DEF TransferInv, Walks, Walk, reset_interval, At
      <3>2. result' = [result EXCEPT ![e][s] = new]
        BY <2>2 DEF reset_interval
      <3>3. /\ new \in ResultType /\ new.peer = old.peer /\ new.bytes = old.bytes
            /\ new.bytes_sent_omit = old.bytes_sent_omit
        BY <1>3, <3>1 DEF ResultType
      <3> HIDE DEF s, old, new
      <3>4. /\ result'[e][s] = new
            /\ \A x \in Ends, t \in Streams : x # e \/ t # s => result'[x][t] = result[x][t]
        <4>1. result \in [Ends -> [Streams -> ResultType]] /\ s \in Streams
          BY <1>0, <3>1 DEF Shapes
        <4> QED
          BY ONLY <3>2, <4>1, e \in Ends
      <3> QED
        BY <1>0, <1>1, <1>2, <1>5, <3>3, <3>4 DEF old
    <2>3. CASE ~stats_zero(e) /\ ~reset_interval(e)
      <3>1. result' = result
        BY <1>5, <2>3 DEF stats_timer, stats_read, stats_total, reporter_timer, omit_timer
      <3> QED
        BY <1>0, <1>1, <1>2, <1>5, <3>1
    <2> QED
      BY <2>1, <2>2, <2>3
  <1> QED
    BY <1>4, <1>5

LEMMA PeersStep ==
  ASSUME TransferInv, PeersInv, [Next]_vars
  PROVE  PeersInv'
  <1>0. Shapes /\ Phase
    BY DEF TransferInv
  <1>1. ASSUME NEW e \in Ends, NEW s \in AllStreams, WorkerStep(e, s) PROVE PeersInv'
    <2>1. Active' = Active
      BY <1>1, ThreadLeaves, EndsAre DEF Active
    <2> QED
      BY <1>1, <2>1, ThreadLeaves, PeersStay, EndsAre
  <1>2. ASSUME NEW e \in Ends,
               \/ stats_timer(e) \/ stats_read(e) \/ stats_total(e) \/ stats_zero(e)
               \/ reset_omit(e) \/ reset_interval(e) \/ reporter_timer(e) \/ omit_timer(e)
        PROVE PeersInv'
    <2>1. conf' = conf /\ Active' = Active
      BY <1>2, StatsLeave, EndsAre DEF Active
    <2>2. CASE ~reset_omit(e)
      BY <1>2, <2>1, <2>2, StatsLeave, PeersStay, EndsAre
    <2>3. CASE reset_omit(e)
      <3>1. \A t \in Streams : Sends("client", t) => ~Sends("server", t)
        BY <1>0, OneSender, EndsAre DEF Shapes
      <3>2. e = "client" => Active
        <4> SUFFICES ASSUME e = "client" PROVE Active
          OBVIOUS
        <4>1. main["client"].pc = "omit"
          BY <2>3 DEF reset_omit, At
        <4> QED
          BY <4>1, Where DEF Running, InState, Active
      <3>3. Streams' = Streams /\ \A x, t : Sends(x, t)' = Sends(x, t)
        BY <2>1, SameConf
      <3> SUFFICES ASSUME NEW t \in Streams
                   PROVE  /\ Active => result'["client"][t].peer = 0
                          /\ Sends("server", t) => result'["client"][t].bytes_sent_omit = 0
        BY <2>1, <3>3 DEF PeersInv
      <3>4. /\ result'["client"][t].peer = result["client"][t].peer
            /\ \/ result'["client"][t].bytes_sent_omit = result["client"][t].bytes_sent_omit
               \/ Sends("client", t)
               \/ e = "client" /\ result'["client"][t].bytes_sent_omit = result["client"][t].peer
        BY <1>2, <2>3, StatsLeave, EndsAre
      <3>5. /\ Active => result["client"][t].peer = 0
            /\ Sends("server", t) => result["client"][t].bytes_sent_omit = 0
        BY DEF PeersInv
      <3> QED
        BY <3>1, <3>2, <3>4, <3>5
    <2> QED
      BY <2>2, <2>3
  <1>3. ASSUME result'["client"] = result["client"], conf' = conf, Active' => Active PROVE PeersInv'
    BY <1>3, PeersStay
  <1>4. ASSUME NEW st \in TestStates, test' = [test EXCEPT !["client"].state = st],
               st \notin {"TEST_START", "TEST_RUNNING"}
        PROVE  ~Active'
    BY <1>0, <1>4, ClientState DEF Active
  <1>5. CASE client_test_running
    <2>1. Active /\ conf' = conf /\ result' = result
      BY <1>5, ToldWhen DEF client_test_running, Starting, InState, Active, WorkersIdle
    <2> QED
      BY <1>3, <2>1
  <1>6. CASE client_test_end \/ client_exchange_results \/ client_display_results
    <2>1. conf' = conf /\ result' = result
      BY <1>6 DEF client_test_end, client_exchange_results, client_display_results, WorkersIdle
    <2>2. ~Active'
      BY <1>4, <1>6 DEF client_test_end, client_exchange_results, client_display_results, TestStates
    <2> QED
      BY <1>3, <2>1, <2>2
  <1>7. CASE client_get_results
    <2>1. conf' = conf /\ test' = test /\ get_results("client", Head(ctrl["client"]).doc)
      BY <1>7 DEF client_get_results, WorkersIdle
    <2>2. ~Active'
      BY <1>7, <2>1, ToldWhen DEF client_get_results, Answering, InState, Active
    <2>3. \A t \in Streams : result["client"][t] \in ResultType
      BY <1>0, EndsAre DEF Shapes
    <2>4. \A t \in Streams : result'["client"][t].bytes_sent_omit = result["client"][t].bytes_sent_omit
      BY <1>0, <2>1, <2>3, EndsAre DEF get_results, Shapes, ResultType
    <2> QED
      BY <2>1, <2>2, <2>4, SameConf DEF PeersInv
  <1>8. CASE client_check_done \/ test_timer_proc
    <2>1. conf' = conf /\ result' = result
      BY <1>8 DEF client_check_done, test_timer_proc, WorkersIdle
    <2>2. test'["client"].state = test["client"].state
      BY <1>0, <1>8, EndsAre DEF client_check_done, test_timer_proc, Shapes, TestType
    <2> QED
      BY <1>3, <2>1, <2>2 DEF Active
  <1>9. ASSUME \/ client_join \/ client_rcv_timeout \/ GivesUp("client") \/ GivesUp("server")
               \/ server_report \/ server_test_end \/ server_exchange_results \/ server_done
               \/ UNCHANGED vars
        PROVE PeersInv'
    <2>1. conf' = conf /\ result'["client"] = result["client"]
      BY <1>0, <1>9, EndsAre DEF client_join, client_rcv_timeout, GivesUp, server_report, server_test_end,
         server_exchange_results, server_done, vars, WorkersIdle, get_results, Shapes
    <2>2. test'["client"] = test["client"]
      BY <1>0, <1>9, EndsAre DEF client_join, client_rcv_timeout, GivesUp, server_report, server_test_end,
         server_exchange_results, server_done, vars, Shapes
    <2> QED
      BY <1>3, <2>1, <2>2 DEF Active
  <1>10. ASSUME NEW e \in Ends, MainStep(e) PROVE PeersInv'
    BY <1>2, <1>6, <1>8, <1>9, <1>10 DEF MainStep
  <1>11. CASE ClientSelect \/ ServerSelect
    BY <1>5, <1>6, <1>7, <1>9, <1>11 DEF ClientSelect, ServerSelect, ctrl_closed,
       server_total_rate, server_rcv_timeout
  <1>12. CASE Timer
    BY <1>2, <1>8, <1>12 DEF Timer
  <1> QED
    BY <1>1, <1>9, <1>10, <1>11, <1>12 DEF Next

-----------------------------------------------------------------------------
(* What the reports hold stays as it is but for four steps.                *)

Unseen ==
  /\ conf' = conf /\ summary' = summary /\ (Early' <=> Early)
  /\ main["client"].pc = "aborted" => main'["client"].pc = "aborted"
  /\ test'["client"].state = "IPERF_DONE" <=> test["client"].state = "IPERF_DONE"
  /\ test'["server"].state = "EXCHANGE_RESULTS" =>
       /\ test["server"].state = "EXCHANGE_RESULTS"
       /\ \A s \in Streams :
            /\ Counted("server", s)' >= Counted("server", s)
            /\ Counted("server", s)' + Pend(s)' <= Counted("server", s) + Pend(s)
  /\ InState("EXCHANGE_RESULTS", "DISPLAY_RESULTS")' =>
       InState("EXCHANGE_RESULTS", "DISPLAY_RESULTS") /\ Heard' = Heard

LEMMA TableSame ==
  ASSUME conf' = conf
  PROVE  /\ Streams' = Streams /\ Lines' = Lines
         /\ \A e, X : Table(e, X)' = Table(e, X)
         /\ \A X, s : Own(X, s)' = Own(X, s)
         /\ \A X, v : Near(X, v)' <=> Near(X, v)
  <1>1. Streams' = Streams /\ Lines' = Lines
    BY DEF Streams, Lines
  <1>2. \A X, s : Own(X, s)' = Own(X, s)
    BY DEF Own, Sends
  <1>3. \A X, v : Near(X, v)' <=> Near(X, v)
    BY <1>1, <1>2 DEF Near
  <1>4. \A e, X : Table(e, X)' = Table(e, X)
    BY DEF Table, Passes, Mode, Streams, Sends
  <1> QED
    BY <1>1, <1>2, <1>3, <1>4

LEMMA CountsAre ==
  ASSUME Shapes, NEW s \in Streams
  PROVE  Counted("server", s) \in Int /\ Pend(s) \in 0..Block /\ Block \in Nat
  BY Numbers, EndsAre DEF Counted, Pend

LEMMA UnseenReport ==
  ASSUME TransferInv, TransferInv', ReportInv, Unseen
  PROVE  ReportInv'
  <1>0. Shapes /\ Shapes' /\ conf' = conf /\ summary' = summary
    BY DEF TransferInv, Unseen
  <1>1. CASE Early
    BY <1>1 DEF ReportInv, Unseen
  <1>2. CASE ~Early
    <2>1. PICK X \in Lines : summary["server"] = Table("server", X) /\ Follows(X)
      BY <1>2 DEF ReportInv
    <2>2. ASSUME test'["server"].state = "EXCHANGE_RESULTS", NEW s \in Streams
          PROVE  /\ Own(X, s) <= Counted("server", s)'
                 /\ Counted("server", s)' + Pend(s)' <= Own(X, s) + Block
      <3>1. /\ Own(X, s) <= Counted("server", s)
            /\ Counted("server", s) + Pend(s) <= Own(X, s) + Block
            /\ Counted("server", s)' >= Counted("server", s)
            /\ Counted("server", s)' + Pend(s)' <= Counted("server", s) + Pend(s)
        BY <2>1, <2>2 DEF Unseen, Follows
      <3>2. Own(X, s) \in Int
        BY DEF Own, Lines
      <3>3. Counted("server", s) \in Int /\ Pend(s) \in 0..Block /\ Block \in Nat
        BY <1>0, CountsAre
      <3>4. Counted("server", s)' \in Int /\ Pend(s)' \in 0..Block
        <4>1. s \in Streams'
          BY <1>0, SameConf
        <4>2. /\ result'["server"][s].bytes \in Nat /\ result'["server"][s].bytes_sent_omit \in Nat
              /\ worker'["server"][s].r \in 0..Block
          BY <1>0, <4>1, NumbersNext, EndsAre
        <4> QED
          BY <4>2, Sizes DEF Counted, Pend
      <3> QED
        BY <3>1, <3>2, <3>3, <3>4
    <2>3. InState("EXCHANGE_RESULTS", "DISPLAY_RESULTS")' => Near(X, Heard')
      BY <2>1 DEF Unseen, Follows
    <2>4. test'["client"].state = "IPERF_DONE" =>
            \E Y \in Lines : /\ summary'["client"] = Table("client", Y)
                             /\ Near(X, [s \in Streams |-> Own(Y, s)])
      BY <1>0, <2>1 DEF Unseen, Follows
    <2>5. Follows(X)'
      <3>1. test'["server"].state = "EXCHANGE_RESULTS" =>
              \A s \in Streams' : /\ Own(X, s)' <= Counted("server", s)'
                                  /\ Counted("server", s)' + Pend(s)' <= Own(X, s)' + Block
        BY <1>0, <2>2, TableSame
      <3>2. InState("EXCHANGE_RESULTS", "DISPLAY_RESULTS")' => Near(X, Heard)'
        BY <1>0, <2>3 DEF Near, Own, Sends, Streams
      <3>3. test'["client"].state = "IPERF_DONE" =>
            \E Y \in Lines' : /\ summary'["client"] = Table("client", Y)'
                             /\ Near(X, [s \in Streams |-> Own(Y, s)])'
        <4> SUFFICES ASSUME test'["client"].state = "IPERF_DONE"
                     PROVE  \E Y \in Lines' : /\ summary'["client"] = Table("client", Y)'
                                              /\ Near(X, [s \in Streams |-> Own(Y, s)])'
          OBVIOUS
        <4>1. PICK Y \in Lines : /\ summary'["client"] = Table("client", Y)
                                 /\ Near(X, [s \in Streams |-> Own(Y, s)])
          BY <2>4
        <4>2. Y \in Lines' /\ summary'["client"] = Table("client", Y)'
          BY <1>0, <4>1, TableSame
        <4>3. Near(X, [s \in Streams |-> Own(Y, s)])'
          BY <1>0, <4>1 DEF Near, Own, Sends, Streams
        <4> QED
          BY <4>2, <4>3
      <3> QED
        BY <3>1, <3>2, <3>3 DEF Follows
    <2>6. summary'["server"] = Table("server", X)' /\ X \in Lines'
      BY <1>0, <2>1, TableSame
    <2>7. test'["client"].state # "IPERF_DONE" => summary'["client"] = <<>>
      BY <1>0, <1>2 DEF ReportInv, Unseen
    <2> QED
      BY <1>2, <2>5, <2>6, <2>7 DEF ReportInv, Unseen
  <1> QED
    BY <1>1, <1>2

\* A step of a thread is a step of that thread alone.
LEMMA ThreadAlone ==
  ASSUME Shapes, NEW e \in Ends, NEW s, WorkerStep(e, s)
  PROVE  /\ s \in Streams /\ Elsewhere(e, s)
         /\ \A x \in Ends, t \in Streams : x # e \/ t # s => result'[x][t] = result[x][t]
  <1>0. /\ s \in Streams /\ worker \in [Ends -> [Streams -> WorkerType]]
        /\ result \in [Ends -> [Streams -> ResultType]]
    BY DEF WorkerStep, Shapes
  <1>1. CASE worker_ends(e, s) \/ diskfile_send(e, s) \/ stream_error(e, s) \/ recv_starts(e, s)
             \/ write_nobufs(e, s)
    BY <1>0, <1>1 DEF worker_ends, diskfile_send, stream_error, recv_starts, write_nobufs, Worker,
       Elsewhere
  <1>2. CASE iperf_send_mt(e, s)
    BY <1>0, <1>2 DEF iperf_send_mt, Elsewhere
  <1>3. CASE iperf_tcp_send(e, s)
    BY <1>0, <1>3 DEF iperf_tcp_send, Elsewhere
  <1>4. CASE iperf_tcp_recv(e, s)
    BY <1>0, <1>4 DEF iperf_tcp_recv, Elsewhere
  <1>5. CASE count_bytes(e, s) \/ count_interval(e, s)
    BY <1>0, <1>5 DEF count_bytes, count_interval, Worker, Elsewhere
  <1>6. CASE count_test(e, s)
    BY <1>0, <1>6 DEF count_test, Elsewhere
  <1> QED
    BY <1>1, <1>2, <1>3, <1>4, <1>5, <1>6 DEF WorkerStep

\* Once the sockets are closed the server counts no more than what its threads have read.
LEMMA ServerCounts ==
  ASSUME TransferInv, NEW e \in Ends, NEW s, WorkerStep(e, s), ~open, NEW t \in Streams
  PROVE  /\ Counted("server", t)' >= Counted("server", t)
         /\ Counted("server", t)' + Pend(t)' <= Counted("server", t) + Pend(t)
  <1>0. /\ Shapes /\ s \in Streams /\ Elsewhere(e, s) /\ conf' = conf
        /\ result'["server"][t].bytes_sent_omit = result["server"][t].bytes_sent_omit
        /\ e # "server" \/ t # s => result'["server"][t] = result["server"][t]
    BY ThreadAlone, ThreadLeaves, EndsAre DEF TransferInv
  <1>1. /\ Counted("server", t) \in Int /\ Pend(t) \in 0..Block /\ Block \in Nat
        /\ result["server"][t].bytes \in Nat /\ result["server"][t].bytes_sent_omit \in Nat
        /\ worker["server"][t].r \in 0..Block
    BY <1>0, CountsAre, Numbers, EndsAre
  <1>2. Sends("server", t)' = Sends("server", t)
    BY <1>0, SameConf
  <1>3. CASE e # "server" \/ t # s
    <2>1. worker'["server"][t] = worker["server"][t] /\ result'["server"][t] = result["server"][t]
      BY <1>0, <1>3, EndsAre DEF Elsewhere
    <2>2. Counted("server", t)' = Counted("server", t) /\ Pend(t)' = Pend(t)
      BY <1>2, <2>1 DEF Counted, Pend
    <2> QED
      BY <1>1, <2>2
  <1>4. CASE e = "server" /\ t = s /\ count_bytes("server", t)
    <2>1. /\ worker["server"][t].pc = "bytes" /\ worker'["server"][t].pc = "interval"
          /\ result'["server"][t].bytes = result["server"][t].bytes + worker["server"][t].r
      <3>1. worker["server"][t].pc = "bytes" /\ Worker("server", t, "interval")
            /\ result' = [result EXCEPT !["server"][t].bytes = @ + worker["server"][t].r]
        BY <1>4 DEF count_bytes
      <3>2. worker'["server"][t].pc = "interval"
        BY <1>0, <3>1, ThreadGoes, EndsAre DEF ThreadPcs
      <3>3. result["server"][t] \in ResultType
        BY <1>0, EndsAre DEF Shapes
      <3> QED
        BY <1>0, <3>1, <3>2, <3>3, EndsAre DEF Shapes, ResultType
    <2>2. Counted("server", t)' = Counted("server", t) + worker["server"][t].r
      BY <1>0, <1>1, <1>2, <2>1 DEF Counted
    <2>3. Pend(t) = worker["server"][t].r /\ Pend(t)' = 0
      BY <2>1 DEF Pend
    <2> QED
      BY <1>1, <2>2, <2>3
  <1>5. CASE e = "server" /\ t = s /\ ~count_bytes("server", t)
    <2>1. result'["server"][t].bytes = result["server"][t].bytes
      <3>1. CASE count_interval("server", t)
        <4>1. result["server"][t] \in ResultType
          BY <1>0, EndsAre DEF Shapes
        <4> QED
          BY <1>0, <3>1, <4>1, EndsAre DEF Shapes, ResultType, count_interval
      <3>2. CASE ~count_interval("server", t)
        BY <1>5, <3>2 DEF WorkerStep, worker_ends, iperf_send_mt, diskfile_send, iperf_tcp_send,
           write_nobufs, stream_error, recv_starts, iperf_tcp_recv, count_test
      <3> QED
        BY <3>1, <3>2
    <2>2. worker'["server"][t].pc # "bytes"
      <3>0. worker \in [Ends -> [Streams -> WorkerType]] /\ worker["server"][t] \in WorkerType
        BY <1>0, EndsAre DEF Shapes
      <3>1. CASE worker_ends("server", t) \/ diskfile_send("server", t) \/ stream_error("server", t)
                 \/ recv_starts("server", t) \/ count_interval("server", t)
        <4>1. PICK pc \in ThreadPcs : pc # "bytes" /\ Worker("server", t, pc)
          BY <3>1 DEF worker_ends, diskfile_send, stream_error, recv_starts, count_interval, ThreadPcs
        <4> QED
          BY <1>0, <4>1, ThreadGoes, EndsAre
      <3>2. CASE iperf_send_mt("server", t)
        BY <3>0, <3>2, EndsAre DEF iperf_send_mt
      <3>3. CASE count_test("server", t)
        BY <3>0, <3>3, EndsAre DEF count_test, WorkerType
      <3>4. ~iperf_tcp_send("server", t) /\ ~write_nobufs("server", t) /\ ~iperf_tcp_recv("server", t)
        BY EndsAre DEF iperf_tcp_send, write_nobufs, iperf_tcp_recv
      <3> QED
        BY <1>5, <3>1, <3>2, <3>3, <3>4 DEF WorkerStep
    <2>3. Counted("server", t)' = Counted("server", t) /\ Pend(t)' = 0
      BY <1>0, <1>2, <2>1, <2>2 DEF Counted, Pend
    <2> QED
      BY <1>1, <2>3
  <1> QED
    BY <1>3, <1>4, <1>5

LEMMA WorkerUnseen ==
  ASSUME TransferInv, NEW e \in Ends, NEW s, WorkerStep(e, s)
  PROVE  Unseen
  <1>1. /\ conf' = conf /\ main' = main /\ ctrl' = ctrl /\ summary' = summary
        /\ test'["client"].state = test["client"].state
        /\ test'["server"].state = test["server"].state
        /\ \A t \in Streams : result'["client"][t].peer = result["client"][t].peer
    BY ThreadLeaves, EndsAre
  <1>2. Heard' = Heard
    <2>1. Peers' = Peers
      BY <1>1, SameConf DEF Peers
    <2> QED
      BY <1>1, <2>1 DEF Heard
  <1>3. test["server"].state = "EXCHANGE_RESULTS" => ~open
    BY DEF TransferInv, ServerSide
  <1>4. test["server"].state = "EXCHANGE_RESULTS" =>
          \A t \in Streams :
            /\ Counted("server", t)' >= Counted("server", t)
            /\ Counted("server", t)' + Pend(t)' <= Counted("server", t) + Pend(t)
    BY <1>3, ServerCounts
  <1> QED
    BY <1>1, <1>2, <1>4 DEF Unseen, Early, InState

LEMMA StatsUnseen ==
  ASSUME TransferInv, NEW e \in Ends,
         \/ stats_timer(e) \/ stats_read(e) \/ stats_total(e) \/ stats_zero(e)
         \/ reset_omit(e) \/ reset_interval(e) \/ reporter_timer(e) \/ omit_timer(e)
  PROVE  Unseen
  <1>1. /\ conf' = conf /\ ctrl' = ctrl /\ summary' = summary
        /\ test'["client"].state = test["client"].state
        /\ test'["server"].state = test["server"].state
        /\ \A t \in Streams : result'["client"][t].peer = result["client"][t].peer
    BY StatsLeave, EndsAre
  <1>2. /\ main[e].pc \in {"select", "read", "total", "zero", "omit", "clear", "report"}
        /\ main[e].pc = "select" /\ e = "client" => test["client"].state = "TEST_RUNNING"
    BY DEF stats_timer, stats_read, stats_total, stats_zero, reset_omit, reset_interval,
       reporter_timer, omit_timer, TimersRun, At
  <1>3. e = "client" => test["server"].state = "TEST_RUNNING"
    <2> SUFFICES ASSUME e = "client" PROVE test["server"].state = "TEST_RUNNING"
      OBVIOUS
    <2>1. Running
      BY <1>2, Where
    <2> QED
      BY <2>1 DEF Running, InState
  <1>4. test["server"].state # "EXCHANGE_RESULTS"
    <2>1. CASE e = "client"
      BY <1>3, <2>1
    <2>2. CASE e = "server"
      BY <1>2, <2>2, Where
    <2> QED
      BY <2>1, <2>2 DEF Ends
  <1>5. e = "server" => main'["client"] = main["client"]
    <2> SUFFICES ASSUME e = "server" PROVE main'["client"] = main["client"]
      OBVIOUS
    <2>1. main \in [Ends -> MainType]
      BY DEF TransferInv, Shapes
    <2> QED
      BY <2>1, EndsAre DEF stats_timer, stats_read, stats_total, stats_zero, reset_omit,
         reset_interval, reporter_timer, omit_timer, Go, Stats
  <1>6. main["client"].pc = "aborted" => main'["client"].pc = "aborted"
    BY <1>2, <1>5 DEF Ends
  <1>7. Peers' = Peers
    BY <1>1, SameConf DEF Peers
  <1>8. InState("EXCHANGE_RESULTS", "DISPLAY_RESULTS") => Heard' = Heard
    <2>1. InState("EXCHANGE_RESULTS", "DISPLAY_RESULTS") => e = "server"
      BY <1>3 DEF InState, Ends
    <2> QED
      BY <1>1, <1>5, <1>7, <2>1 DEF Heard
  <1> QED
    BY <1>1, <1>4, <1>6, <1>8 DEF Unseen, Early, InState

\* The handlers of the client that print nothing.
LEMMA ClientUnseen ==
  ASSUME TransferInv,
         \/ client_test_running \/ client_check_done \/ test_timer_proc \/ client_test_end
         \/ client_exchange_results \/ client_join
         \/ client_rcv_timeout /\ TestDone
  PROVE  Unseen
  <1> USE EndsAre
  <1>0. Shapes /\ test \in [Ends -> TestType] /\ test["client"] \in TestType
    BY DEF TransferInv, Shapes
  <1>1. conf' = conf /\ summary' = summary /\ result' = result
    BY DEF client_test_running, client_check_done, test_timer_proc, client_test_end,
       client_exchange_results, client_join, client_rcv_timeout, WorkersIdle
  <1>2. main["client"].pc # "aborted"
    BY QuietRuns DEF client_test_running, client_check_done, test_timer_proc, client_test_end,
       client_exchange_results, client_join, client_rcv_timeout, At, TimersRun
  <1>3. test'["server"] = test["server"]
    BY <1>0 DEF client_test_running, client_check_done, test_timer_proc, client_test_end,
       client_exchange_results, client_join, client_rcv_timeout
  <1>4. /\ test'["client"].state = "IPERF_DONE" <=> test["client"].state = "IPERF_DONE"
        /\ test["client"].state = "EXCHANGE_RESULTS" => test'["client"].state = "EXCHANGE_RESULTS"
        /\ \/ test["server"].state # "DISPLAY_RESULTS"
           \/ test["client"].state = "IPERF_DONE"
    <2>1. CASE client_test_running
      <3>1. Starting
        BY <2>1, ToldWhen DEF client_test_running
      <3> QED
        BY <1>0, <2>1, <3>1 DEF client_test_running, Starting, InState, TestType
    <2>2. CASE client_check_done \/ client_test_end
      <3>1. Running
        BY <2>2, Where DEF client_check_done, client_test_end, At
      <3> QED
        BY <1>0, <2>2, <3>1 DEF client_check_done, client_test_end, Running, InState, TestType
    <2>3. CASE test_timer_proc
      <3>1. Running
        BY <2>3, Where DEF test_timer_proc, TimersRun
      <3> QED
        BY <1>0, <2>3, <3>1 DEF test_timer_proc, Running, InState, TestType
    <2>4. CASE client_exchange_results
      <3>1. Asking
        BY <2>4, ToldWhen DEF client_exchange_results
      <3> QED
        BY <1>0, <2>4, <3>1 DEF client_exchange_results, Asking, InState, TestType
    <2>5. CASE client_join
      <3>1. Finishing \/ Finished
        BY <2>5 DEF client_join, At, TransferInv, Phase, Starting, Running, Ending, Stopping, Asking,
           Telling, Answering, Displaying, Places, Busy
      <3> QED
        BY <2>5, <3>1 DEF client_join, Finishing, Finished, InState
    <2>6. CASE client_rcv_timeout /\ TestDone
      <3>1. Running
        BY <2>6, QuietRuns DEF client_rcv_timeout
      <3> QED
        BY <2>6, <3>1 DEF client_rcv_timeout, Running, InState
    <2> QED
      BY <2>1, <2>2, <2>3, <2>4, <2>5, <2>6
  <1>5. ~InState("EXCHANGE_RESULTS", "DISPLAY_RESULTS")'
    BY <1>3, <1>4 DEF InState
  <1>6. test["server"].state = "EXCHANGE_RESULTS" => worker'["server"] = worker["server"]
    <2>1. worker \in [Ends -> [Streams -> WorkerType]]
      BY <1>0 DEF Shapes
    <2> QED
      BY <2>1 DEF client_test_running, client_check_done, test_timer_proc, client_test_end,
         client_exchange_results, client_join, client_rcv_timeout, Cancel
  <1>7. ASSUME test["server"].state = "EXCHANGE_RESULTS", NEW s \in Streams
        PROVE  /\ Counted("server", s)' >= Counted("server", s)
               /\ Counted("server", s)' + Pend(s)' <= Counted("server", s) + Pend(s)
    <2>1. Counted("server", s)' = Counted("server", s) /\ Pend(s)' = Pend(s)
      BY <1>1, <1>6, <1>7, SameConf DEF Counted, Pend
    <2>2. Counted("server", s) \in Int /\ Pend(s) \in 0..Block /\ Block \in Nat
      BY <1>0, CountsAre
    <2> QED
      BY <2>1, <2>2
  <1> QED
    BY <1>1, <1>2, <1>3, <1>4, <1>5, <1>7 DEF Unseen, Early

\* The client takes what the server told it.
LEMMA GetUnseen ==
  ASSUME TransferInv, client_get_results
  PROVE  Unseen
  <1> USE EndsAre
  <1>0. /\ Shapes /\ Answering /\ conf' = conf /\ summary' = summary /\ test' = test
        /\ main["client"].pc = "results" /\ Go("client", "select")
    BY ToldWhen DEF TransferInv, client_get_results, At, WorkersIdle
  <1>1. PICK c \in Docs : c = ctrl["client"][1].doc
    BY <1>0 DEF Answering
  <1>2. Head(ctrl["client"]).doc = c
    BY <1>0, <1>1, Queues DEF Answering, Mail, Results
  <1>3. get_results("client", c)
    BY <1>2 DEF client_get_results
  <1>4. \A t \in Streams : result'["client"][t].peer = c[t]
    <2>1. /\ result \in [Ends -> [Streams -> ResultType]]
          /\ \A t \in Streams : result["client"][t] \in ResultType
      BY <1>0 DEF Shapes
    <2> QED
      BY <1>3, <2>1 DEF get_results, ResultType
  <1>5. main'["client"].pc = "select"
    BY <1>0, MainGoes DEF MainPcs
  <1>6. Heard' = Heard
    <2>1. Peers' = c
      BY <1>0, <1>4, SameConf DEF Peers, Docs
    <2> QED
      BY <1>0, <1>1, <1>5, <2>1 DEF Heard
  <1>7. InState("EXCHANGE_RESULTS", "DISPLAY_RESULTS")
    BY <1>0 DEF Answering
  <1> QED
    BY <1>0, <1>6, <1>7 DEF Unseen, Early, InState

\* The server begins the end of the test, ends, or gives up.
LEMMA ServerUnseen ==
  ASSUME TransferInv,
         \/ server_test_end \/ server_done
         \/ GivesUp("server") /\ main["server"].pc = "select"
  PROVE  Unseen
  <1> USE EndsAre
  <1>0. /\ Shapes /\ test \in [Ends -> TestType] /\ test["server"] \in TestType
        /\ conf' = conf /\ summary' = summary /\ result' = result
    BY DEF TransferInv, Shapes, server_test_end, server_done, GivesUp, WorkersIdle
  <1>1. main'["client"] = main["client"] /\ test'["client"] = test["client"]
    <2>1. main \in [Ends -> MainType]
      BY <1>0 DEF Shapes
    <2> QED
      BY <1>0, <2>1 DEF server_test_end, server_done, GivesUp, Go, Stats
  <1>2. ctrl'["client"] = ctrl["client"]
    BY <1>0 DEF server_test_end, server_done, GivesUp, Shapes
  <1>3. Heard' = Heard
    <2>1. Peers' = Peers
      BY <1>0, SameConf DEF Peers
    <2> QED
      BY <1>1, <1>2, <2>1 DEF Heard
  <1>4. /\ test'["server"].state # "EXCHANGE_RESULTS" /\ (Early' <=> Early)
        /\ test'["server"].state = "DISPLAY_RESULTS" => test["server"].state = "DISPLAY_RESULTS"
    <2>1. CASE server_test_end
      <3>1. Ending
        BY <2>1, ToldWhen DEF server_test_end
      <3> QED
        BY <1>0, <2>1, <3>1 DEF server_test_end, Ending, InState, TestType, Early
    <2>2. CASE server_done
      <3>1. Finishing
        BY <2>2, ToldWhen DEF server_done
      <3> QED
        BY <1>0, <2>2, <3>1 DEF server_done, Finishing, InState, TestType, Early
    <2>3. CASE GivesUp("server") /\ main["server"].pc = "select"
      BY <2>3, Where DEF GivesUp, Early
    <2> QED
      BY <2>1, <2>2, <2>3
  <1> QED
    BY <1>0, <1>1, <1>3, <1>4 DEF Unseen, InState

\* A client that gives up does so before the server reports.
LEMMA ClientFails ==
  ASSUME TransferInv, ReportInv, GivesUp("client"),
         Running \/ (Ending /\ main["server"].pc = "aborted")
  PROVE  ReportInv'
  <1> USE EndsAre
  <1>0. Shapes /\ test' = test /\ Early
    BY DEF TransferInv, GivesUp, Early, Running, Ending, InState
  <1>1. main'["client"].pc = "aborted"
    BY <1>0, MainGoes DEF GivesUp, MainPcs
  <1>2. summary'["server"] = summary["server"]
    BY <1>0 DEF GivesUp, iperf_reporter_callback, Shapes
  <1> QED
    BY <1>0, <1>1, <1>2 DEF ReportInv, Early

\* The report of the server is what it has counted.
LEMMA ServerSays ==
  ASSUME TransferInv, ReportInv, server_report
  PROVE  ReportInv'
  <1> USE EndsAre
  <1>0. /\ Shapes /\ conf' = conf /\ main["server"].pc = "test_end" /\ Go("server", "results")
        /\ summary' = [summary EXCEPT !["server"] = iperf_print_results("server")]
        /\ test' = [test EXCEPT !["server"].state = "EXCHANGE_RESULTS"]
        /\ UNCHANGED <<result, worker>>
    BY DEF TransferInv, server_report, iperf_reporter_callback, At
  <1>1. Stopping
    <2>1. test["server"].state = "TEST_END"
      BY <1>0, Where
    <2> QED
      BY <2>1 DEF TransferInv, Phase, Starting, Running, Ending, Asking, Telling, Answering,
         Displaying, Finishing, Finished, InState
  <1>2. PICK X \in Lines : X = Says("server") /\ iperf_print_results("server") = Table("server", X)
    BY <1>0, PrintIsTable
  <1>3. /\ summary'["server"] = Table("server", X) /\ summary'["client"] = summary["client"]
    BY <1>0, <1>2, SummaryMoves
  <1>4. summary["client"] = <<>> /\ test["client"].state = "TEST_END"
    BY <1>1 DEF Stopping, InState, Places, ReportInv, Early
  <1>5. test'["server"].state = "EXCHANGE_RESULTS" /\ test'["client"] = test["client"]
    BY <1>0 DEF Shapes
  <1>6. ASSUME NEW s \in Streams
        PROVE  /\ Own(X, s) <= Counted("server", s)'
               /\ Counted("server", s)' + Pend(s)' <= Own(X, s) + Block
    <2>1. Counted("server", s)' = Counted("server", s) /\ Pend(s)' = Pend(s)
      BY <1>0, SameConf DEF Counted, Pend
    <2>2. Own(X, s) = Counted("server", s)
      BY <1>2 DEF Own, Says, StreamSummary, Counted
    <2>3. Counted("server", s) \in Int /\ Pend(s) \in 0..Block /\ Block \in Nat
      BY <1>0, CountsAre
    <2> QED
      BY <2>1, <2>2, <2>3
  <1>7. Follows(X)'
    <2>1. \A s \in Streams' : /\ Own(X, s)' <= Counted("server", s)'
                              /\ Counted("server", s)' + Pend(s)' <= Own(X, s)' + Block
      BY <1>0, <1>6, TableSame
    <2> QED
      BY <1>4, <1>5, <2>1 DEF Follows, InState
  <1>8. summary'["server"] = Table("server", X)' /\ X \in Lines'
    BY <1>0, <1>3, TableSame
  <1> QED
    BY <1>3, <1>4, <1>5, <1>7, <1>8 DEF ReportInv, Early

\* What the server tells the client is its report and what it has counted since.
LEMMA ServerTells ==
  ASSUME TransferInv, ReportInv, server_exchange_results
  PROVE  ReportInv'
  <1> USE EndsAre
  <1>0. /\ Shapes /\ Telling /\ conf' = conf /\ summary' = summary /\ Go("server", "select")
        /\ Reply("server", <<Results(send_results("server")), Message("DISPLAY_RESULTS")>>)
        /\ test' = [test EXCEPT !["server"].state = "DISPLAY_RESULTS"]
    BY ToldWhen DEF TransferInv, server_exchange_results, WorkersIdle
  <1>1. /\ test["server"].state = "EXCHANGE_RESULTS" /\ test["client"].state = "EXCHANGE_RESULTS"
        /\ main["client"].pc = "results" /\ ctrl["client"] = <<>>
    BY <1>0 DEF Telling, InState, Places, Mail
  <1>2. /\ test'["server"].state = "DISPLAY_RESULTS" /\ test'["client"] = test["client"]
        /\ main'["client"] = main["client"]
    BY <1>0 DEF Shapes, Go
  <1>3. PICK d \in Docs : d = send_results("server")
    BY ResultsSent
  <1>4. Heard' = d
    <2>1. ctrl'["client"] = ctrl["client"] \o <<Results(d), Message("DISPLAY_RESULTS")>>
      BY <1>0, <1>3, Replied, OtherIs
    <2>2. ctrl'["client"] = <<Results(d), Message("DISPLAY_RESULTS")>>
      BY ONLY <1>1, <2>1, Queues
    <2> QED
      BY <1>1, <1>2, <2>2 DEF Heard, Results
  <1>5. PICK X \in Lines : summary["server"] = Table("server", X) /\ Follows(X)
    BY <1>1 DEF ReportInv, Early
  <1>6. Near(X, d)
    <2> SUFFICES ASSUME NEW s \in Streams
                 PROVE  d[s] \in Int /\ Own(X, s) <= d[s] /\ d[s] <= Own(X, s) + Block
      BY DEF Near
    <2>1. d[s] = Counted("server", s)
      BY <1>3 DEF send_results, Counted
    <2>2. /\ Own(X, s) <= Counted("server", s)
          /\ Counted("server", s) + Pend(s) <= Own(X, s) + Block
      BY <1>1, <1>5 DEF Follows
    <2>3. Counted("server", s) \in Int /\ Pend(s) \in 0..Block /\ Block \in Nat
      BY <1>0, CountsAre
    <2>4. Own(X, s) \in Int
      BY DEF Own, Lines
    <2> QED
      BY <2>1, <2>2, <2>3, <2>4
  <1>7. Follows(X)'
    <2>1. Near(X, Heard)'
      BY <1>0, <1>4, <1>6 DEF Near, Own, Sends, Streams
    <2> QED
      BY <1>1, <1>2, <2>1 DEF Follows, InState
  <1>8. summary'["server"] = Table("server", X)' /\ X \in Lines'
    BY <1>0, <1>5, TableSame
  <1>9. summary'["client"] = <<>>
    BY <1>0, <1>1 DEF ReportInv, Early
  <1> QED
    BY <1>2, <1>7, <1>8, <1>9 DEF ReportInv, Early

\* The report of the client says of the server's side what the server told.
LEMMA ClientSays ==
  ASSUME TransferInv, PeersInv, ReportInv, client_display_results
  PROVE  ReportInv'
  <1> USE EndsAre
  <1>0. /\ Shapes /\ conf \in Confs /\ Displaying /\ conf' = conf
        /\ summary' = [summary EXCEPT !["client"] = iperf_print_results("client")]
        /\ test' = [test EXCEPT !["client"].state = "IPERF_DONE"]
    BY ToldWhen DEF TransferInv, Shapes, client_display_results, iperf_reporter_callback, WorkersIdle
  <1>1. /\ test["server"].state = "DISPLAY_RESULTS" /\ test["client"].state = "EXCHANGE_RESULTS"
        /\ main["client"].pc = "select"
    BY <1>0 DEF Displaying, InState, Places
  <1>2. test'["client"].state = "IPERF_DONE" /\ test'["server"] = test["server"]
    BY <1>0 DEF Shapes
  <1>3. PICK Y \in Lines : Y = Says("client") /\ iperf_print_results("client") = Table("client", Y)
    BY <1>0, PrintIsTable
  <1>4. summary'["client"] = Table("client", Y) /\ summary'["server"] = summary["server"]
    BY <1>0, <1>3, SummaryMoves
  <1>5. PICK X \in Lines : summary["server"] = Table("server", X) /\ Follows(X)
    BY <1>1 DEF ReportInv, Early
  <1>6. Near(X, Peers)
    BY <1>1, <1>5 DEF Follows, InState, Heard
  <1>7. ASSUME NEW s \in Streams PROVE Own(Y, s) = Peers[s]
    <2>1. /\ Y[s] = StreamSummary("client", s) /\ result["client"][s].peer \in Nat
          /\ Peers[s] = result["client"][s].peer
      BY <1>0, <1>3, Numbers DEF Says, Peers
    <2>2. CASE Sends("server", s)
      <3>1. ~Sends("client", s) /\ result["client"][s].bytes_sent_omit = 0
        BY <1>0, <2>2, OneSender DEF PeersInv
      <3> QED
        BY <2>1, <2>2, <3>1 DEF Own, StreamSummary
    <2>3. CASE ~Sends("server", s)
      <3>1. Sends("client", s)
        BY <1>0, <2>3, OneSender
      <3> QED
        BY <2>1, <2>3, <3>1 DEF Own, StreamSummary
    <2> QED
      BY <2>2, <2>3
  <1>8. Near(X, [s \in Streams |-> Own(Y, s)])
    <2>1. [s \in Streams |-> Own(Y, s)] = Peers
      BY <1>7 DEF Peers
    <2> QED
      BY <1>6, <2>1
  <1>9. Y \in Lines' /\ summary'["client"] = Table("client", Y)'
        /\ Near(X, [s \in Streams |-> Own(Y, s)])'
    <2>1. Y \in Lines' /\ summary'["client"] = Table("client", Y)'
      BY <1>0, <1>4, TableSame
    <2>2. Near(X, [s \in Streams |-> Own(Y, s)])'
      BY <1>0, <1>8 DEF Near, Own, Sends, Streams
    <2> QED
      BY <2>1, <2>2
  <1>10. Follows(X)'
    BY <1>1, <1>2, <1>9 DEF Follows, InState
  <1>11. summary'["server"] = Table("server", X)' /\ X \in Lines'
    BY <1>0, <1>4, <1>5, TableSame
  <1> QED
    BY <1>1, <1>2, <1>10, <1>11 DEF ReportInv, Early

LEMMA ReportInit == Init => PeersInv /\ ReportInv
  <1> SUFFICES ASSUME Init PROVE PeersInv /\ ReportInv
    OBVIOUS
  <1>1. PeersInv
    BY EndsAre DEF Init, PeersInv
  <1>2. ReportInv
    BY EndsAre DEF Init, ReportInv, Early
  <1> QED
    BY <1>1, <1>2

LEMMA ReportStep ==
  ASSUME TransferInv, TransferInv', PeersInv, ReportInv, [Next]_vars
  PROVE  ReportInv'
  <1> SUFFICES ASSUME ~Unseen PROVE ReportInv'
    BY UnseenReport
  <1>1. CASE UNCHANGED vars
    <2>1. Unseen
      <3> USE <1>1 DEF vars
      <3>1. conf' = conf /\ summary' = summary /\ (Early' <=> Early) /\ main' = main /\ test' = test
        BY DEF Early
      <3>2. Heard' = Heard
        BY DEF Heard, Peers, Streams
      <3>3. \A s \in Streams : Counted("server", s)' = Counted("server", s) /\ Pend(s)' = Pend(s)
        BY DEF Counted, Sends, Pend
      <3>4. \A s \in Streams : Counted("server", s) \in Int /\ Pend(s) \in 0..Block /\ Block \in Nat
        BY CountsAre DEF TransferInv
      <3>5. \A s \in Streams : /\ Counted("server", s)' >= Counted("server", s)
                               /\ Counted("server", s)' + Pend(s)' <= Counted("server", s) + Pend(s)
        BY ONLY <3>3, <3>4
      <3> QED
        BY <3>1, <3>2, <3>5 DEF Unseen, InState
    <2> QED
      BY <2>1
  <1>2. ASSUME NEW e \in Ends, NEW s \in AllStreams, WorkerStep(e, s) PROVE ReportInv'
    BY <1>2, WorkerUnseen
  <1>3. ASSUME NEW e \in Ends, MainStep(e) PROVE ReportInv'
    BY <1>3, StatsUnseen, ClientUnseen, ServerSays DEF MainStep
  <1>4. CASE client_rcv_timeout
    <2>1. Running
      BY <1>4, QuietRuns DEF client_rcv_timeout
    <2>2. TestDone \/ GivesUp("client")
      BY <1>4 DEF client_rcv_timeout
    <2> QED
      BY <1>4, <2>1, <2>2, ClientUnseen, ClientFails
  <1>5. CASE ctrl_closed("client")
    <2>1. /\ main["client"].pc = "select" /\ main["server"].pc = "aborted" /\ ctrl["client"] = <<>>
          /\ GivesUp("client")
      BY <1>5, OtherIs DEF ctrl_closed, At
    <2>2. ~Starting /\ ~Displaying
      BY <2>1, Queues DEF Starting, Displaying, Mail
    <2>3. Running \/ (Ending /\ main["server"].pc = "aborted")
      BY <2>1, <2>2 DEF TransferInv, Phase, Stopping, Asking, Telling, Answering, Finishing,
         Finished, Places
    <2> QED
      BY <2>1, <2>3, ClientFails
  <1>6. CASE server_total_rate \/ server_rcv_timeout \/ ctrl_closed("server")
    <2>1. GivesUp("server") /\ main["server"].pc = "select"
      BY <1>6, QuietRuns DEF server_total_rate, server_rcv_timeout, ctrl_closed, At
    <2> QED
      BY <2>1, ServerUnseen
  <1>7. CASE ClientSelect
    BY <1>5, <1>7, ClientUnseen, GetUnseen, ClientSays DEF ClientSelect
  <1>8. CASE ServerSelect
    BY <1>6, <1>8, ServerUnseen, ServerTells DEF ServerSelect
  <1>9. CASE Timer
    BY <1>9, StatsUnseen, ClientUnseen DEF Timer
  <1> QED
    BY <1>1, <1>2, <1>3, <1>4, <1>7, <1>8, <1>9 DEF Next

\* The two reports of a test agree: the server prints when its threads may still hold a
\* block each, sends what it has counted by then after the client's results, and the
\* client prints that; for every number of streams and every block size the sums of each
\* direction differ by no more than a block for each of its streams, with or without an
\* omitted period, whichever end gives up.
THEOREM ReportsAlwaysAgree == Spec => []ReportsAgree
  <1>1. Init => TransferInv /\ PeersInv /\ ReportInv
    BY InitInv, ReportInit
  <1>2. TransferInv /\ PeersInv /\ ReportInv /\ [Next]_vars
          => (TransferInv /\ PeersInv /\ ReportInv)'
    BY NextInv, PeersStep, ReportStep
  <1>3. TransferInv /\ PeersInv /\ ReportInv => ReportsAgree
    BY InvReports
  <1> QED
    BY <1>1, <1>2, <1>3, PTL DEF Spec
=============================================================================

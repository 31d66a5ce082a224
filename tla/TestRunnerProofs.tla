-------------------------- MODULE TestRunnerProofs --------------------------
(***************************************************************************)
(* The app never uses a test after it was freed, shows Start only when     *)
(* nothing is left of the last test, and announces each test as over once: *)
(* for any number of tests, streams and firings of the periodic timers.    *)
(*                                                                         *)
(* The argument is about one run at a time.  As long as the view           *)
(* controller holds a runner, that run is the only one with a library call,*)
(* a callback or blocks in the main queue, and its completion block, once  *)
(* dispatched, is the last block of the queue.                             *)
(***************************************************************************)
EXTENDS TestRunner, SequenceTheorems, TLAPS

Idle(r) == phase[r] \in {"none", "returned"}

\* Only the run of the view controller is live: no other one has a library call, a
\* callback or an iperf_test.
OneRun ==
  /\ current = testRunner
  /\ \A r \in Runs : r # testRunner => Idle(r) /\ ~callback[r] /\ heap[r] # "live"
  /\ testRunner # NoRun =>
       heap[testRunner] = "live" /\ callback[testRunner] /\ phase[testRunner] # "none"

\* The blocks of the queue belong to that run; the completion block is there from the
\* moment the library has returned, at the end.
QueueInv ==
  /\ testRunner = NoRun => mainQueue = <<>>
  /\ \A n \in 1 .. Len(mainQueue) : mainQueue[n][2] = testRunner
  /\ \A n \in 1 .. Len(mainQueue) :
       mainQueue[n][1] = "completion" =>
         n = Len(mainQueue) /\ testRunner # NoRun /\ phase[testRunner] = "returned"

\* The tests to come are untouched.
Future ==
  /\ \A r \in Runs : r > started => heap[r] = "none" /\ phase[r] = "none" /\ finals[r] = 0
  /\ \A r \in Runs : heap[r] = "none" => phase[r] = "none"

\* A library call that has returned has a result, and a live test was not announced.
EndInv ==
  /\ \A r \in Runs : phase[r] = "returned" => result[r] # 1
  /\ \A r \in Runs : heap[r] = "live" => finals[r] = 0
  /\ \A r \in Runs : heap[r] = "freed" => finals[r] = 1 /\ phase[r] = "returned"

\* Streams are added up to NumStreams.
StreamsInv ==
  \A r \in Runs : phase[r] \in {"none", "dial", "wait", "streams"} => streams[r] < NumStreams

RunnerInv == TypeOK /\ OneRun /\ QueueInv /\ Future /\ EndInv /\ StreamsInv

Block == {"stats", "completion"} \X Runs

\* The runs are numbered from 1; NoRun is none of them.
LEMMA RunNumbers ==
  /\ Runs \subseteq Nat /\ NoRun \notin Runs
  /\ \A n \in 0 .. MaxRuns : n < MaxRuns => n + 1 \in Runs /\ n + 1 > n
BY BoundsAssumption DEF Runs, NoRun

-----------------------------------------------------------------------------
(* The main queue.                                                         *)

\* n equal elements and another one behind a sequence.
LEMMA Dispatched ==
  ASSUME NEW S, NEW q \in Seq(S), NEW a \in S, NEW b \in S, NEW n \in Nat
  PROVE  LET p == q \o [i \in 1 .. n |-> a] \o <<b>>
         IN  /\ p \in Seq(S)
             /\ Len(p) = Len(q) + n + 1
             /\ \A i \in 1 .. Len(p) :
                  p[i] = IF i <= Len(q) THEN q[i] ELSE IF i = Len(p) THEN b ELSE a
<1> DEFINE s == [i \in 1 .. n |-> a]
<1>1. s \in Seq(S) /\ Len(s) = n
  OBVIOUS
<1>2. <<b>> \in Seq(S) /\ Len(<<b>>) = 1 /\ <<b>>[1] = b
  OBVIOUS
<1>3. /\ q \o s \in Seq(S)
      /\ Len(q \o s) = Len(q) + n
      /\ \A i \in 1 .. Len(q) + n : (q \o s)[i] = IF i <= Len(q) THEN q[i] ELSE s[i - Len(q)]
  BY <1>1, ConcatProperties
<1>4. \A i \in 1 .. Len(q) + n : (q \o s)[i] = IF i <= Len(q) THEN q[i] ELSE a
  BY <1>1, <1>3, LenProperties
<1>. HIDE DEF s
<1>5. /\ (q \o s) \o <<b>> \in Seq(S)
      /\ Len((q \o s) \o <<b>>) = Len(q \o s) + 1
      /\ \A i \in 1 .. Len(q \o s) + 1 :
           ((q \o s) \o <<b>>)[i] = IF i <= Len(q \o s) THEN (q \o s)[i] ELSE b
  BY <1>2, <1>3, ConcatProperties, LenProperties
<1>. QED BY <1>3, <1>4, <1>5, LenProperties DEF s

-----------------------------------------------------------------------------
(* The invariant holds at the start.                                       *)

LEMMA RunnerInit == Init => RunnerInv
<1> SUFFICES ASSUME Init PROVE RunnerInv
  OBVIOUS
<1> USE DEF Init
<1>1. TypeOK
  <2>1. mainQueue \in Seq({"stats", "completion"} \X Runs)
    BY EmptySeq
  <2>2. /\ callback \in [Runs -> BOOLEAN] /\ done \in [Runs -> BOOLEAN]
        /\ results \in [Runs -> BOOLEAN]
    OBVIOUS
  <2>3. /\ streams \in [Runs -> 0 .. NumStreams] /\ ticks \in [Runs -> 0 .. MaxTicks]
        /\ result \in [Runs -> {-1, 0, 1}] /\ finals \in [Runs -> Nat]
        /\ started \in 0 .. MaxRuns
    BY BoundsAssumption, StreamsAssumption
  <2>. QED BY <2>1, <2>2, <2>3 DEF TypeOK, Phases, Errors
<1>2. OneRun
  BY DEF OneRun, Idle
<1>3. QueueInv
  BY DEF QueueInv
<1>4. Future
  BY DEF Future
<1>5. EndInv
  BY DEF EndInv
<1>6. StreamsInv
  BY StreamsAssumption DEF StreamsInv
<1>. QED BY <1>1, <1>2, <1>3, <1>4, <1>5, <1>6 DEF RunnerInv

-----------------------------------------------------------------------------
(* The main thread.                                                        *)

LEMMA StartKeeps == RunnerInv /\ startTest => RunnerInv'
<1> SUFFICES ASSUME RunnerInv, startTest PROVE RunnerInv'
  OBVIOUS
<1> DEFINE r == started + 1
<1>1. TypeOK /\ r \in Runs /\ r > started /\ testRunner = NoRun /\ mainQueue = <<>>
  BY RunNumbers DEF RunnerInv, TypeOK, QueueInv, startTest
<1>2. heap[r] = "none" /\ phase[r] = "none" /\ finals[r] = 0
  BY <1>1 DEF RunnerInv, Future
<1> HIDE DEF r
<1>3. TypeOK'
  <2>1. started' \in 0 .. MaxRuns
    BY <1>1, BoundsAssumption DEF startTest, r, Runs
  <2>1a. finals' \in [Runs -> Nat]
    <3>1. finals' = finals \/ finals' = [finals EXCEPT ![r] = 1]
      BY DEF startTest, Set, r
    <3>2. finals \in [Runs -> Nat]
      BY <1>1 DEF TypeOK
    <3>. QED BY <3>1, <3>2
  <2>2. kind' \in [Runs -> {"client", "server"}]
    BY <1>1, KindsAssumption DEF TypeOK, startTest, Set, r
  <2>3. heap' \in [Runs -> {"none", "live", "freed", "leaked"}]
    <3>1. \E h \in {"none", "live", "leaked"} : heap' = [heap EXCEPT ![r] = h]
      BY DEF startTest, Set, r
    <3>. QED BY <1>1, <3>1 DEF TypeOK
  <2>4. /\ phase' \in [Runs -> Phases]
        /\ callback' \in [Runs -> BOOLEAN] /\ i_errno' \in Errors
        /\ current' \in Runs \cup {NoRun} /\ testRunner' \in Runs \cup {NoRun}
    BY <1>1 DEF TypeOK, startTest, Set, r, Phases, Errors
  <2>. QED BY <1>1, <2>1, <2>1a, <2>2, <2>3, <2>4 DEF TypeOK, startTest
<1>4. OneRun'
  <2>1. current = NoRun /\ \A q \in Runs : Idle(q) /\ ~callback[q] /\ heap[q] # "live"
    BY <1>1, RunNumbers DEF RunnerInv, OneRun
  <2>2. CASE testRunner' = r /\ heap' = Set(heap, r, "live") /\ current' = r
             /\ callback' = Set(callback, r, TRUE) /\ phase' = Set(phase, r, "dial")
    BY <1>1, <2>1, <2>2 DEF OneRun, Idle, TypeOK, Set
  <2>3. CASE /\ UNCHANGED <<current, callback, testRunner, phase>>
             /\ \E h \in {"none", "leaked"} : heap' = Set(heap, r, h)
    BY <1>1, <2>1, <2>3 DEF OneRun, Idle, TypeOK, Set
  <2>. QED BY <2>2, <2>3 DEF startTest, r
<1>5. QueueInv'
  BY <1>1 DEF QueueInv, startTest
<1>6. Future'
  <2>1. started' = r /\ started \in Nat /\ Runs \subseteq Nat
    BY <1>1, RunNumbers DEF startTest, r, TypeOK
  <2>2. \A q \in Runs : q > r => q > started /\ q # r
    BY <1>1, <2>1
  <2>3. \A q \in Runs : q # r => /\ heap'[q] = heap[q] /\ phase'[q] = phase[q]
                                /\ finals'[q] = finals[q]
    BY <1>1 DEF startTest, Set, r, TypeOK
  <2>4. heap'[r] = "none" => phase'[r] = "none"
    BY <1>1, <1>2 DEF startTest, Set, r, TypeOK
  <2>. QED BY <2>1, <2>2, <2>3, <2>4 DEF RunnerInv, Future
<1>7. EndInv'
  <2>1. EndInv /\ heap \in [Runs -> {"none", "live", "freed", "leaked"}]
        /\ phase \in [Runs -> Phases] /\ finals \in [Runs -> Nat] /\ result' = result
    BY <1>1 DEF RunnerInv, TypeOK, startTest
  <2>2. CASE heap' = [heap EXCEPT ![r] = "live"] /\ finals' = finals
             /\ phase' = [phase EXCEPT ![r] = "dial"]
    BY <1>1, <1>2, <2>1, <2>2 DEF EndInv
  <2>3. CASE finals' = [finals EXCEPT ![r] = 1] /\ phase' = phase
             /\ \E h \in {"none", "leaked"} : heap' = [heap EXCEPT ![r] = h]
    <3>1. PICK h \in {"none", "leaked"} : heap' = [heap EXCEPT ![r] = h]
      BY <2>3
    <3>2. heap'[r] = h /\ \A q \in Runs : q # r => heap'[q] = heap[q] /\ finals'[q] = finals[q]
      BY <1>1, <2>1, <2>3, <3>1
    <3>. QED BY <2>1, <2>3, <3>2 DEF EndInv
  <2>. QED BY <2>2, <2>3 DEF startTest, Set, r
<1>8. StreamsInv'
  BY <1>1, <1>2 DEF RunnerInv, StreamsInv, TypeOK, startTest, Set, r
<1>. QED BY <1>3, <1>4, <1>5, <1>6, <1>7, <1>8 DEF RunnerInv

LEMMA StopKeeps == RunnerInv /\ stopTest => RunnerInv'
<1> SUFFICES ASSUME RunnerInv, stopTest PROVE RunnerInv'
  OBVIOUS
<1>1. TypeOK'
  BY DEF RunnerInv, TypeOK, stopTest, Set, engineVars
<1>2. OneRun' /\ QueueInv' /\ Future' /\ EndInv' /\ StreamsInv'
  BY DEF RunnerInv, OneRun, Idle, QueueInv, Future, EndInv, StreamsInv, stopTest, engineVars
<1>. QED BY <1>1, <1>2 DEF RunnerInv

\* A block leaves the queue: the others move up.
LEMMA TailOfQueue ==
  ASSUME RunnerInv, mainQueue # <<>>
  PROVE  /\ Head(mainQueue) = mainQueue[1]
         /\ mainQueue[1] \in Block
         /\ mainQueue[1][2] = testRunner /\ testRunner \in Runs
         /\ Tail(mainQueue) \in Seq(Block)
         /\ Len(mainQueue) \in Nat \ {0}
         /\ Len(Tail(mainQueue)) = Len(mainQueue) - 1
         /\ \A n \in 1 .. Len(Tail(mainQueue)) : Tail(mainQueue)[n] = mainQueue[n + 1]
<1>1. mainQueue \in Seq(Block) /\ testRunner \in Runs
  BY DEF RunnerInv, TypeOK, QueueInv, Block
<1>2. Len(mainQueue) \in Nat \ {0}
  BY <1>1, EmptySeq
<1>3. mainQueue[1] \in Block /\ mainQueue[1][2] = testRunner
  BY <1>1, <1>2, ElementOfSeq DEF RunnerInv, QueueInv
<1>4. Head(mainQueue) = mainQueue[1]
  BY <1>1, <1>2
<1>. QED BY <1>1, <1>2, <1>3, <1>4, HeadTailProperties

LEMMA StatsBlockKeeps == RunnerInv /\ handleStatsCallback => RunnerInv'
<1> SUFFICES ASSUME RunnerInv, handleStatsCallback PROVE RunnerInv'
  OBVIOUS
<1>1. mainQueue # <<>>
  BY DEF handleStatsCallback
<1>2. TypeOK'
  <2>1. mainQueue' \in Seq(Block)
    BY <1>1, TailOfQueue DEF handleStatsCallback
  <2>2. crashed' \in BOOLEAN
    BY DEF handleStatsCallback
  <2>. QED BY <2>1, <2>2 DEF RunnerInv, TypeOK, handleStatsCallback, engineVars, Block
<1>3. OneRun' /\ Future' /\ EndInv' /\ StreamsInv'
  BY DEF RunnerInv, OneRun, Idle, Future, EndInv, StreamsInv, handleStatsCallback, engineVars
<1>4. QueueInv'
  BY <1>1, TailOfQueue DEF RunnerInv, QueueInv, handleStatsCallback, engineVars
<1>. QED BY <1>2, <1>3, <1>4 DEF RunnerInv

LEMMA CompletionKeeps == RunnerInv /\ completion => RunnerInv'
<1> SUFFICES ASSUME RunnerInv, completion PROVE RunnerInv'
  OBVIOUS
<1>1. mainQueue # <<>> /\ Head(mainQueue)[1] = "completion"
  BY DEF completion
<1>2. PICK r \in Runs : r = Head(mainQueue)[2] /\ r = testRunner
  BY <1>1, TailOfQueue
<1>3. Len(mainQueue) = 1 /\ phase[r] = "returned" /\ heap[r] = "live" /\ finals[r] = 0
  <2>1. mainQueue[1][1] = "completion" /\ 1 \in 1 .. Len(mainQueue)
    BY <1>1, TailOfQueue
  <2>2. Len(mainQueue) = 1 /\ testRunner # NoRun /\ phase[testRunner] = "returned"
    BY <2>1 DEF RunnerInv, QueueInv
  <2>. QED BY <1>2, <2>2 DEF RunnerInv, OneRun, EndInv
<1>4. mainQueue' = <<>>
  BY <1>1, <1>3, TailOfQueue, EmptySeq DEF completion
<1>5. TypeOK'
  <2>1. finals' \in [Runs -> Nat]
    <3>1. finals \in [Runs -> Nat]
      BY DEF RunnerInv, TypeOK
    <3>2. finals' = [finals EXCEPT ![r] = finals[r] + 1]
      BY <1>2 DEF completion, Set
    <3>. QED BY <1>2, <3>1, <3>2
  <2>2. callback' \in [Runs -> BOOLEAN] /\ saved' \subseteq Runs
    <3>1. callback \in [Runs -> BOOLEAN] /\ saved \subseteq Runs
      BY DEF RunnerInv, TypeOK
    <3>2. callback' = [callback EXCEPT ![r] = FALSE] /\ (saved' = saved \cup {r} \/ saved' = saved)
      BY <1>2 DEF completion, Set
    <3>. QED BY <1>2, <3>1, <3>2
  <2>3. mainQueue' \in Seq({"stats", "completion"} \X Runs)
    BY <1>4, EmptySeq
  <2>4. heap' \in [Runs -> {"none", "live", "freed", "leaked"}]
    BY <1>2 DEF RunnerInv, TypeOK, completion, Set
  <2>. QED BY <2>1, <2>2, <2>3, <2>4 DEF RunnerInv, TypeOK, completion, engineVars
<1>6. OneRun'
  BY <1>2, <1>3 DEF RunnerInv, TypeOK, OneRun, Idle, completion, Set, engineVars
<1>7. QueueInv'
  <2>1. \A n \in 1 .. Len(mainQueue') : FALSE
    <3>1. Len(mainQueue') = 0
      BY <1>4
    <3>. QED BY <3>1
  <2>. QED BY <1>4, <2>1 DEF QueueInv
<1>8. Future' /\ EndInv' /\ StreamsInv'
  BY <1>2, <1>3 DEF RunnerInv, TypeOK, Future, EndInv, StreamsInv, completion, Set, engineVars
<1>. QED BY <1>5, <1>6, <1>7, <1>8 DEF RunnerInv

-----------------------------------------------------------------------------
(* The library.                                                            *)

\* A library call that has not returned is the one of the view controller, and its
\* completion block is not in the queue yet.
LEMMA LibraryRuns ==
  ASSUME RunnerInv, NEW r \in Runs, ~Idle(r)
  PROVE  /\ r = testRunner /\ heap[r] = "live"
         /\ \A n \in 1 .. Len(mainQueue) : mainQueue[n][1] # "completion"
BY RunNumbers DEF RunnerInv, OneRun, QueueInv, Idle

\* What every step of the library leaves alone, and what it may do to the queue.
LibraryStep(r) ==
  /\ ~Idle(r)
  /\ UNCHANGED mainVars
  /\ phase' \in [Runs -> Phases] /\ phase'[r] # "none"
  /\ \A q \in Runs : q # r => phase'[q] = phase[q]
  /\ TypeOK'
  /\ EndInv' /\ StreamsInv'
  /\ \/ mainQueue' = mainQueue
     \/ mainQueue' = Append(mainQueue, <<"stats", r>>)
     \/ phase'[r] = "returned" /\
        \E n \in Nat : mainQueue' = mainQueue \o [i \in 1 .. n |-> <<"stats", r>>]
                                              \o <<<<"completion", r>>>>

LEMMA LibraryKeeps ==
  ASSUME RunnerInv, NEW r \in Runs, LibraryStep(r)
  PROVE  RunnerInv'
<1>1. /\ r = testRunner /\ heap[r] = "live"
      /\ \A n \in 1 .. Len(mainQueue) : mainQueue[n][1] # "completion"
  BY LibraryRuns DEF LibraryStep
<1>2. OneRun' /\ Future'
  BY <1>1 DEF RunnerInv, OneRun, Future, Idle, LibraryStep, mainVars
<1>3. QueueInv'
  <2>0. mainQueue \in Seq(Block) /\ <<"stats", r>> \in Block
    BY DEF RunnerInv, TypeOK, Block
  <2>1. testRunner' = testRunner /\ testRunner # NoRun
    BY <1>1, RunNumbers DEF LibraryStep, mainVars
  <2>2. CASE mainQueue' = mainQueue
    BY <2>1, <2>2, <1>1 DEF RunnerInv, QueueInv
  <2>3. CASE mainQueue' = Append(mainQueue, <<"stats", r>>)
    BY <2>0, <2>1, <2>3, <1>1, AppendProperties, LenProperties DEF RunnerInv, QueueInv
  <2>4. ASSUME phase'[r] = "returned", NEW n \in Nat,
               mainQueue' = mainQueue \o [i \in 1 .. n |-> <<"stats", r>>]
                                      \o <<<<"completion", r>>>>
        PROVE  QueueInv'
    <3>1. <<"completion", r>> \in Block
      BY DEF Block
    <3>2. /\ Len(mainQueue') = Len(mainQueue) + n + 1
          /\ \A i \in 1 .. Len(mainQueue') :
               mainQueue'[i] = IF i <= Len(mainQueue) THEN mainQueue[i]
                               ELSE IF i = Len(mainQueue') THEN <<"completion", r>>
                               ELSE <<"stats", r>>
      <4> DEFINE st == <<"stats", r>>
                 co == <<"completion", r>>
      <4>1. st \in Block /\ co \in Block
        BY <2>0, <3>1
      <4> HIDE DEF st, co
      <4>2. mainQueue' = mainQueue \o [i \in 1 .. n |-> st] \o <<co>>
        BY <2>4 DEF st, co
      <4>. QED BY <2>0, <4>1, <4>2, Dispatched DEF st, co
    <3>3. Len(mainQueue) \in Nat
      BY <2>0, LenProperties
    <3>. QED BY <2>1, <2>4, <3>2, <3>3, <1>1 DEF RunnerInv, QueueInv
  <2>. QED BY <2>2, <2>3, <2>4 DEF LibraryStep
<1>. QED BY <1>2, <1>3 DEF RunnerInv, LibraryStep

\* Steps between two phases that dispatch nothing or one block.
LEMMA PhaseKeeps ==
  ASSUME RunnerInv, NEW r \in Runs,
         \/ dial(r) \/ negotiate(r) \/ newStream(r) \/ testStart(r) \/ tick(r)
         \/ testTimer(r) \/ testEnd(r) \/ exchangeResults(r) \/ workerError(r)
  PROVE  RunnerInv'
<1> USE DEF Step, Set, Idle, mainVars, engineVars
<1>0. mainQueue \in Seq(Block) /\ <<"stats", r>> \in Block
  BY DEF RunnerInv, TypeOK, Block
<1>1. ~Idle(r)
  BY DEF dial, negotiate, newStream, testStart, tick, testTimer, testEnd, exchangeResults,
         workerError
<1>2. /\ UNCHANGED mainVars
      /\ \/ mainQueue' = mainQueue
         \/ mainQueue' = Append(mainQueue, <<"stats", r>>)
  BY DEF dial, negotiate, newStream, testStart, tick, testTimer, testEnd, exchangeResults,
         workerError
<1>3. mainQueue' \in Seq(Block)
  <2> DEFINE st == <<"stats", r>>
  <2>1. st \in Block
    BY <1>0
  <2> HIDE DEF st
  <2>2. mainQueue' = mainQueue \/ mainQueue' = Append(mainQueue, st)
    BY <1>2 DEF st
  <2>. QED BY <1>0, <2>1, <2>2, AppendProperties
<1>4. /\ phase' \in [Runs -> Phases] /\ phase'[r] \notin {"none", "returned"}
      /\ \A q \in Runs : q # r => phase'[q] = phase[q]
  BY DEF RunnerInv, TypeOK, Phases, dial, negotiate, newStream, testStart, tick, testTimer,
         testEnd, exchangeResults, workerError
<1>5. streams' \in [Runs -> 0 .. NumStreams] /\ StreamsInv'
  <2>1. CASE newStream(r)
    <3>1. streams[r] \in 0 .. NumStreams /\ streams[r] < NumStreams
      BY <2>1 DEF RunnerInv, TypeOK, StreamsInv, newStream
    <3>2. streams' \in [Runs -> 0 .. NumStreams]
      BY <2>1, <3>1, StreamsAssumption DEF RunnerInv, TypeOK, newStream
    <3>3. streams'[r] = NumStreams => phase'[r] = "ready"
      BY <2>1, <3>1 DEF RunnerInv, TypeOK, newStream
    <3>4. streams'[r] <= NumStreams
      BY <3>2, StreamsAssumption
    <3>5. streams'[r] # NumStreams => streams'[r] < NumStreams
      BY <3>2, <3>4, StreamsAssumption
    <3>6. \A q \in Runs : q # r => streams'[q] = streams[q] /\ phase'[q] = phase[q]
      BY <2>1 DEF RunnerInv, TypeOK, newStream
    <3>. QED BY <3>2, <3>3, <3>5, <3>6 DEF RunnerInv, StreamsInv
  <2>2. CASE ~newStream(r)
    BY <2>2 DEF RunnerInv, TypeOK, StreamsInv, dial, negotiate, testStart, tick, testTimer,
           testEnd, exchangeResults, workerError
  <2>. QED BY <2>1, <2>2
<1>6. /\ done' \in [Runs -> BOOLEAN] /\ results' \in [Runs -> BOOLEAN]
      /\ ticks' \in [Runs -> 0 .. MaxTicks] /\ result' = result /\ i_errno' \in Errors
  <2>1. /\ done' \in [Runs -> BOOLEAN] /\ results' \in [Runs -> BOOLEAN]
        /\ result' = result /\ i_errno' \in Errors
    BY Zenon DEF RunnerInv, TypeOK, Errors, dial, negotiate, newStream, testStart, tick,
           testTimer, testEnd, exchangeResults, workerError
  <2>2. CASE tick(r)
    BY <2>1, <2>2, BoundsAssumption DEF RunnerInv, TypeOK, tick
  <2>3. CASE ticks' = ticks
    BY <2>1, <2>3 DEF RunnerInv, TypeOK
  <2>. QED BY <2>1, <2>2, <2>3 DEF dial, negotiate, newStream, testStart, testTimer,
           testEnd, exchangeResults, workerError
<1>7. TypeOK'
  BY <1>2, <1>3, <1>4, <1>5, <1>6 DEF RunnerInv, TypeOK, Block
<1>8. EndInv'
  BY <1>1, <1>2, <1>4, <1>6 DEF RunnerInv, EndInv
<1>9. LibraryStep(r)
  BY <1>1, <1>2, <1>4, <1>5, <1>7, <1>8 DEF LibraryStep
<1>. QED BY <1>9, LibraryKeeps

\* The library function returns: the last reports and the completion block.
LEMMA ReturnKeeps ==
  ASSUME RunnerInv, NEW r \in Runs, succeed(r) \/ fail(r) \/ clientTerminates(r)
  PROVE  RunnerInv'
<1> USE DEF Set, Idle, mainVars, engineVars
<1>1. ~Idle(r) /\ UNCHANGED <<mainVars, streams, results, ticks, done>>
  BY DEF succeed, fail, clientTerminates
<1>2. \E n \in Nat, rc \in {-1, 0} : Return(r, rc, n)
  BY DEF succeed, fail, clientTerminates
<1>3. PICK n \in Nat, rc \in {-1, 0} : Return(r, rc, n)
  BY <1>2
<1>4. i_errno' \in Errors
  BY DEF RunnerInv, TypeOK, Errors, succeed, fail, clientTerminates
<1>5. mainQueue' \in Seq(Block)
  <2>1. mainQueue \in Seq(Block) /\ <<"stats", r>> \in Block /\ <<"completion", r>> \in Block
    BY DEF RunnerInv, TypeOK, Block
  <2>. QED BY <1>3, <2>1, Dispatched DEF Return
<1>6. /\ phase' = [phase EXCEPT ![r] = "returned"] /\ result' = [result EXCEPT ![r] = rc]
      /\ phase' \in [Runs -> Phases] /\ result' \in [Runs -> {-1, 0, 1}]
  BY <1>3 DEF RunnerInv, TypeOK, Return, Phases
<1>7. TypeOK'
  BY <1>1, <1>4, <1>5, <1>6 DEF RunnerInv, TypeOK, Block
<1>8. EndInv' /\ StreamsInv'
  BY <1>1, <1>6 DEF RunnerInv, TypeOK, EndInv, StreamsInv
<1>9. LibraryStep(r)
  BY <1>1, <1>3, <1>6, <1>7, <1>8 DEF LibraryStep, Return, RunnerInv, TypeOK
<1>. QED BY <1>9, LibraryKeeps

LEMMA RunnerStep == RunnerInv /\ [Next]_vars => RunnerInv'
<1> SUFFICES ASSUME RunnerInv, [Next]_vars PROVE RunnerInv'
  OBVIOUS
<1>1. CASE UNCHANGED vars
  BY <1>1 DEF vars, mainVars, engineVars, RunnerInv, TypeOK, OneRun, Idle, QueueInv, Future,
              EndInv, StreamsInv
<1>2. CASE startTest \/ stopTest \/ handleStatsCallback \/ completion
  BY <1>2, StartKeeps, StopKeeps, StatsBlockKeeps, CompletionKeeps
<1>3. ASSUME NEW r \in Runs,
             Engine(r) \/ negotiate(r) \/ tick(r) \/ testTimer(r) \/ workerError(r) \/ fail(r)
             \/ clientTerminates(r)
      PROVE  RunnerInv'
  BY <1>3, PhaseKeeps, ReturnKeeps DEF Engine
<1>. QED BY <1>1, <1>2, <1>3 DEF Next, Quiet

-----------------------------------------------------------------------------
\* The invariant that the theorems rest on.
THEOREM RunnerInvariant == Spec => []RunnerInv
<1>. QED BY RunnerInit, RunnerStep, PTL DEF Spec

\* No block of the main queue and no library call meets a freed test: a stats block finds
\* the test it captured, its runner and its callback (vc_reporter_callback, the
\* completion block of startTest), for any number of tests and streams.
THEOREM NothingFreedIsUsed == Spec => []NoUseAfterFree
<1>1. RunnerInv => NoUseAfterFree
  <2> SUFFICES ASSUME RunnerInv PROVE NoUseAfterFree
    OBVIOUS
  <2>1. \A r \in Runs : ~Idle(r) => heap[r] = "live"
    BY RunNumbers DEF RunnerInv, OneRun
  <2>2. DOMAIN mainQueue = 1 .. Len(mainQueue)
    BY LenProperties DEF RunnerInv, TypeOK
  <2>3. \A n \in 1 .. Len(mainQueue) : testRunner # NoRun
    BY EmptySeq DEF RunnerInv, QueueInv
  <2>. QED BY <2>1, <2>2, <2>3 DEF NoUseAfterFree, RunnerInv, OneRun, QueueInv, Idle
<1>. QED BY <1>1, RunnerInvariant, PTL

\* When the view controller shows Start, nothing of an earlier test is left, so that the
\* assertions of startTest and of the completion block hold.
THEOREM StartFindsNothing == Spec => []StartMeansIdle
<1>1. RunnerInv => StartMeansIdle
  BY RunNumbers DEF RunnerInv, TypeOK, OneRun, QueueInv, Idle, StartMeansIdle
<1>. QED BY <1>1, RunnerInvariant, PTL

\* A freed test was announced as over exactly once, after the library had returned.
THEOREM AnnouncedOnce == Spec => []OneFinalCallback
<1>1. RunnerInv => OneFinalCallback
  BY DEF RunnerInv, EndInv, OneFinalCallback
<1>. QED BY <1>1, RunnerInvariant, PTL

=============================================================================

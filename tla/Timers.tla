------------------------------- MODULE Timers -------------------------------
(***************************************************************************)
(* The timers of one test (timer.c) and the code that arms, fires and      *)
(* cancels them: create_client_timers, create_client_omit_timer (and their *)
(* server twins), the timer procs, cleanup_server and iperf_free_test.     *)
(*                                                                         *)
(* tmr_run follows a next pointer it has read before the timer proc and    *)
(* the rescheduling change the list, and cancelled Timer structs are       *)
(* reused from a free list, so that a handle kept too long would name      *)
(* somebody else's timer.  The doubly linked list is a sequence of Timer   *)
(* structs, a struct iperf_time an integer.                                *)
(***************************************************************************)
EXTENDS Integers, Sequences, FiniteSets, SequencesExt

CONSTANTS
  Slots,      \* the Timer structs malloc can hand out
  NULL,
  Duration,   \* test->duration, plus the grace period in a server
  Omit,       \* test->omit; 0 for none
  Interval,   \* test->stats_interval and test->reporter_interval
  Jumps,      \* how far the clock may move between two looks at it
  MaxClock,   \* bound: the clock stops here
  MaxTests    \* bound: tests run one after the other

ASSUME SlotsAssumption    == IsFiniteSet(Slots) /\ NULL \notin Slots
ASSUME DurationAssumption == Duration \in Nat \ {0} /\ Interval \in Nat \ {0} /\ Omit \in Nat
ASSUME BoundsAssumption   == Jumps \subseteq Nat \ {0} /\ MaxClock \in Nat /\ MaxTests \in Nat

\* The four handles of struct iperf_test; each has its timer proc.
Kinds == {"timer", "stats_timer", "reporter_timer", "omit_timer"}

Usecs(k) ==
  CASE k = "timer"      -> Duration + Omit
    [] k = "omit_timer" -> Omit
    [] OTHER            -> Interval

VARIABLES
  timers,       \* the active list
  free_timers,  \* the free list
  time,         \* the fields of a Timer: when it is due,
  proc,         \* and what it runs
  handle,       \* test->timer, test->stats_timer, ...
  pc,           \* where the main loop is
  t,            \* the loop variable of tmr_run: next of the last iteration
  now,          \* the argument of tmr_run
  clock,        \* iperf_time_now
  done,         \* test->done
  stats,        \* calls of stats_callback in this test
  reports,      \* calls of reporter_callback in this test
  tests         \* tests over

lists == <<timers, free_timers, time, proc, handle>>
vars  == <<lists, pc, t, now, clock, done, stats, reports, tests>>

TypeOK ==
  /\ timers      \in Seq(Slots)
  /\ free_timers \in Seq(Slots)
  /\ time    \in [Slots -> Nat]
  /\ proc    \in [Slots -> Kinds]
  /\ handle  \in [Kinds -> Slots \cup {NULL}]
  /\ pc      \in {"idle", "armed", "loop", "run", "over"}
  /\ t       \in Slots \cup {NULL}
  /\ now     \in 0 .. MaxClock
  /\ clock   \in 0 .. MaxClock
  /\ done    \in BOOLEAN
  /\ stats   \in Nat
  /\ reports \in Nat
  /\ tests   \in 0 .. MaxTests

Init ==
  /\ timers      = <<>>
  /\ free_timers = <<>>
  /\ time    = [s \in Slots |-> 0]
  /\ proc    = [s \in Slots |-> "timer"]
  /\ handle  = [k \in Kinds |-> NULL]
  /\ pc      = "idle"
  /\ t       = NULL
  /\ now     = 0
  /\ clock   = 0
  /\ done    = FALSE
  /\ stats   = 0
  /\ reports = 0
  /\ tests   = 0

-----------------------------------------------------------------------------
(* timer.c.                                                                *)

\* Mutant: a new timer goes before the ones of the same time.
list_add_before_equals(L, due, s) ==
  LET n == SelectInSeq(L, LAMBDA x : due[s] <= due[x])
  IN  InsertAt(L, IF n = 0 THEN Len(L) + 1 ELSE n, s)

\* Mutant: only the head of the list is compared.
list_add_second(L, due, s) ==
  IF L = <<>> \/ due[s] < due[Head(L)] THEN <<s>> \o L ELSE <<Head(L), s>> \o Tail(L)

\* Before the first timer that is later, after those of the same time.
list_add(L, due, s) ==
  LET n == SelectInSeq(L, LAMBDA x : due[s] < due[x])
  IN  InsertAt(L, IF n = 0 THEN Len(L) + 1 ELSE n, s)

list_remove(L, s) == RemoveFirst(L, s)
list_resort(L, due, s) == LET rest == list_remove(L, s) IN list_add(rest, due, s)

\* t->next of an active timer.
Successor(L, s) ==
  LET n == SelectInSeq(L, LAMBDA x : x = s)
  IN  IF n = Len(L) THEN NULL ELSE L[n + 1]

\* The structs that tmr_create may get: the head of the free list, or what malloc
\* returns, the choice of which does not matter; NULL if malloc fails.
Allocations ==
  IF free_timers # <<>> THEN {Head(free_timers)}
  ELSE {NULL, CHOOSE s \in Slots \cup {NULL} :
                \/ s \in Slots \ ToSet(timers)
                \/ s = NULL /\ ToSet(timers) = Slots}

\* tmr_create(&now, proc of k, ...), the result going into handle k.
tmr_create(k, s) ==
  /\ handle' = [handle EXCEPT ![k] = s]
  /\ IF s = NULL
     THEN UNCHANGED <<timers, free_timers, time, proc>>
     ELSE /\ free_timers' = IF free_timers = <<>> THEN <<>> ELSE Tail(free_timers)
          /\ proc'   = [proc EXCEPT ![s] = k]
          /\ time'   = [time EXCEPT ![s] = clock + Usecs(k)]
          /\ timers' = list_add(timers, time', s)

\* tmr_cancel(t): from the active list to the free list.
tmr_cancel(q, s) == [active |-> list_remove(q.active, s), freed |-> <<s>> \o q.freed]
Lists == [active |-> timers, freed |-> free_timers]

\* tmr_cancel of four handles that are not NULL, one after the other.
CancelAll(k1, k2, k3, k4) ==
  LET Cancel(q, k) == IF handle[k] = NULL THEN q ELSE tmr_cancel(q, handle[k])
      q1 == Cancel(Lists, k1)
      q2 == Cancel(q1, k2)
      q3 == Cancel(q2, k3)
      q4 == Cancel(q3, k4)
  IN
  /\ timers'      = q4.active
  /\ free_timers' = q4.freed
  /\ handle'      = [k \in Kinds |-> NULL]
  /\ UNCHANGED <<time, proc>>

-----------------------------------------------------------------------------
(* A test.                                                                 *)

\* create_client_timers, create_server_timers: three creations at the same time.
\* The handle that is set last tells how far they have come.
Armed(k) == handle[k] # NULL
create_timers ==
  /\ \/ /\ pc = "idle"
        /\ tests < MaxTests
        /\ pc' = "armed"
        /\ done' = FALSE
        /\ stats' = 0
        /\ reports' = 0
        /\ UNCHANGED lists
     \/ \E s \in Allocations :
        /\ pc = "armed"
        /\ ~Armed("reporter_timer")
        /\ tmr_create(IF ~Armed("timer") THEN "timer"
                      ELSE IF ~Armed("stats_timer") THEN "stats_timer"
                      ELSE "reporter_timer", s)
        /\ pc' = IF s = NULL THEN "over" ELSE "armed"
        /\ UNCHANGED <<done, stats, reports>>
  /\ UNCHANGED <<t, now, clock, tests>>

\* create_client_omit_timer, create_server_omit_timer: the clock is read again.
create_omit_timer ==
  /\ pc = "armed"
  /\ Armed("reporter_timer")
  /\ \/ /\ Omit = 0
        /\ pc' = "loop"
        /\ UNCHANGED lists
     \/ /\ Omit # 0
        /\ \E s \in Allocations :
             /\ tmr_create("omit_timer", s)
             /\ pc' = IF s = NULL THEN "over" ELSE "loop"
  /\ UNCHANGED <<t, now, clock, done, stats, reports, tests>>

\* The main loop has read the clock and calls tmr_run.
tmr_run ==
  /\ pc = "loop"
  /\ pc'  = "run"
  /\ now' = clock
  /\ t'   = IF timers = <<>> THEN NULL ELSE Head(timers)
  /\ UNCHANGED <<lists, clock, done, stats, reports, tests>>

\* The loop of tmr_run ends at a timer that is not due.
tmr_run_end ==
  /\ pc = "run"
  /\ t # NULL => time[t] > now
  /\ pc' = "loop"
  /\ UNCHANGED <<lists, t, now, clock, done, stats, reports, tests>>

\* The loop is at timer t, which is due and runs the proc of k.
Fires(k) ==
  /\ pc = "run"
  /\ t # NULL
  /\ time[t] <= now
  /\ proc[t] = k
  /\ t' = Successor(timers, t)
  /\ UNCHANGED <<pc, now, clock, tests, proc>>

\* After the proc: a periodic timer is rescheduled, another one is cancelled.
Reschedule(k) ==
  /\ time'   = [time EXCEPT ![t] = @ + Usecs(k)]
  /\ timers' = list_resort(timers, time', t)
  /\ UNCHANGED <<free_timers, handle>>
Expire(L) ==
  LET q == tmr_cancel([Lists EXCEPT !.active = L], t)
  IN  timers' = q.active /\ free_timers' = q.freed

\* client_stats_timer_proc and client_reporter_timer_proc do nothing when the test
\* is done.
PeriodicFires ==
  \/ /\ Fires("stats_timer")
     /\ Reschedule("stats_timer")
     /\ stats' = IF done THEN stats ELSE stats + 1
     /\ UNCHANGED <<done, reports>>
  \/ /\ Fires("reporter_timer")
     /\ Reschedule("reporter_timer")
     /\ reports' = IF done THEN reports ELSE reports + 1
     /\ UNCHANGED <<done, stats>>

\* Mutant: the proc of the test timer keeps its handle.
TestTimerFires_keeps_handle ==
  /\ Fires("timer")
  /\ Expire(timers)
  /\ done' = TRUE
  /\ UNCHANGED <<time, handle, stats, reports>>

\* Mutant: the proc of the test timer does not set test->done.
TestTimerFires_not_done ==
  /\ Fires("timer")
  /\ Expire(timers)
  /\ handle' = [handle EXCEPT !["timer"] = NULL]
  /\ UNCHANGED <<time, done, stats, reports>>

\* test_timer_proc, server_timer_proc.
TestTimerFires ==
  /\ Fires("timer")
  /\ Expire(timers)
  /\ handle' = [handle EXCEPT !["timer"] = NULL]
  /\ done'   = TRUE
  /\ UNCHANGED <<time, stats, reports>>

\* tmr_reset: the timer starts anew; list and times after it.
tmr_reset(L, due, s, usecs) ==
  LET anew == [due EXCEPT ![s] = now + usecs]
  IN  [list |-> list_resort(L, anew, s), due |-> anew]

\* client_omit_timer_proc, server_omit_timer_proc: tmr_reset of the stats timer, then
\* of the reporter timer; next has been read before.
OmitTimerFires ==
  /\ Fires("omit_timer")
  /\ \E one \in {tmr_reset(timers, time, handle["stats_timer"], Interval)} :
     \E two \in {tmr_reset(one.list, one.due, handle["reporter_timer"], Interval)} :
       Expire(two.list) /\ time' = two.due
  /\ handle' = [handle EXCEPT !["omit_timer"] = NULL]
  /\ UNCHANGED <<done, stats, reports>>

\* The main loop ends: TEST_END, or any failure.
leave ==
  /\ pc = "loop"
  /\ pc' = "over"
  /\ UNCHANGED <<lists, t, now, clock, done, stats, reports, tests>>

\* cleanup_server: the timers are cancelled and their handles cleared.
cleanup_server ==
  /\ pc = "over"
  /\ CancelAll("stats_timer", "reporter_timer", "omit_timer", "timer")
  /\ UNCHANGED <<pc, t, now, clock, done, stats, reports, tests>>

\* iperf_free_test; the next test starts from calloc'ed handles.
iperf_free_test ==
  /\ pc = "over"
  /\ CancelAll("omit_timer", "timer", "stats_timer", "reporter_timer")
  /\ pc'    = "idle"
  /\ tests' = tests + 1
  /\ UNCHANGED <<t, now, clock, done, stats, reports>>

\* -[IPFTestRunner stopTest], from another thread.
stopTest ==
  /\ pc \in {"loop", "run"}
  /\ ~done
  /\ done' = TRUE
  /\ UNCHANGED <<lists, pc, t, now, clock, stats, reports, tests>>

\* Time passes, except between two creations of create_timers.
tick ==
  /\ ~(pc = "armed" /\ ~Armed("reporter_timer"))
  /\ \E d \in Jumps : clock' = clock + d
  /\ clock' <= MaxClock
  /\ UNCHANGED <<lists, pc, t, now, done, stats, reports, tests>>

\* The user rests.
Quiet == pc = "idle" /\ tests = MaxTests /\ UNCHANGED vars

Next ==
  \/ create_timers
  \/ create_omit_timer
  \/ tmr_run
  \/ tmr_run_end
  \/ PeriodicFires
  \/ TestTimerFires
  \/ OmitTimerFires
  \/ leave
  \/ cleanup_server
  \/ iperf_free_test
  \/ stopTest
  \/ tick
  \/ Quiet

\* The loop goes round: select returns after tmr_timeout at the latest, and tmr_run
\* is called and comes to its end.
Fairness ==
  WF_vars(tmr_run \/ tmr_run_end \/ PeriodicFires \/ TestTimerFires \/ OmitTimerFires)

Spec == Init /\ [][Next]_vars /\ Fairness

-----------------------------------------------------------------------------
(* Properties.                                                             *)

\* The active list is in the order of the times at every iteration of tmr_run, also
\* after a timer proc has moved timers the loop has not come to: tmr_timeout and
\* tmr_run look at the first timer only, "since the list is sorted".
ListSorted ==
  \A n \in 2 .. Len(timers) : time[timers[n - 1]] <= time[timers[n]]

\* The two lists never share a Timer struct nor hold one twice, and the handles of
\* the test name exactly the active timers, each with the proc it was created for:
\* cleanup_server and iperf_free_test cancel the timers of their test, all of them
\* and none twice, and leave nothing for the next test to run.
HandlesLive ==
  /\ IsInjective(timers \o free_timers)
  /\ \A k \in Kinds : handle[k] # NULL => handle[k] \in ToSet(timers) /\ proc[handle[k]] = k
  /\ \A s \in ToSet(timers) : handle[proc[s]] = s

\* The reporter is called after the stats callback of its interval, however late the
\* loop is and whatever the omit timer resets: reporter_callback always finds an
\* interval result it has not reported yet.
ReporterFollowsStats == reports \in {stats - 1, stats}

\* A test timer that is due ends the test unless the loop has ended it already, even
\* if a tmr_run that should have seen it stops early at a stale next.
DurationIsKept ==
  (handle["timer"] # NULL /\ time[handle["timer"]] <= clock /\ pc \in {"loop", "run"})
    ~> (done \/ pc = "over")

=============================================================================

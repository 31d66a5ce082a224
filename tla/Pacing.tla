------------------------------- MODULE Pacing -------------------------------
(***************************************************************************)
(* How a sending stream keeps to the bit rate of -b: the worker thread     *)
(* calls iperf_send_mt over and over, which sends while the stream's       *)
(* green_light is on and asks iperf_check_throttle to set it.  The build   *)
(* has nanosleep and not clock_nanosleep, so iperf_check_throttle sleeps   *)
(* in pieces shorter than a second until the average has come down.        *)
(*                                                                         *)
(* Everything iperf_check_throttle compares is the difference between what *)
(* the rate allows since the start, rate * seconds, and what was sent,     *)
(* bits_sent: the credit.  A clock tick adds Rate to it, a message takes   *)
(* its bits from it.  Neither the bytes of the omitted period nor the end  *)
(* of it changes the credit: start_time_fixed and bytes_sent run on.       *)
(* There is no limit of bytes or blocks in this module (see Transfer).     *)
(***************************************************************************)
EXTENDS Integers

CONSTANTS
    Rate,       \* bits the rate allows per tick
    Size,       \* bits of a message
    Bursts,     \* values of -b rate/burst; 0: no burst was given
    Second,     \* bits the rate allows in the longest single nanosleep
    MaxCredit,  \* bound: a longer stall of the sender changes nothing more
    MaxAtOnce   \* bound on the messages sent before the clock moves

ASSUME PacingAssumption ==
    /\ Rate \in Nat \ {0} /\ Size \in Nat \ {0} /\ Second \in Nat \ {0}
    /\ Bursts \subseteq Nat
    /\ MaxCredit \in Nat \ {0} /\ MaxAtOnce \in Nat

VARIABLES
    burst,          \* settings->burst
    green_light,    \* sp->green_light
    done,           \* test->done
    credit,         \* rate * (now - start_time_fixed) - bits_sent
    moved,          \* the clock has moved since start_time_fixed
    at_once,        \* bits sent before it did
    pc,             \* where the worker is: "send", "check", "sleep" or "ended"
    multisend,      \* messages this call of iperf_send_mt may still send
    now,            \* what iperf_time_now last showed: the credit, and moved
    left,           \* time_to_green_light, in bits of the rate
    due             \* the credit at which the present nanosleep ends

vars == <<burst, green_light, done, credit, moved, at_once, pc, multisend, now, left, due>>
worker == <<pc, multisend, now, left, due>>

Least(a, b) == IF a < b THEN a ELSE b

\* The messages of one call: the burst, or one, since the rate is not 0.
Multisend == IF burst # 0 THEN burst ELSE 1

\* The light is on from iperf_create_send_timers.
Init ==
    /\ burst \in Bursts
    /\ green_light = TRUE /\ done = FALSE
    /\ credit = 0 /\ moved = FALSE /\ at_once = 0
    /\ pc = "send" /\ multisend = Multisend
    /\ now = [credit |-> 0, moved |-> FALSE] /\ left = 0 /\ due = 0

-----------------------------------------------------------------------------
(* The clock and the main thread.                                          *)

tick ==
    /\ credit' = Least(credit + Rate, MaxCredit)
    /\ moved' = TRUE
    /\ UNCHANGED <<burst, green_light, done, at_once, worker>>

\* The test ends: its timer, a signal or the user.
stop ==
    /\ done' = TRUE
    /\ UNCHANGED <<burst, green_light, credit, moved, at_once, worker>>

-----------------------------------------------------------------------------
(* iperf_send_mt, called by the worker until test->done.                   *)

iperf_time_now(c) == now' = [credit |-> c, moved |-> moved]

\* iperf_send_mt returns; the worker looks at test->done and calls it again.
Returns ==
    /\ pc' = IF done THEN "ended" ELSE "send"
    /\ multisend' = Multisend

\* snd writes all or some of a block, r bits.  Without a burst the throttle is
\* checked after every message.
snd(r) ==
    /\ pc = "send" /\ green_light /\ multisend > 0
    /\ moved \/ at_once + r <= MaxAtOnce * Size
    /\ credit' = credit - r
    /\ at_once' = IF moved THEN at_once ELSE at_once + r
    /\ multisend' = multisend - 1
    /\ IF burst = 0 THEN pc' = "check" /\ iperf_time_now(credit') ELSE UNCHANGED <<pc, now>>
    /\ UNCHANGED <<burst, green_light, done, moved, left, due>>

\* Mutant: nothing is checked unless a burst was sent.
CheckAtEnd_if_sent == burst # 0

\* The check at the end of the call, if none was made for a message.
CheckAtEnd == burst # 0 \/ multisend = Multisend

\* The loop is over because the light is off, the burst is sent or snd met a
\* soft error; after the check the call returns.
end_of_burst ==
    /\ pc = "send"
    /\ CheckAtEnd
    /\ pc' = "check"
    /\ iperf_time_now(credit)
    /\ UNCHANGED <<burst, green_light, done, credit, moved, at_once, multisend, left, due>>

-----------------------------------------------------------------------------
(* iperf_check_throttle.                                                   *)

throttle_done ==
    /\ pc = "check" /\ done
    /\ Returns
    /\ UNCHANGED <<burst, green_light, done, credit, moved, at_once, now, left, due>>

\* bits_per_second = bits_sent / seconds is below the rate.  For seconds = 0
\* the quotient is infinite and its conversion to an integer undefined: it may
\* look like a rate below the target as well as like one far above it.
throttle_below ==
    /\ pc = "check" /\ ~done
    /\ now.credit > 0 \/ ~now.moved
    /\ green_light' = TRUE
    /\ Returns
    /\ UNCHANGED <<burst, done, credit, moved, at_once, now, left, due>>

\* The rate is met, or exceeded by less than the one bit per second that the
\* truncated quotient shows: no light and no sleep.
throttle_met ==
    /\ pc = "check" /\ ~done
    /\ now.credit <= 0 /\ now.moved
    /\ green_light' = FALSE
    /\ Returns
    /\ UNCHANGED <<burst, done, credit, moved, at_once, now, left, due>>

\* One nanosleep of less than a second.
Sleep(time) ==
    /\ due' = credit + Least(time, Second)
    /\ left' = time - Least(time, Second)
    /\ pc' = "sleep"
    /\ UNCHANGED multisend

\* The rate is exceeded: sleep for delta_bits at the rate, both truncated.
throttle_above(truncated) ==
    /\ pc = "check" /\ ~done
    /\ now.credit < 0
    /\ green_light' = FALSE
    /\ Sleep(-now.credit - truncated)
    /\ UNCHANGED <<burst, done, credit, moved, at_once, now>>

\* Mutant: only the first second is slept.
SleepsOn_once == FALSE

\* Another piece of the sleep is due.
SleepsOn == left > 0

\* A nanosleep is over, not before its time.
wake ==
    /\ pc = "sleep"
    /\ credit >= Least(due, MaxCredit)
    /\ IF SleepsOn
       THEN Sleep(left) /\ UNCHANGED green_light
       ELSE green_light' = TRUE /\ Returns /\ UNCHANGED <<left, due>>
    /\ UNCHANGED <<burst, done, credit, moved, at_once, now>>

\* A signal interrupts nanosleep: the light stays off.
interrupted ==
    /\ pc = "sleep"
    /\ Returns
    /\ UNCHANGED <<burst, green_light, done, credit, moved, at_once, now, left, due>>

iperf_check_throttle ==
    \/ throttle_done
    \/ throttle_below
    \/ throttle_met
    \/ \E truncated \in 0 .. 1 : throttle_above(truncated)

-----------------------------------------------------------------------------
Worker ==
    \/ \E r \in 1 .. Size : snd(r)
    \/ end_of_burst
    \/ iperf_check_throttle
    \/ wake
    \/ interrupted

Next == tick \/ stop \/ Worker

\* The clock runs, and the operating system schedules the worker.
Fairness == WF_vars(tick) /\ WF_vars(Worker)

Spec == Init /\ [][Next]_vars /\ Fairness

-----------------------------------------------------------------------------
(* Properties.                                                             *)

TypeOK ==
    /\ burst \in Bursts
    /\ green_light \in BOOLEAN /\ done \in BOOLEAN /\ moved \in BOOLEAN
    /\ credit \in Int /\ credit <= MaxCredit
    /\ at_once \in 0 .. MaxAtOnce * Size
    /\ pc \in {"send", "check", "sleep", "ended"}
    /\ multisend \in 0 .. Multisend
    /\ now \in [credit : Int, moved : BOOLEAN]
    /\ left \in Nat /\ due \in Int

\* At no time has the stream sent more than its rate allows since the start
\* plus one burst, and one bit for the truncated sleep: iperf_check_throttle
\* turns the light on after its sleep without another look at the clock, and
\* iperf_send_mt sends a whole burst without a check.  What went out before the
\* clock first moved, when the average cannot be computed, comes on top.
NeverAheadOfRate == credit >= -(at_once + Multisend * Size + 1)

\* A stream whose light is off gets it back while the test runs: an interrupted
\* sleep and an average exactly at the rate are looked at again, because
\* iperf_send_mt checks also when it has sent nothing.
LightComesOn == ~green_light ~> (green_light \/ done)

=============================================================================

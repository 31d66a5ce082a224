---------------------------- MODULE PacingProofs ----------------------------
(***************************************************************************)
(* Proof that the throttle of Pacing never lets a stream get ahead of its  *)
(* rate by more than one burst, for every rate, message size, burst and    *)
(* length of a sleep.                                                      *)
(***************************************************************************)
EXTENDS Pacing, TLAPS

\* What the present call of iperf_send_mt has sent at most.
SentBy(m) == (Multisend - m) * Size

(***************************************************************************)
(* While the light is on, the credit was at least -1 (or what went out     *)
(* before the clock moved) when the call began; what iperf_time_now showed *)
(* is not newer than the credit; and a sleep ends with the credit restored *)
(* up to the truncated bit.                                                *)
(***************************************************************************)
Sends == pc = "send" /\ green_light => credit >= -(at_once + SentBy(multisend) + 1)
NotMoved == ~moved => credit >= -at_once
NowIsOld ==
    pc = "check" => /\ now.credit <= credit
                    /\ ~now.moved => credit >= -at_once
Sleeps == pc = "sleep" => ~green_light /\ due + left >= -1

PacingInv == TypeOK /\ NeverAheadOfRate /\ Sends /\ NotMoved /\ NowIsOld /\ Sleeps

USE PacingAssumption

\* A call never sends more than its burst, and its next message adds Size.
LEMMA BurstArithmetic ==
    ASSUME TypeOK
    PROVE  /\ Multisend \in Nat \ {0}
           /\ Multisend * Size \in Nat
           /\ MaxAtOnce * Size \in Nat
           /\ SentBy(multisend) \in Nat
           /\ SentBy(multisend) <= Multisend * Size
           /\ SentBy(Multisend) = 0
           /\ multisend > 0 => /\ SentBy(multisend - 1) = SentBy(multisend) + Size
                               /\ SentBy(multisend) + Size <= Multisend * Size
<1>1. Multisend \in Nat \ {0}
  BY DEF TypeOK, Multisend
<1>2. multisend \in Nat /\ multisend <= Multisend
  BY <1>1 DEF TypeOK
<1>3. \A a, b, c \in Nat : a <= b => a * c <= b * c
  BY Z3
<1>4. \A a, c \in Nat : a * c \in Nat
  OBVIOUS
<1>5. PICK k \in Nat : k = Multisend - multisend
  BY <1>1, <1>2
<1>6. k <= Multisend
  BY <1>1, <1>2, <1>5
<1>7. SentBy(multisend) = k * Size
  BY <1>5 DEF SentBy
<1>8. SentBy(multisend) \in Nat /\ SentBy(multisend) <= Multisend * Size
  BY <1>1, <1>3, <1>4, <1>6, <1>7
<1>9. SentBy(Multisend) = 0
  BY <1>1 DEF SentBy
<1>10. ASSUME multisend > 0
       PROVE  /\ SentBy(multisend - 1) = SentBy(multisend) + Size
              /\ SentBy(multisend) + Size <= Multisend * Size
  <2>1. Multisend - (multisend - 1) = k + 1
    BY <1>1, <1>2, <1>5
  <2>2. (k + 1) * Size = k * Size + Size
    OBVIOUS
  <2>3. SentBy(multisend - 1) = k * Size + Size
    BY <2>1, <2>2 DEF SentBy
  <2>4. k + 1 <= Multisend /\ k + 1 \in Nat
    BY <1>1, <1>2, <1>5, <1>10
  <2>5. (k + 1) * Size <= Multisend * Size
    BY <1>1, <1>3, <2>4
  <2> QED
    BY <1>7, <2>2, <2>3, <2>5
<1> QED
  BY <1>1, <1>4, <1>8, <1>9, <1>10

\* The invariant holds at the start.
LEMMA PacingInit == Init => PacingInv
<1> SUFFICES ASSUME Init PROVE PacingInv
  OBVIOUS
<1>1. TypeOK
  <2>1. Multisend \in Nat
    BY DEF Init, Multisend
  <2>2. MaxAtOnce * Size \in Nat
    OBVIOUS
  <2>3. /\ burst \in Bursts
        /\ credit \in Int /\ credit <= MaxCredit
        /\ at_once \in 0 .. MaxAtOnce * Size
        /\ multisend \in 0 .. Multisend
        /\ left \in Nat /\ due \in Int
    BY <2>1, <2>2 DEF Init
  <2>4. green_light \in BOOLEAN /\ done \in BOOLEAN /\ moved \in BOOLEAN
    BY DEF Init
  <2>5. pc \in {"send", "check", "sleep", "ended"} /\ now \in [credit : Int, moved : BOOLEAN]
    BY DEF Init
  <2> QED
    BY <2>3, <2>4, <2>5 DEF TypeOK
<1> QED
  BY <1>1, BurstArithmetic
     DEF Init, PacingInv, NeverAheadOfRate, Sends, NotMoved, NowIsOld, Sleeps

\* Every step of the worker, of the clock and of the main thread keeps it.
LEMMA PacingStep == PacingInv /\ [Next]_vars => PacingInv'
<1> SUFFICES ASSUME PacingInv, [Next]_vars PROVE PacingInv'
  OBVIOUS
<1> USE DEF PacingInv
<1>0. /\ Multisend \in Nat \ {0}
      /\ Multisend * Size \in Nat
      /\ MaxAtOnce * Size \in Nat
      /\ SentBy(multisend) \in Nat
      /\ SentBy(multisend) <= Multisend * Size
      /\ SentBy(Multisend) = 0
      /\ multisend > 0 => /\ SentBy(multisend - 1) = SentBy(multisend) + Size
                          /\ SentBy(multisend) + Size <= Multisend * Size
  BY BurstArithmetic
<1>b. burst' = burst
  BY DEF Next, vars, tick, stop, Worker, snd, end_of_burst, iperf_check_throttle,
         throttle_done, throttle_below, throttle_met, throttle_above, wake, interrupted
<1>c. Multisend' = Multisend
  BY <1>b DEF Multisend
<1>1. CASE tick
  <2>1. TypeOK'
    BY <1>0, <1>1, <1>b, <1>c DEF tick, worker, TypeOK, Least
  <2>2. credit' >= credit
    BY <1>1 DEF tick, Least, TypeOK
  <2>3. SentBy(multisend)' = SentBy(multisend)
    BY <1>1, <1>c DEF tick, worker, SentBy
  <2>4. UNCHANGED <<green_light, at_once, pc, now, left, due>> /\ moved' = TRUE
    BY <1>1 DEF tick, worker
  <2>5. NeverAheadOfRate' /\ Sends'
    BY <1>0, <1>c, <2>1, <2>2, <2>3, <2>4 DEF NeverAheadOfRate, Sends, TypeOK
  <2>6. NotMoved' /\ NowIsOld' /\ Sleeps'
    BY <2>1, <2>2, <2>4 DEF NotMoved, NowIsOld, Sleeps, TypeOK
  <2> QED
    BY <2>1, <2>5, <2>6
<1>2. CASE stop
  <2>1. UNCHANGED <<green_light, credit, moved, at_once, pc, multisend, now, left, due>>
        /\ done' = TRUE
    BY <1>2 DEF stop, worker
  <2>2. TypeOK'
    BY <1>b, <1>c, <2>1 DEF TypeOK
  <2>3. SentBy(multisend)' = SentBy(multisend)
    BY <1>c, <2>1 DEF SentBy
  <2> QED
    BY <1>c, <2>1, <2>2, <2>3 DEF NeverAheadOfRate, Sends, NotMoved, NowIsOld, Sleeps
<1>3. ASSUME NEW r \in 1 .. Size, snd(r) PROVE PacingInv'
  <2>1. /\ pc = "send" /\ green_light /\ multisend > 0
        /\ credit' = credit - r
        /\ multisend' = multisend - 1
        /\ UNCHANGED <<green_light, done, moved, left, due>>
    BY <1>3 DEF snd
  <2>2. at_once' \in Nat /\ at_once' >= at_once /\ (~moved => at_once' = at_once + r)
        /\ at_once' \in 0 .. MaxAtOnce * Size
    BY <1>0, <1>3 DEF snd, TypeOK
  <2>3. pc' \in {"send", "check"} /\ now' \in [credit : Int, moved : BOOLEAN]
        /\ (pc' = "check" => now' = [credit |-> credit', moved |-> moved])
    BY <1>3, <2>1 DEF snd, iperf_time_now, TypeOK
  <2>4. TypeOK'
    BY <1>0, <1>b, <1>c, <2>1, <2>2, <2>3 DEF TypeOK
  <2>5. SentBy(multisend)' = SentBy(multisend) + Size
    BY <1>0, <1>c, <2>1 DEF SentBy
  <2>6. credit >= -(at_once + SentBy(multisend) + 1)
    BY <2>1 DEF Sends
  <2>7. credit' >= -(at_once' + (SentBy(multisend) + Size) + 1)
    BY <1>0, <2>1, <2>2, <2>6 DEF TypeOK
  <2>t. credit' \in Int /\ at_once' \in Nat
    BY <2>2, <2>4 DEF TypeOK
  <2>u. credit' >= -(at_once' + Multisend * Size + 1)
    BY <1>0, <2>1, <2>7, <2>t
  <2>8. NeverAheadOfRate'
    BY <1>c, <2>u DEF NeverAheadOfRate
  <2>9. Sends'
    BY <2>5, <2>7 DEF Sends
  <2>10. NotMoved'
    BY <2>1, <2>2 DEF NotMoved, TypeOK
  <2>11. NowIsOld'
    <3> SUFFICES ASSUME pc' = "check"
                 PROVE  now'.credit <= credit' /\ (~now'.moved => credit' >= -at_once')
      BY DEF NowIsOld
    <3>1. now'.credit = credit' /\ now'.moved = moved'
      BY <2>1, <2>3
    <3>2. now'.credit <= credit'
      BY <2>t, <3>1
    <3> QED
      BY <2>10, <3>1, <3>2 DEF NotMoved
  <2>12. Sleeps'
    BY <2>3 DEF Sleeps
  <2> QED
    BY <2>4, <2>8, <2>9, <2>10, <2>11, <2>12
<1>4. CASE end_of_burst
  <2>1. /\ pc' = "check" /\ now' = [credit |-> credit, moved |-> moved]
        /\ UNCHANGED <<green_light, done, credit, moved, at_once, multisend, left, due>>
    BY <1>4 DEF end_of_burst, iperf_time_now
  <2>2. TypeOK'
    BY <1>b, <1>c, <2>1 DEF TypeOK
  <2> QED
    BY <1>c, <2>1, <2>2 DEF NeverAheadOfRate, Sends, NotMoved, NowIsOld, Sleeps, TypeOK
<1>5. ASSUME /\ UNCHANGED <<done, credit, moved, at_once, now, left, due>>
             /\ Returns
             /\ green_light' \in BOOLEAN
             /\ (green_light' /\ ~done) => credit >= -(at_once + 1)
      PROVE  PacingInv'
  <2>1. multisend' = Multisend /\ pc' \in {"send", "ended"} /\ (pc' = "send" => ~done)
    BY <1>5 DEF Returns
  <2>2. TypeOK'
    BY <1>0, <1>5, <1>b, <1>c, <2>1 DEF TypeOK
  <2>3. SentBy(multisend)' = 0
    BY <1>0, <1>c, <2>1 DEF SentBy
  <2>4. Sends'
    BY <1>5, <2>1, <2>3 DEF Sends, TypeOK
  <2>5. NeverAheadOfRate' /\ NotMoved' /\ NowIsOld' /\ Sleeps'
    BY <1>5, <1>c, <2>1 DEF NeverAheadOfRate, NotMoved, NowIsOld, Sleeps
  <2> QED
    BY <2>2, <2>4, <2>5
<1>6. CASE throttle_done
  BY <1>5, <1>6 DEF throttle_done, TypeOK
<1>7. CASE throttle_below
  <2>1. credit >= -(at_once + 1)
    BY <1>7 DEF throttle_below, NowIsOld, TypeOK
  <2> QED
    BY <1>5, <1>7, <2>1 DEF throttle_below
<1>8. CASE throttle_met
  BY <1>5, <1>8 DEF throttle_met
<1>9. ASSUME NEW time \in Nat, Sleep(time), credit + time >= -1,
             UNCHANGED <<done, credit, moved, at_once, now>>, green_light' = FALSE
      PROVE  PacingInv'
  <2>1. /\ pc' = "sleep" /\ multisend' = multisend
        /\ left' \in Nat /\ due' \in Int /\ due' + left' = credit + time
    BY <1>9 DEF Sleep, Least, TypeOK
  <2>2. TypeOK'
    BY <1>9, <1>b, <1>c, <2>1 DEF TypeOK
  <2> QED
    BY <1>9, <1>c, <2>1, <2>2 DEF NeverAheadOfRate, Sends, NotMoved, NowIsOld, Sleeps
<1>10. ASSUME NEW truncated \in 0 .. 1, throttle_above(truncated) PROVE PacingInv'
  <2>1. -now.credit - truncated \in Nat /\ credit + (-now.credit - truncated) >= -1
    BY <1>10 DEF throttle_above, NowIsOld, TypeOK
  <2> QED
    BY <1>9, <1>10, <2>1 DEF throttle_above
<1>11. CASE wake
  <2>1. CASE SleepsOn
    <3>1. Least(due, MaxCredit) <= credit /\ due + left >= -1 /\ left \in Nat
          /\ green_light = FALSE
      BY <1>11 DEF wake, Sleeps, TypeOK
    <3>2. credit + left >= -1
      BY <3>1 DEF Least, TypeOK
    <3> QED
      BY <1>9, <1>11, <2>1, <3>1, <3>2 DEF wake, TypeOK
  <2>2. CASE ~SleepsOn
    <3>1. credit >= -1
      BY <1>11, <2>2 DEF wake, Sleeps, SleepsOn, Least, TypeOK
    <3>2. credit >= -(at_once + 1)
      BY <1>0, <3>1 DEF TypeOK
    <3> QED
      BY <1>5, <1>11, <2>2, <3>2 DEF wake
  <2> QED
    BY <2>1, <2>2
<1>12. CASE interrupted
  <2>1. green_light = FALSE
    BY <1>12 DEF interrupted, Sleeps, TypeOK
  <2> QED
    BY <1>5, <1>12, <2>1 DEF interrupted, TypeOK
<1>13. CASE UNCHANGED vars
  <2>1. UNCHANGED <<green_light, done, credit, moved, at_once, pc, multisend, now, left, due>>
    BY <1>13 DEF vars
  <2>2. TypeOK'
    BY <1>b, <1>c, <2>1 DEF TypeOK
  <2>3. SentBy(multisend)' = SentBy(multisend)
    BY <1>c, <2>1 DEF SentBy
  <2> QED
    BY <1>c, <2>1, <2>2, <2>3 DEF NeverAheadOfRate, Sends, NotMoved, NowIsOld, Sleeps
<1> QED
  BY <1>1, <1>2, <1>3, <1>4, <1>6, <1>7, <1>8, <1>10, <1>11, <1>12, <1>13
     DEF Next, Worker, iperf_check_throttle

\* Type correctness of the model of the throttle, for all rates, sizes and bursts.
THEOREM PacingTypeCorrect == Spec => []TypeOK
<1>1. Init => PacingInv
  BY PacingInit
<1>2. PacingInv /\ [Next]_vars => PacingInv'
  BY PacingStep
<1>3. PacingInv => TypeOK
  BY DEF PacingInv
<1> QED
  BY <1>1, <1>2, <1>3, PTL DEF Spec

\* iperf_check_throttle never lets a stream send more than its rate allows by
\* more than one burst and the truncated bit, whatever the rate, the message
\* size, the burst, the pieces of the sleep and the interruptions.
THEOREM RateIsKept == Spec => []NeverAheadOfRate
<1>1. Init => PacingInv
  BY PacingInit
<1>2. PacingInv /\ [Next]_vars => PacingInv'
  BY PacingStep
<1>3. PacingInv => NeverAheadOfRate
  BY DEF PacingInv
<1> QED
  BY <1>1, <1>2, <1>3, PTL DEF Spec

=============================================================================

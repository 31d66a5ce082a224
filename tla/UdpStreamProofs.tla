-------------------------- MODULE UdpStreamProofs --------------------------
(***************************************************************************)
(* The properties of UdpStream hold for every Modulus, every bound and any *)
(* number of datagrams, lost, reordered and repeated at will.              *)
(***************************************************************************)
EXTENDS UdpStream, FiniteSetTheorems, TLAPS

\* A number below the modulus reads as itself in the datagram (htonl and ntohl of
\* packet_count).
LEMMA NumberFits ==
  ASSUME NEW p \in Nat, NEW m \in Nat \ {0}, p < m
  PROVE  p % m = p
OBVIOUS

\* A number taken modulo something is a number.
LEMMA NumberType ==
  ASSUME NEW p \in Nat, NEW m \in Nat \ {0}
  PROVE  p % m \in Nat
OBVIOUS

\* The numbers up to n that are not in S are finitely many.
LEMMA GapsFinite ==
  ASSUME NEW n \in Nat, NEW S
  PROVE  IsFiniteSet((1 .. n) \ S) /\ Cardinality((1 .. n) \ S) \in Nat
<1>1. IsFiniteSet(1 .. n)
  BY FS_Interval
<1>2. (1 .. n) \ S \in SUBSET (1 .. n)
  OBVIOUS
<1>3. IsFiniteSet((1 .. n) \ S)
  BY <1>1, <1>2, FS_Subset
<1> QED
  BY <1>3, FS_CardinalityType

\* A datagram beyond the highest number seen opens a gap of the numbers between
\* (the "forward" branch of iperf_udp_recv).
LEMMA GapsForward ==
  ASSUME NEW n \in Nat, NEW S \in SUBSET (1 .. n), NEW p \in Nat, p > n
  PROVE  Cardinality((1 .. p) \ (S \cup {p})) = Cardinality((1 .. n) \ S) + (p - 1) - n
<1> DEFINE Old == (1 .. n) \ S
           Gap == (n + 1) .. (p - 1)
<1>1. (1 .. p) \ (S \cup {p}) = Old \cup Gap
  OBVIOUS
<1>2. Old \cap Gap = {}
  OBVIOUS
<1>3. IsFiniteSet(Old) /\ Cardinality(Old) \in Nat
  BY GapsFinite
<1>4. IsFiniteSet(Gap) /\ Cardinality(Gap) = (p - 1) - n
  <2>1. n + 1 \in Int /\ p - 1 \in Int
    OBVIOUS
  <2>2. /\ IsFiniteSet(Gap)
        /\ Cardinality(Gap) = IF n + 1 > p - 1 THEN 0 ELSE (p - 1) - (n + 1) + 1
    BY <2>1, FS_Interval
  <2> QED
    BY <2>2
<1>5. Cardinality(Old \cup Gap) = Cardinality(Old) + Cardinality(Gap) - Cardinality(Old \cap Gap)
  BY <1>3, <1>4, FS_Union
<1>6. Cardinality(Old \cap Gap) = 0
  BY <1>2, FS_EmptySet
<1> HIDE DEF Old, Gap
<1>7. Cardinality(Old \cup Gap) = Cardinality(Old) + (p - 1) - n
  BY <1>3, <1>4, <1>5, <1>6
<1> QED
  BY <1>1, <1>7 DEF Old

\* A datagram at or below the highest number seen fills one gap if it is new, and
\* none if it is a repetition (the out-of-order branch).
LEMMA GapsLate ==
  ASSUME NEW n \in Nat, NEW S \in SUBSET (1 .. n), NEW p \in 1 .. n
  PROVE  Cardinality((1 .. n) \ (S \cup {p})) =
           IF p \in S THEN Cardinality((1 .. n) \ S) ELSE Cardinality((1 .. n) \ S) - 1
<1>1. (1 .. n) \ (S \cup {p}) = ((1 .. n) \ S) \ {p}
  OBVIOUS
<1>2. IsFiniteSet((1 .. n) \ S)
  BY GapsFinite
<1> QED
  BY <1>1, <1>2, FS_RemoveElement

\* A missing number makes the count of them positive.
LEMMA GapsPositive ==
  ASSUME NEW n \in Nat, NEW S, NEW p \in (1 .. n) \ S
  PROVE  Cardinality((1 .. n) \ S) > 0
<1>1. IsFiniteSet((1 .. n) \ S) /\ Cardinality((1 .. n) \ S) \in Nat
  BY GapsFinite
<1>2. Cardinality((1 .. n) \ S) # 0
  BY <1>1, FS_EmptySet
<1> QED
  BY <1>1, <1>2

-----------------------------------------------------------------------------
\* How many datagrams have been written: the one in the hands of Nwrite not yet.
OnWire == IF sending THEN sent - 1 ELSE sent

\* The datagrams sent are 1 .. OnWire.
WireInv ==
  /\ sending => sent > 0
  /\ wire = 1 .. OnWire

\* Where the worker is: the branch it took fits the number in its hand, which is new
\* unless the network has repeated something.
HandInv ==
  /\ step # "between" => hand \in arrived
  /\ step = "forward" => pcount >= packet_count + 1
  /\ step = "late"    => ~(pcount >= packet_count + 1)
  /\ step # "between" /\ ~repeated => hand \notin seen

\* While the numbers fit the missing datagrams are the gaps below packet_count; in
\* the middle of the forward branch the new gap is counted already.
Gaps == (1 .. packet_count) \ seen
Ahead == IF step = "forward" THEN (pcount - 1) - packet_count ELSE 0
LossInv ==
  OnWire < Modulus =>
    /\ packet_count <= OnWire
    /\ seen \subseteq 1 .. packet_count
    /\ cnt_error - Ahead <= Cardinality(Gaps)
    /\ ~repeated => cnt_error - Ahead = Cardinality(Gaps)

\* The datagrams that count as delivered, packet_count less cnt_error, never become
\* fewer, if the middle of the forward branch is taken for its end.
OmitInv ==
  /\ omitted_packet_count <= packet_count
  /\ Ahead <= cnt_error
  /\ main # "errors" =>
       cnt_error - omitted_cnt_error <= (IF step = "forward" THEN pcount ELSE packet_count)
                                          - omitted_packet_count

\* Between its two reads iperf_stats_callback is ahead of irp, otherwise not.
IntervalInv ==
  /\ irp <= packet_count
  /\ intervals <= packet_count
  /\ main # "interval" => intervals <= irp

UdpInv ==
  /\ TypeOK
  /\ WireInv
  /\ HandInv
  /\ LossInv
  /\ OmitInv
  /\ IntervalInv

\* The number in a datagram is a number.
LEMMA PcountType == hand \in Nat => pcount \in Nat
  BY NumberType, ModulusAssumption DEF pcount

\* Nothing has been sent, seen or counted at the start.
LEMMA InitInv == Init => UdpInv
<1> SUFFICES ASSUME Init PROVE UdpInv
  OBVIOUS
<1> USE DEF Init
<1>1. running \in BOOLEAN /\ repeated \in BOOLEAN /\ sending \in BOOLEAN
  OBVIOUS
<1>2. TypeOK
  BY <1>1 DEF TypeOK
<1>3. 1 .. 0 = {}
  OBVIOUS
<1>4. OnWire = 0
  BY DEF OnWire
<1>5. WireInv
  BY <1>3, <1>4 DEF WireInv
<1>6. HandInv
  BY DEF HandInv
<1>7. Ahead = 0
  BY DEF Ahead
<1>8. OmitInv /\ IntervalInv
  BY <1>7 DEF OmitInv, IntervalInv
<1>9. Gaps = {}
  BY <1>3 DEF Gaps
<1>10. Cardinality(Gaps) = 0
  BY <1>9, FS_EmptySet
<1>11. LossInv
  BY <1>4, <1>7, <1>10 DEF LossInv
<1> QED
  BY <1>2, <1>5, <1>6, <1>8, <1>11 DEF UdpInv

-----------------------------------------------------------------------------
(* The sender and the network.                                             *)

\* iperf_udp_send and its write add at most one datagram, the next one.
LEMMA SendInv ==
  ASSUME UdpInv, iperf_udp_send \/ Nwrite
  PROVE  UdpInv'
<1>1. UNCHANGED <<arrived, repeated, running, worker, omitting, main, omit, interval>>
  BY DEF iperf_udp_send, Nwrite
<1>2. /\ sent \in Nat /\ sending \in BOOLEAN /\ OnWire \in Nat
      /\ (sending => sent > 0) /\ wire = 1 .. OnWire
  BY DEF UdpInv, TypeOK, WireInv, OnWire
<1>3. /\ sent' \in Nat /\ sending' \in BOOLEAN /\ (sending' => sent' > 0)
      /\ OnWire' \in Nat /\ OnWire <= OnWire'
      /\ wire' = 1 .. OnWire' /\ wire \subseteq wire'
  <2>1. CASE iperf_udp_send
    <3>1. sent' = sent + 1 /\ ~sending /\ sending' = TRUE /\ wire' = wire
      BY <2>1 DEF iperf_udp_send
    <3>2. OnWire = sent /\ OnWire' = sent' - 1
      BY <3>1 DEF OnWire
    <3>3. OnWire' = OnWire
      BY <1>2, <3>1, <3>2
    <3> QED
      BY <1>2, <3>1, <3>3
  <2>2. CASE Nwrite
    <3>1. sending /\ sending' = FALSE
      BY <2>2 DEF Nwrite
    <3>2. OnWire = sent - 1 /\ OnWire' = sent'
      BY <3>1 DEF OnWire
    <3>3. CASE wire' = wire \cup {sent} /\ sent' = sent
      <4>1. sent > 0 /\ wire = 1 .. (sent - 1)
        BY <1>2, <3>1, <3>2
      <4>2. 1 .. sent = (1 .. (sent - 1)) \cup {sent}
        BY <1>2, <4>1
      <4>3. OnWire' \in Nat /\ OnWire <= OnWire' /\ sent' \in Nat
        BY <1>2, <3>2, <3>3
      <4>4. wire' = 1 .. OnWire' /\ wire \subseteq wire'
        BY <3>2, <3>3, <4>1, <4>2
      <4> QED
        BY <3>1, <4>3, <4>4
    <3>4. CASE sent' = sent - 1 /\ wire' = wire
      <4>1. OnWire' = OnWire /\ sent' = OnWire
        BY <3>2, <3>4
      <4>2. sent' \in Nat /\ OnWire' \in Nat /\ OnWire <= OnWire'
        BY <1>2, <4>1
      <4> QED
        BY <1>2, <3>1, <3>4, <4>1, <4>2
    <3> QED
      BY <2>2, <3>3, <3>4 DEF Nwrite
  <2> QED
    BY <2>1, <2>2
<1>4. TypeOK'
  BY <1>1, <1>3 DEF UdpInv, TypeOK, worker, omit, interval
<1>5. WireInv'
  BY <1>3 DEF WireInv
<1>6. pcount' = pcount /\ Gaps' = Gaps /\ Ahead' = Ahead
  BY <1>1 DEF pcount, Gaps, Ahead, worker
<1>7. HandInv' /\ OmitInv' /\ IntervalInv'
  BY <1>1, <1>6 DEF UdpInv, HandInv, OmitInv, IntervalInv, worker, omit, interval
<1>8. LossInv'
  <2>1. OnWire' < Modulus => OnWire < Modulus
    BY <1>2, <1>3, ModulusAssumption
  <2>2. packet_count \in Nat
    BY DEF UdpInv, TypeOK
  <2> QED
    BY <1>1, <1>2, <1>3, <1>6, <2>1, <2>2 DEF UdpInv, LossInv, worker
<1> QED
  BY <1>4, <1>5, <1>7, <1>8 DEF UdpInv

\* A datagram is taken into the hand, and is new unless the network repeats it.
LEMMA RecvInv ==
  ASSUME UdpInv, NEW p \in wire, iperf_udp_recv(p)
  PROVE  UdpInv'
<1>1. /\ step = "between"
      /\ arrived' = arrived \cup {p}
      /\ repeated' = (repeated \/ p \in arrived)
      /\ UNCHANGED <<sent, sending, wire, running, seen, packet_count, cnt_error,
                     outoforder_packets, omitting, main, omit, interval>>
  BY DEF iperf_udp_recv
<1>2. \/ step' = "compare" /\ hand' = p
      \/ step' = "between" /\ hand' = hand
  BY <1>1 DEF iperf_udp_recv
<1>3. p \in Nat /\ seen \subseteq arrived /\ arrived \subseteq wire
  BY DEF UdpInv, TypeOK
<1>4. TypeOK'
  BY <1>1, <1>2, <1>3 DEF UdpInv, TypeOK, omit, interval
<1>5. OnWire' = OnWire /\ Gaps' = Gaps /\ Ahead = 0 /\ Ahead' = 0
  BY <1>1, <1>2 DEF OnWire, Gaps, Ahead
<1>6. WireInv'
  BY <1>1, <1>5 DEF UdpInv, WireInv
<1>7. HandInv'
  BY <1>1, <1>2, <1>3 DEF HandInv
<1>8. LossInv'
  BY <1>1, <1>5 DEF UdpInv, LossInv
<1>9. OmitInv' /\ IntervalInv'
  BY <1>1, <1>2, <1>5 DEF UdpInv, OmitInv, IntervalInv, omit, interval
<1> QED
  BY <1>4, <1>6, <1>7, <1>8, <1>9 DEF UdpInv

-----------------------------------------------------------------------------
(* The worker's writes.                                                    *)

\* What the writes of the worker leave alone.
Counting == UNCHANGED <<network, running, hand, omitting, main, omit, interval>>

\* A number that fits reads as itself.
LEMMA HandFits ==
  ASSUME UdpInv, step # "between", OnWire < Modulus
  PROVE  pcount = hand /\ hand \in 1 .. OnWire
<1>1. hand \in 1 .. OnWire /\ OnWire \in Nat /\ hand \in Nat
  BY DEF UdpInv, TypeOK, HandInv, WireInv, OnWire
<1>2. hand < Modulus
  BY <1>1, ModulusAssumption
<1> QED
  BY <1>1, <1>2, NumberFits, ModulusAssumption DEF pcount

\* The first write: the gap is counted ahead of the highest number.
LEMMA AccountInv ==
  ASSUME UdpInv, Account
  PROVE  UdpInv'
<1>1. /\ step = "compare"
      /\ Counting /\ seen' = seen /\ packet_count' = packet_count
  BY DEF Account, Counting
<1>2. /\ packet_count \in Nat /\ cnt_error \in Nat /\ outoforder_packets \in Nat
      /\ pcount \in Nat
  BY PcountType DEF UdpInv, TypeOK
<1>3. pcount' = pcount /\ OnWire' = OnWire /\ Gaps' = Gaps /\ Ahead = 0
  BY <1>1 DEF pcount, OnWire, Gaps, Ahead, Counting, network
<1>4. /\ \/ step' = "forward" /\ pcount >= packet_count + 1
         \/ step' = "late" /\ ~(pcount >= packet_count + 1)
      /\ cnt_error' \in Nat /\ outoforder_packets' \in Nat
      /\ Ahead' \in Nat /\ cnt_error' = cnt_error + Ahead'
  <2>1. CASE pcount >= packet_count + 1
    <3>1. step' = "forward" /\ outoforder_packets' = outoforder_packets
      BY <2>1 DEF Account
    <3>2. Ahead' = (pcount - 1) - packet_count
      BY <1>1, <1>3, <3>1 DEF Ahead
    <3>3. cnt_error' = cnt_error + ((pcount - 1) - packet_count)
      BY <1>2, <2>1 DEF Account
    <3>4. PICK a \in Nat : a = (pcount - 1) - packet_count
      BY <1>2, <2>1
    <3>5. cnt_error' = cnt_error + a /\ Ahead' = a /\ cnt_error + a \in Nat
      BY <1>2, <3>2, <3>3, <3>4
    <3> QED
      BY <1>2, <2>1, <3>1, <3>4, <3>5, Zenon
  <2>2. CASE ~(pcount >= packet_count + 1)
    <3>1. step' = "late" /\ cnt_error' = cnt_error /\ outoforder_packets' = outoforder_packets + 1
      BY <2>2 DEF Account
    <3>2. Ahead' = 0
      BY <3>1 DEF Ahead
    <3> QED
      BY <1>2, <2>2, <3>1, <3>2
  <2> QED
    BY <2>1, <2>2
<1>5. TypeOK'
  <2>1. step' \in {"between", "compare", "forward", "late"}
    BY <1>4
  <2> QED
    BY <1>1, <1>4, <2>1 DEF UdpInv, TypeOK, Counting, network, omit, interval
<1>6. WireInv'
  BY <1>1, <1>3 DEF UdpInv, WireInv, Counting, network
<1>7. HandInv'
  BY <1>1, <1>3, <1>4 DEF UdpInv, HandInv, Counting, network
<1>8. LossInv'
  <2>1. PICK a \in Nat : a = Ahead'
    BY <1>4
  <2>2. cnt_error' = cnt_error + a
    BY <1>4, <2>1
  <2>3. (cnt_error + a) - a = cnt_error - 0
    BY <1>2
  <2>4. cnt_error' - Ahead' = cnt_error - Ahead
    BY <1>3, <2>1, <2>2, <2>3, Zenon
  <2> QED
    BY <1>1, <1>3, <2>4 DEF UdpInv, LossInv, Counting, network
<1>9. OmitInv'
  <2>1. /\ omitted_packet_count \in Nat /\ omitted_cnt_error \in Nat
        /\ omitted_packet_count' = omitted_packet_count
        /\ omitted_cnt_error' = omitted_cnt_error /\ main' = main
        /\ omitted_packet_count <= packet_count
        /\ main # "errors" =>
             cnt_error - omitted_cnt_error <= packet_count - omitted_packet_count
    BY <1>1 DEF UdpInv, TypeOK, OmitInv, Counting, omit
  <2>2. Ahead' <= cnt_error'
    <3>1. PICK a \in Nat : a = Ahead'
      BY <1>4
    <3>2. cnt_error' = cnt_error + a
      BY <1>4, <3>1
    <3>3. a <= cnt_error + a
      BY <1>2
    <3> QED
      BY <3>1, <3>2, <3>3, Zenon
  <2>3. CASE step' = "forward"
    <3>1. Ahead' = (pcount - 1) - packet_count
      BY <1>1, <1>3, <2>3 DEF Ahead
    <3>2. cnt_error' = cnt_error + ((pcount - 1) - packet_count)
      BY <1>4, <3>1
    <3>3. main' # "errors" => cnt_error' - omitted_cnt_error' <= pcount' - omitted_packet_count'
      BY <1>2, <1>3, <2>1, <3>2
    <3> QED
      BY <1>1, <2>1, <2>2, <2>3, <3>3 DEF OmitInv
  <2>4. CASE step' = "late"
    <3>1. Ahead' = 0 /\ cnt_error' = cnt_error
      BY <1>2, <1>4, <2>4 DEF Ahead
    <3> QED
      BY <1>1, <2>1, <2>2, <2>4, <3>1 DEF OmitInv
  <2> QED
    BY <1>4, <2>3, <2>4
<1>10. IntervalInv'
  BY <1>1 DEF UdpInv, IntervalInv, Counting, interval
<1> QED
  BY <1>5, <1>6, <1>7, <1>8, <1>9, <1>10 DEF UdpInv

\* The second write of the forward branch: the gap is open, and was counted.
LEMMA ForwardInv ==
  ASSUME UdpInv, Account_forward
  PROVE  UdpInv'
<1>1. /\ step = "forward" /\ step' = "between"
      /\ seen' = seen \cup {hand} /\ packet_count' = pcount
      /\ cnt_error' = cnt_error /\ outoforder_packets' = outoforder_packets
      /\ Counting
  BY DEF Account_forward, Counting
<1>2. /\ packet_count \in Nat /\ cnt_error \in Nat /\ pcount \in Nat
      /\ pcount >= packet_count + 1 /\ hand \in arrived
  BY <1>1, PcountType DEF UdpInv, TypeOK, HandInv
<1>3. Ahead = (pcount - 1) - packet_count /\ Ahead' = 0 /\ OnWire' = OnWire
  BY <1>1 DEF Ahead, OnWire, Counting, network
<1>4. TypeOK'
  BY <1>1, <1>2 DEF UdpInv, TypeOK, Counting, network, omit, interval
<1>5. WireInv' /\ HandInv'
  BY <1>1, <1>3 DEF UdpInv, WireInv, HandInv, Counting, network
<1>6. LossInv'
  <2> SUFFICES ASSUME OnWire < Modulus
               PROVE  /\ packet_count' <= OnWire
                      /\ seen' \subseteq 1 .. packet_count'
                      /\ cnt_error <= Cardinality(Gaps')
                      /\ ~repeated => cnt_error = Cardinality(Gaps')
    <3>1. repeated' = repeated
      BY <1>1 DEF Counting, network
    <3>2. cnt_error' - Ahead' = cnt_error
      BY <1>1, <1>2, <1>3
    <3> QED
      BY <1>3, <3>1, <3>2 DEF LossInv
  <2>1. pcount = hand /\ hand \in 1 .. OnWire /\ OnWire \in Nat
    <3>1. pcount = hand /\ hand \in 1 .. OnWire
      BY <1>1, HandFits
    <3>2. OnWire \in Nat
      BY DEF UdpInv, TypeOK, WireInv, OnWire
    <3> QED
      BY <3>1, <3>2
  <2>2. /\ seen \in SUBSET (1 .. packet_count)
        /\ cnt_error - Ahead <= Cardinality(Gaps)
        /\ ~repeated => cnt_error - Ahead = Cardinality(Gaps)
    BY DEF UdpInv, LossInv
  <2>3. Gaps' = (1 .. hand) \ (seen \cup {hand})
    BY <1>1, <2>1 DEF Gaps
  <2>4. hand \in Nat /\ hand > packet_count
    BY <1>2, <2>1
  <2>5. Cardinality(Gaps') = Cardinality((1 .. packet_count) \ seen) + (hand - 1) - packet_count
    BY <1>2, <2>2, <2>3, <2>4, GapsForward
  <2>6. Cardinality(Gaps) \in Nat
    BY <1>2, GapsFinite DEF Gaps
  <2>7. Cardinality(Gaps') = Cardinality(Gaps) + Ahead
    BY <1>2, <1>3, <2>1, <2>5, <2>6 DEF Gaps
  <2>8. Ahead \in Nat
    BY <1>2, <1>3
  <2>9. packet_count' <= OnWire /\ seen' \subseteq 1 .. packet_count'
    BY <1>1, <1>2, <2>1, <2>2, <2>4
  <2>10. cnt_error <= Cardinality(Gaps') /\ (~repeated => cnt_error = Cardinality(Gaps'))
    BY <1>2, <2>2, <2>6, <2>7, <2>8
  <2> QED
    BY <2>9, <2>10
<1>7. OmitInv'
  BY <1>1, <1>2, <1>3 DEF UdpInv, TypeOK, OmitInv, Counting, omit
<1>8. IntervalInv'
  BY <1>1, <1>2 DEF UdpInv, TypeOK, IntervalInv, Counting, interval
<1> QED
  BY <1>4, <1>5, <1>6, <1>7, <1>8 DEF UdpInv

\* The second write of the late branch: one gap less, if the datagram is new.
LEMMA LateInv ==
  ASSUME UdpInv, Account_late
  PROVE  UdpInv'
<1>1. /\ step = "late" /\ step' = "between"
      /\ seen' = seen \cup {hand} /\ packet_count' = packet_count
      /\ cnt_error' = IF cnt_error > 0 THEN cnt_error - 1 ELSE cnt_error
      /\ outoforder_packets' = outoforder_packets
      /\ Counting
  BY DEF Account_late, Counting
<1>2. /\ packet_count \in Nat /\ cnt_error \in Nat /\ pcount \in Nat
      /\ ~(pcount >= packet_count + 1) /\ hand \in arrived
  BY <1>1, PcountType DEF UdpInv, TypeOK, HandInv
<1>3. Ahead = 0 /\ Ahead' = 0 /\ OnWire' = OnWire
  BY <1>1 DEF Ahead, OnWire, Counting, network
<1>4. cnt_error' \in Nat /\ cnt_error' <= cnt_error
  BY <1>1, <1>2
<1>5. TypeOK'
  BY <1>1, <1>2, <1>4 DEF UdpInv, TypeOK, Counting, network, omit, interval
<1>6. WireInv' /\ HandInv'
  BY <1>1, <1>3 DEF UdpInv, WireInv, HandInv, Counting, network
<1>7. LossInv'
  <2> SUFFICES ASSUME OnWire < Modulus
               PROVE  /\ packet_count' <= OnWire
                      /\ seen' \subseteq 1 .. packet_count'
                      /\ cnt_error' <= Cardinality(Gaps')
                      /\ ~repeated => cnt_error' = Cardinality(Gaps')
    <3>1. repeated' = repeated
      BY <1>1 DEF Counting, network
    <3>2. cnt_error' - Ahead' = cnt_error'
      <4>1. PICK c \in Nat : c = cnt_error'
        BY <1>4
      <4>2. c - 0 = c
        OBVIOUS
      <4> QED
        BY <1>3, <4>1, <4>2, Zenon
    <3> QED
      BY <1>3, <3>1, <3>2 DEF LossInv
  <2>1. pcount = hand /\ hand \in 1 .. OnWire
    BY <1>1, HandFits
  <2>2. /\ packet_count <= OnWire
        /\ seen \in SUBSET (1 .. packet_count)
        /\ cnt_error <= Cardinality(Gaps)
        /\ ~repeated => cnt_error = Cardinality(Gaps)
    BY <1>2, <1>3 DEF UdpInv, LossInv
  <2>3. hand \in 1 .. packet_count
    BY <1>2, <2>1
  <2>4. Gaps' = (1 .. packet_count) \ (seen \cup {hand})
    BY <1>1 DEF Gaps
  <2>5. Cardinality(Gaps') =
          IF hand \in seen THEN Cardinality(Gaps) ELSE Cardinality(Gaps) - 1
    BY <1>2, <2>2, <2>3, <2>4, GapsLate DEF Gaps
  <2>6. Cardinality(Gaps) \in Nat
    BY <1>2, GapsFinite DEF Gaps
  <2>7. hand \notin seen => Cardinality(Gaps) > 0
    BY <1>2, <2>3, GapsPositive DEF Gaps
  <2>8. ~repeated => hand \notin seen
    BY <1>1 DEF UdpInv, HandInv
  <2>9. packet_count' <= OnWire /\ seen' \subseteq 1 .. packet_count'
    BY <1>1, <2>2, <2>3
  <2>10. cnt_error' <= Cardinality(Gaps')
    BY <1>1, <1>2, <2>2, <2>5, <2>6, <2>7
  <2>11. ~repeated => cnt_error' = Cardinality(Gaps')
    BY <1>1, <1>2, <2>2, <2>5, <2>6, <2>7, <2>8
  <2> QED
    BY <2>9, <2>10, <2>11
<1>8. OmitInv'
  BY <1>1, <1>2, <1>3, <1>4 DEF UdpInv, TypeOK, OmitInv, Counting, omit
<1>9. IntervalInv'
  BY <1>1 DEF UdpInv, IntervalInv, Counting, interval
<1> QED
  BY <1>5, <1>6, <1>7, <1>8, <1>9 DEF UdpInv

-----------------------------------------------------------------------------
(* The main thread.                                                        *)

\* iperf_reset_stats, iperf_stats_callback and the end of the test only read the
\* counters of the worker.
LEMMA MainInv ==
  ASSUME UdpInv, UNCHANGED <<network, worker>>, running' \in BOOLEAN, omitting' \in BOOLEAN,
         main' \in {"idle", "interval", "errors", "reordered"},
         omitted_packet_count' \in Nat, omitted_cnt_error' \in Nat,
         omitted_outoforder_packets' \in Nat, irp' \in Nat, intervals' \in Nat,
         OmitInv', IntervalInv'
  PROVE  UdpInv'
<1>1. TypeOK'
  BY DEF UdpInv, TypeOK, network, worker
<1>2. pcount' = pcount /\ OnWire' = OnWire /\ Gaps' = Gaps /\ Ahead' = Ahead
  BY DEF pcount, OnWire, Gaps, Ahead, network, worker
<1>3. WireInv' /\ HandInv' /\ LossInv'
  BY <1>2 DEF UdpInv, WireInv, HandInv, LossInv, network, worker
<1> QED
  BY <1>1, <1>3 DEF UdpInv

\* The copies of iperf_reset_stats: packet_count first, so that cnt_error is copied
\* when at least as many packets have been seen.
LEMMA ResetInv ==
  ASSUME UdpInv,
         iperf_reset_stats \/ iperf_reset_stats_errors \/ iperf_reset_stats_reordered
  PROVE  UdpInv'
<1>1. /\ UNCHANGED <<network, worker>> /\ UNCHANGED <<running, interval>>
      /\ main # "interval" /\ main' # "interval"
  BY DEF iperf_reset_stats, iperf_reset_stats_errors, iperf_reset_stats_reordered
<1>2. /\ packet_count \in Nat /\ cnt_error \in Nat /\ outoforder_packets \in Nat
      /\ omitted_packet_count \in Nat /\ omitted_cnt_error \in Nat
      /\ omitted_outoforder_packets \in Nat /\ irp \in Nat /\ intervals \in Nat
      /\ hand \in Nat /\ pcount \in Nat /\ running \in BOOLEAN /\ omitting \in BOOLEAN
  BY PcountType DEF UdpInv, TypeOK
<1>3. running' \in BOOLEAN /\ irp' \in Nat /\ intervals' \in Nat /\ IntervalInv'
  BY <1>1, <1>2 DEF UdpInv, IntervalInv, interval, worker
<1>4. pcount' = pcount /\ Ahead' = Ahead /\ step' = step
      /\ packet_count' = packet_count /\ cnt_error' = cnt_error
  BY <1>1 DEF pcount, Ahead, worker
<1>5. CASE iperf_reset_stats
  <2>1. /\ omitting' = FALSE /\ main' = "errors"
        /\ omitted_packet_count' = packet_count /\ omitted_cnt_error' = omitted_cnt_error
        /\ omitted_outoforder_packets' = omitted_outoforder_packets
    BY <1>5 DEF iperf_reset_stats
  <2>2. OmitInv'
    BY <1>2, <1>4, <2>1 DEF UdpInv, OmitInv
  <2> QED
    BY <1>1, <1>2, <1>3, <2>1, <2>2, MainInv
<1>6. CASE iperf_reset_stats_errors
  <2>1. /\ omitting' = omitting /\ main' = "reordered"
        /\ omitted_packet_count' = omitted_packet_count /\ omitted_cnt_error' = cnt_error
        /\ omitted_outoforder_packets' = omitted_outoforder_packets
    BY <1>6 DEF iperf_reset_stats_errors
  <2>2. omitted_packet_count <= packet_count /\ Ahead <= cnt_error
    BY DEF UdpInv, OmitInv
  <2>3. step = "forward" => packet_count <= pcount
    BY <1>2 DEF UdpInv, HandInv
  <2>4. OmitInv'
    BY <1>2, <1>4, <2>1, <2>2, <2>3 DEF OmitInv
  <2> QED
    BY <1>1, <1>2, <1>3, <2>1, <2>4, MainInv
<1>7. CASE iperf_reset_stats_reordered
  <2>1. /\ omitting' = omitting /\ main = "reordered" /\ main' = "idle"
        /\ omitted_packet_count' = omitted_packet_count
        /\ omitted_cnt_error' = omitted_cnt_error
        /\ omitted_outoforder_packets' = outoforder_packets
    BY <1>7 DEF iperf_reset_stats_reordered
  <2>2. OmitInv'
    BY <1>4, <2>1 DEF UdpInv, OmitInv
  <2> QED
    BY <1>1, <1>2, <1>3, <2>1, <2>2, MainInv
<1> QED
  BY <1>5, <1>6, <1>7

\* The two reads of iperf_stats_callback, and the end of the test.
LEMMA StatsInv ==
  ASSUME UdpInv, iperf_stats_callback \/ iperf_stats_callback_save \/ test_end
  PROVE  UdpInv'
<1>1. /\ UNCHANGED <<network, worker>> /\ UNCHANGED <<omitting, omit>>
      /\ main # "errors" /\ main' \in {"idle", "interval"}
  BY DEF iperf_stats_callback, iperf_stats_callback_save, test_end
<1>2. /\ packet_count \in Nat /\ irp \in Nat /\ intervals \in Nat
      /\ omitted_packet_count \in Nat /\ omitted_cnt_error \in Nat
      /\ omitted_outoforder_packets \in Nat /\ running \in BOOLEAN /\ omitting \in BOOLEAN
      /\ IntervalInv
  BY DEF UdpInv, TypeOK
<1>3. packet_count' = packet_count
  BY <1>1 DEF worker
<1>4. pcount' = pcount /\ Ahead' = Ahead
  BY <1>1 DEF pcount, Ahead, worker
<1>5. /\ omitted_packet_count' \in Nat /\ omitted_cnt_error' \in Nat
      /\ omitted_outoforder_packets' \in Nat /\ omitting' \in BOOLEAN
      /\ OmitInv'
  BY <1>1, <1>2, <1>4 DEF UdpInv, OmitInv, omit, worker
<1>6. running' \in BOOLEAN /\ irp' \in Nat /\ intervals' \in Nat /\ IntervalInv'
  <2>1. CASE iperf_stats_callback
    <3>1. /\ main = "idle" /\ main' = "interval" /\ running' = running
          /\ intervals' = intervals + packet_count - irp /\ irp' = irp
      BY <2>1 DEF iperf_stats_callback
    <3>2. intervals <= irp /\ irp <= packet_count
      BY <1>2, <3>1 DEF IntervalInv
    <3>3. irp' \in Nat /\ intervals' \in Nat /\ irp' <= packet_count' /\ intervals' <= packet_count'
      BY <1>2, <1>3, <3>1, <3>2
    <3> QED
      BY <1>2, <3>1, <3>3 DEF IntervalInv
  <2>2. CASE iperf_stats_callback_save
    <3>1. /\ main' = "idle" /\ running' = running
          /\ intervals' = intervals /\ irp' = packet_count
      BY <2>2 DEF iperf_stats_callback_save
    <3>2. irp' <= packet_count' /\ intervals' <= packet_count' /\ intervals' <= irp'
      BY <1>2, <1>3, <3>1 DEF IntervalInv
    <3> QED
      BY <1>2, <3>1, <3>2 DEF IntervalInv
  <2>3. CASE test_end
    <3>1. main' = main /\ running' = FALSE /\ intervals' = intervals /\ irp' = irp
      BY <2>3 DEF test_end, interval
    <3> QED
      BY <1>2, <1>3, <3>1 DEF IntervalInv
  <2> QED
    BY <2>1, <2>2, <2>3
<1> QED
  BY <1>1, <1>5, <1>6, MainInv

\* Every step keeps the invariant.
LEMMA NextInv == UdpInv /\ [Next]_vars => UdpInv'
<1> SUFFICES ASSUME UdpInv, [Next]_vars PROVE UdpInv'
  OBVIOUS
<1>1. CASE UNCHANGED vars
  <2> USE <1>1 DEF vars, network, worker, omit, interval
  <2>1. pcount' = pcount /\ OnWire' = OnWire /\ Gaps' = Gaps /\ Ahead' = Ahead
    BY DEF pcount, OnWire, Gaps, Ahead
  <2>2. TypeOK' /\ WireInv' /\ HandInv'
    BY <2>1 DEF UdpInv, TypeOK, WireInv, HandInv
  <2>3. LossInv' /\ OmitInv' /\ IntervalInv'
    BY <2>1 DEF UdpInv, LossInv, OmitInv, IntervalInv
  <2> QED
    BY <2>2, <2>3 DEF UdpInv
<1> QED
  BY <1>1, SendInv, RecvInv, AccountInv, ForwardInv, LateInv, ResetInv, StatsInv DEF Next

\* The invariant holds for ever.
THEOREM Invariance == Spec => []UdpInv
  BY InitInv, NextInv, PTL DEF Spec

\* While the numbers fit, the gaps are the datagrams that are missing.
LEMMA GapsAreMissing ==
  ASSUME UdpInv, sent < Modulus, step # "forward"
  PROVE  /\ Missing = Gaps
         /\ cnt_error <= Cardinality(Gaps)
         /\ ~repeated => cnt_error = Cardinality(Gaps)
<1>1. /\ sent \in Nat /\ packet_count \in Nat /\ cnt_error \in Nat
      /\ OnWire \in Nat /\ OnWire <= sent /\ wire = 1 .. OnWire
  BY DEF UdpInv, TypeOK, WireInv, OnWire
<1>2. OnWire < Modulus
  BY <1>1, ModulusAssumption
<1>3. Ahead = 0
  BY DEF Ahead
<1>4. packet_count <= OnWire
  BY <1>2 DEF UdpInv, LossInv
<1>5. Missing = Gaps
  BY <1>1, <1>4 DEF Missing, Gaps
<1> QED
  BY <1>1, <1>2, <1>3, <1>5 DEF UdpInv, LossInv

\* Every counter of the stream keeps its type; in particular cnt_error, which late
\* and repeated datagrams lower, never becomes negative.
THEOREM TypeCorrect == Spec => []TypeOK
<1>1. UdpInv => TypeOK
  BY DEF UdpInv
<1> QED
  BY <1>1, Invariance, PTL

\* The loss counted by iperf_udp_recv is the true one until the network repeats a datagram.
THEOREM LossIsExact == Spec => []ExactLoss
<1>1. UdpInv => ExactLoss
  BY GapsAreMissing DEF ExactLoss
<1> QED
  BY <1>1, Invariance, PTL

\* It is never too large, whatever the network does.
THEOREM LossIsNotOverstated == Spec => []LossNotOverstated
<1>1. UdpInv => LossNotOverstated
  BY GapsAreMissing DEF LossNotOverstated
<1> QED
  BY <1>1, Invariance, PTL

\* The loss reported after the omit period never exceeds the packets reported for it,
\* wherever the worker was when iperf_reset_stats made each of its copies, and even
\* when the numbers wrap.
THEOREM LossStaysWithinPackets == Spec => []LossWithinPackets
<1>1. UdpInv => LossWithinPackets
  BY DEF UdpInv, OmitInv, LossWithinPackets
<1> QED
  BY <1>1, Invariance, PTL

\* The intervals never show more packets than the stream, in any interleaving of the
\* worker thread with the two reads of iperf_stats_callback.
THEOREM IntervalsAreNotOvercounted == Spec => []IntervalsDoNotOvercount
<1>1. UdpInv => IntervalsDoNotOvercount
  BY DEF UdpInv, IntervalInv, IntervalsDoNotOvercount
<1> QED
  BY <1>1, Invariance, PTL

=============================================================================

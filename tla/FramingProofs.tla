---------------------------- MODULE FramingProofs ----------------------------
(***************************************************************************)
(* Proofs about Framing, for all scripts, sizes and timeouts: how long one *)
(* Nread can take, and that state bytes and documents implement the        *)
(* message channel, wherever a write is cut short.                         *)
(***************************************************************************)
EXTENDS Framing, TLAPS

-----------------------------------------------------------------------------
(***************************************************************************)
(* Time.                                                                   *)
(***************************************************************************)

\* Before the first short read nothing but one select has been waited for;
\* that read came within ReadTimeout; the last select was called while the
\* overall timeout had not passed.
TimeInv ==
  /\ since = -1 => total = waited
  /\ since >= 0 => /\ total - since <= ReadTimeout
                   /\ waited <= since /\ since - waited <= OverallTimeout
                   /\ since <= total

TimeSafe == TypeOK /\ TimeInv

(***************************************************************************)
(* The bytes between reader and writer.                                    *)
(***************************************************************************)

\* Everything from the start of the Nread in progress to the next byte the
\* writer will write, which is always there.
NextByte == <<writer.item, writer.part, writer.off + 1>>
Ahead == Append(reader.buf \o wire, NextByte)

\* What can be written after byte a.
Follows(a, b) ==
  \/ a[3] < Size(a[1], a[2]) /\ b = <<a[1], a[2], a[3] + 1>>
  \/ a[2] = "header" /\ (a[3] = HeaderLen \/ a[1] \in cut) /\ b = <<a[1], "body", 1>>
  \/ a[2] # "header" /\ b = <<a[1] + 1, FirstPart(a[1] + 1), 1>>

Chained(q) == \A k \in 1..(Len(q) - 1) : Follows(q[k], q[k + 1])

\* The bytes of a length that was not cut short are next to each other.
HeadersWhole(q) ==
  \A k \in 1..Len(q) : \A e \in 0..(HeaderLen - 1) :
    (q[k][2] = "header" /\ q[k][3] = 1 /\ q[k][1] \notin cut /\ k + e <= Len(q))
       => q[k + e] = <<q[k][1], "header", 1 + e>>

\* The number of messages the writer has begun to send.
Sent == IF writer.off > 0 \/ writer.part = "body" THEN writer.item ELSE writer.item - 1

WriterInv ==
  /\ writer.item <= Len(script) + 1
  /\ writer.item <= Len(script) =>
       /\ writer.off < Size(writer.item, writer.part)
       /\ writer.part # "body" => writer.part = FirstPart(writer.item)
       /\ writer.part = "body" => script[writer.item] # 0
  /\ writer.item = Len(script) + 1 => writer.part = "header" /\ writer.off = 0

StreamInv ==
  /\ Chained(Ahead) /\ HeadersWhole(Ahead)
  /\ \A k \in 1..(Len(Ahead) - 1) : Ahead[k][1] \in 1..Sent

ReaderInv ==
  /\ reader.item >= 1 /\ Len(got) = reader.item - 1
  /\ Len(reader.buf) < reader.want
  /\ Ahead[1] = <<reader.item, reader.part, 1>>
  /\ reader.part # "body" =>
       reader.part = FirstPart(reader.item) /\ reader.want = Size(reader.item, reader.part)
  /\ reader.part = "body" =>
       reader.item <= Len(script) /\ reader.want = script[reader.item]

GotInv == reader.item >= 1 /\ Len(got) = reader.item - 1

\* The reader has not come to a document whose length was cut short.
Intact == \A m \in cut : reader.item < m

FramingInv ==
  /\ TypeOK /\ WriterInv
  /\ Reading => GotInv
  /\ Reading /\ Intact => StreamInv /\ ReaderInv

-----------------------------------------------------------------------------
\* The constants, one by one.
LEMMA Constants ==
  /\ HeaderLen \in Nat \ {0} /\ ReadTimeout \in Nat \ {0} /\ OverallTimeout \in Nat \ {0}
  /\ MaxLen \in Nat \ {0} /\ MaxSize \in Nat /\ MaxTime \in Nat
  /\ \A m \in Scripts : m \in Seq(Nat)
  BY FramingAssumption DEF FramingAssumption

\* The parts of a message, and the sizes of those the script has.
LEMMA PartTypes ==
  ASSUME script \in Seq(Nat), NEW i \in Nat
  PROVE  /\ FirstPart(i) \in Parts
         /\ \A part \in Parts : (part = "body" => i \in DOMAIN script) => Size(i, part) \in Nat
  BY Constants DEF FirstPart, Parts, Size

\* A byte and its coordinates.
LEMMA ByteParts ==
  ASSUME NEW b \in Byte
  PROVE  b[1] \in Nat /\ b[2] \in Parts /\ b[3] \in Nat /\ b = <<b[1], b[2], b[3]>>
  BY DEF Byte

LEMMA FunctionIsSeq ==
  ASSUME NEW S, NEW n \in Nat, NEW f \in [1..n -> S]
  PROVE  f \in Seq(S) /\ Len(f) = n
  OBVIOUS

\* Bytes is a sequence of bytes.
LEMMA BytesType ==
  ASSUME NEW i \in Nat, NEW part \in Parts, NEW from \in Nat \ {0}, NEW to \in Nat,
         from <= to + 1
  PROVE  /\ Bytes(i, part, from, to) \in Seq(Byte)
         /\ Len(Bytes(i, part, from, to)) = to - from + 1
         /\ \A k \in 1..(to - from + 1) : Bytes(i, part, from, to)[k] = <<i, part, from + k - 1>>
<1> DEFINE n == to - from + 1
           f == [k \in 1..n |-> <<i, part, from + k - 1>>]
<1>1. n \in Nat
  OBVIOUS
<1>2. \A k \in 1..n : <<i, part, from + k - 1>> \in Byte
  BY DEF Byte
<1>3. f \in [1..n -> Byte]
  BY <1>2
<1>4. f \in Seq(Byte) /\ Len(f) = n
  <2> HIDE DEF f, n
  <2> QED BY <1>1, <1>3
<1>5. Bytes(i, part, from, to) = f
  BY DEF Bytes
<1> QED BY <1>4, <1>5, <1>1

\* What NreadReturns leaves: it fails, or it takes a message and goes on, or it
\* starts to read the document.
LEMMA ReturnCases ==
  ASSUME TypeOK, NEW buf \in Seq(Byte), NreadReturns(buf)
  PROVE  \/ Fail
         \/ \E m \in Nat : Took(m)
         \/ \E want \in Nat \ {0} : StartRead(reader.item, "body", want) /\ UNCHANGED <<verdict, got>>
<1> USE DEF TypeOK
<1>0. script \in Seq(Nat)
  BY Constants
<1>1. \A k \in 1..Len(buf) : buf[k][1] \in Nat
  <2> TAKE k \in 1..Len(buf)
  <2>1. buf[k] \in Byte
    OBVIOUS
  <2> QED BY <2>1, ByteParts
<1>2. CASE reader.part = "state"
  <2>1. Len(buf) # 1 => Fail
    BY <1>2 DEF NreadReturns
  <2>2. ASSUME Len(buf) = 1 PROVE \E m \in States(buf[1]) : IF m >= 0 THEN Took(m) ELSE Fail
    BY <1>2, <2>2 DEF NreadReturns
  <2>3. ASSUME Len(buf) = 1 PROVE \A m \in States(buf[1]) : m >= 0 => m \in Nat
    BY <1>1, <2>3 DEF States
  <2> QED BY <2>1, <2>2, <2>3
<1>3. CASE reader.part = "header"
  <2>1. Len(buf) # HeaderLen => Fail
    BY <1>3 DEF NreadReturns
  <2>2. ASSUME Len(buf) = HeaderLen
        PROVE  \E hsize \in Lengths(buf) :
                 IF hsize > 0 /\ (MaxSize = 0 \/ hsize <= MaxSize)
                 THEN StartRead(reader.item, "body", hsize) /\ UNCHANGED <<verdict, got>>
                 ELSE Fail
    BY <1>3, <2>2 DEF NreadReturns
  <2>3. ASSUME Len(buf) = HeaderLen PROVE Lengths(buf) \subseteq Nat
    <3>1. ASSUME NEW i \in DOMAIN script, buf = Bytes(i, "header", 1, HeaderLen)
          PROVE  script[buf[1][1]] \in Nat
      <4>1. i \in Nat /\ "header" \in Parts /\ 1 \in 1..HeaderLen
        BY <1>0, Constants DEF Parts
      <4>2. buf[1] = <<i, "header", 1 + 1 - 1>>
        BY <3>1, <4>1, Constants DEF Bytes
      <4>3. buf[1][1] = i
        BY <4>2
      <4> QED BY <4>3, <1>0
    <3>2. 0..MaxLen \subseteq Nat
      BY Constants
    <3> QED BY <3>1, <3>2 DEF Lengths
  <2> QED BY <2>1, <2>2, <2>3
<1>4. CASE reader.part = "body"
  <2>1. Len(buf) # reader.want => Fail
    BY <1>4 DEF NreadReturns
  <2>2. ASSUME Len(buf) = reader.want
        PROVE  \E m \in Documents(buf) : IF m >= 0 THEN Took(m) ELSE Fail
    BY <1>4, <2>2 DEF NreadReturns
  <2>3. ASSUME Len(buf) = reader.want PROVE \A m \in Documents(buf) : m >= 0 => m \in Nat
    <3>1. buf[1][1] \in Nat
      BY <1>1, <1>4, <2>3
    <3> QED BY <3>1 DEF Documents
  <2> QED BY <2>1, <2>2, <2>3
<1> QED BY <1>2, <1>3, <1>4 DEF Parts

\* Reading on in the same Nread: the bytes of buf are taken off the wire.
LEMMA PiecesType ==
  ASSUME NEW S, NEW b \in Seq(S), NEW w \in Seq(S), NEW n \in 1..Len(w)
  PROVE  /\ b \o SubSeq(w, 1, n) \in Seq(S)
         /\ SubSeq(w, n + 1, Len(w)) \in Seq(S)
         /\ Len(b \o SubSeq(w, 1, n)) = Len(b) + n
  OBVIOUS

\* A step of the reader that ends an Nread keeps types and the clock right.
LEMMA ReturnTime ==
  ASSUME TimeSafe, NEW buf \in Seq(Byte), NreadReturns(buf)
  PROVE  /\ reader' \in [item : Nat, part : Parts, want : Nat \ {0}, buf : Seq(Byte)]
         /\ verdict' \in {"reading", "done", "failed"} /\ got' \in Seq(Nat)
         /\ waited' \in 0..ReadTimeout /\ since' \in -1..MaxTime /\ total' \in 0..MaxTime
         /\ TimeInv'
<1> USE DEF TimeSafe, TypeOK
<1>0. script \in Seq(Nat)
  BY Constants
<1>1. CASE Fail
  BY <1>1 DEF Fail, TimeInv
<1>2. ASSUME NEW i \in Nat, NEW part \in Parts, NEW want \in Nat \ {0}, StartRead(i, part, want)
      PROVE  /\ reader' \in [item : Nat, part : Parts, want : Nat \ {0}, buf : Seq(Byte)]
             /\ waited' \in 0..ReadTimeout /\ since' \in -1..MaxTime /\ total' \in 0..MaxTime
             /\ TimeInv'
  BY <1>2, Constants DEF StartRead, TimeInv
<1>3. CASE \E want \in Nat \ {0} : StartRead(reader.item, "body", want) /\ UNCHANGED <<verdict, got>>
  BY <1>2, <1>3 DEF Parts
<1>4. CASE \E m \in Nat : Took(m)
  <2> PICK m \in Nat : Took(m)
    BY <1>4
  <2>1. got' \in Seq(Nat)
    BY DEF Took
  <2>2. CASE reader.item = Len(script)
    <3>1. /\ verdict' = "done" /\ reader' = [reader EXCEPT !.item = reader.item + 1, !.buf = <<>>]
          /\ UNCHANGED <<waited, since, total>>
      BY <2>2 DEF Took
    <3>2. reader' \in [item : Nat, part : Parts, want : Nat \ {0}, buf : Seq(Byte)]
      <4>1. <<>> \in Seq(Byte) /\ reader.item + 1 \in Nat
        OBVIOUS
      <4> QED BY <3>1, <4>1
    <3> QED BY <2>1, <3>1, <3>2 DEF TimeInv
  <2>3. CASE reader.item # Len(script)
    <3> DEFINE i == reader.item + 1
    <3>1. StartRead(i, FirstPart(i), Size(i, FirstPart(i))) /\ UNCHANGED verdict
      BY <2>3 DEF Took
    <3>2. i \in Nat
      OBVIOUS
    <3> HIDE DEF i
    <3>3. FirstPart(i) \in Parts /\ Size(i, FirstPart(i)) \in Nat \ {0}
      BY Constants DEF FirstPart, Size, Parts
    <3> QED BY <2>1, <3>1, <3>2, <3>3, <1>2
  <2> QED BY <2>2, <2>3
<1> QED BY <1>1, <1>3, <1>4, ReturnCases

LEMMA TimeInit == Init => TimeSafe
<1> SUFFICES ASSUME Init PROVE TimeSafe
  OBVIOUS
<1>1. script \in Seq(Nat)
  BY Constants DEF Init
<1>2. FirstPart(1) \in Parts /\ Size(1, FirstPart(1)) \in Nat \ {0}
  BY <1>1, Constants DEF FirstPart, Size, Parts
<1>3. <<>> \in Seq(Byte) /\ <<>> \in Seq(Nat)
  OBVIOUS
<1>4. writer \in [item : Nat \ {0}, part : Parts, off : Nat]
  BY <1>2 DEF Init
<1>5. reader \in [item : Nat, part : Parts, want : Nat \ {0}, buf : Seq(Byte)]
  BY <1>2, <1>3 DEF Init
<1> QED BY <1>3, <1>4, <1>5, Constants DEF Init, TimeSafe, TypeOK, TimeInv

LEMMA AfterType ==
  ASSUME TypeOK
  PROVE  After(writer) \in [item : Nat \ {0}, part : Parts, off : Nat]
<1>1. script \in Seq(Nat)
  BY Constants DEF TypeOK
<1>2. writer.item + 1 \in Nat \ {0} /\ FirstPart(writer.item + 1) \in Parts
  BY <1>1 DEF TypeOK, FirstPart, Parts
<1> QED BY <1>2 DEF After, TypeOK, Parts

LEMMA TimeStep == TimeSafe /\ [Next]_vars => TimeSafe'
<1> SUFFICES ASSUME TimeSafe, [Next]_vars PROVE TimeSafe'
  OBVIOUS
<1> USE DEF TimeSafe, TypeOK
<1>1. CASE Nwrite
  <2> DEFINE size == Size(writer.item, writer.part)
  <2>1. PICK n \in 1..(size - writer.off) :
          /\ wire' = wire \o Bytes(writer.item, writer.part, writer.off + 1, writer.off + n)
          /\ writer' = IF writer.off + n = size THEN After(writer)
                       ELSE [writer EXCEPT !.off = @ + n]
    BY <1>1 DEF Nwrite
  <2>2. n \in Nat /\ writer.off + n \in Nat /\ writer.off + 1 \in Nat \ {0}
    OBVIOUS
  <2>3. wire' \in Seq(Byte)
    BY <2>1, <2>2, BytesType
  <2>4. writer' \in [item : Nat \ {0}, part : Parts, off : Nat]
    <3> HIDE DEF size
    <3> QED BY <2>1, <2>2, AfterType
  <2> QED BY <2>3, <2>4, <1>1 DEF Nwrite, TimeInv
<1>2. CASE Nwrite_cut_short
  <2>1. cut' \in SUBSET Nat
    BY <1>2 DEF Nwrite_cut_short
  <2>2. writer' \in [item : Nat \ {0}, part : Parts, off : Nat]
    BY <1>2, AfterType DEF Nwrite_cut_short
  <2> QED BY <1>2, <2>1, <2>2 DEF Nwrite_cut_short, TimeInv
<1>3. CASE writer_closes
  BY <1>3 DEF writer_closes, TimeInv
<1>4. CASE Nrecv
  <2>1. PICK n \in 1..Len(wire) :
          LET buf == reader.buf \o SubSeq(wire, 1, n) IN
          /\ wire' = SubSeq(wire, n + 1, Len(wire))
          /\ IF Len(buf) = reader.want \/ since > OverallTimeout
             THEN NreadReturns(buf)
             ELSE /\ reader' = [reader EXCEPT !.buf = buf]
                  /\ waited' = 0 /\ since' = IF since = -1 THEN 0 ELSE since
                  /\ UNCHANGED <<total, verdict, got>>
    BY <1>4 DEF Nrecv
  <2> DEFINE buf == reader.buf \o SubSeq(wire, 1, n)
  <2>2. buf \in Seq(Byte) /\ wire' \in Seq(Byte)
    BY <2>1, PiecesType
  <2>3. UNCHANGED <<script, writer, cut, open>>
    BY <1>4 DEF Nrecv
  <2>4. CASE NreadReturns(buf)
    <3> HIDE DEF buf
    <3> QED BY <2>2, <2>3, <2>4, ReturnTime
  <2>5. CASE ~(Len(buf) = reader.want \/ since > OverallTimeout)
    <3>1. /\ reader' = [reader EXCEPT !.buf = buf]
          /\ waited' = 0 /\ since' = IF since = -1 THEN 0 ELSE since
          /\ UNCHANGED <<total, verdict, got>>
      BY <2>1, <2>5
    <3> HIDE DEF buf
    <3>2. reader' \in [item : Nat, part : Parts, want : Nat \ {0}, buf : Seq(Byte)]
      BY <2>2, <3>1
    <3>3. waited' \in 0..ReadTimeout /\ since' \in -1..MaxTime /\ total' \in 0..MaxTime
      BY <3>1, Constants
    <3>4. TimeInv'
      <4>1. since \in Int /\ total \in Nat /\ waited \in 0..ReadTimeout /\ since >= -1
        OBVIOUS
      <4>2. TimeInv /\ ~(since > OverallTimeout) /\ waited' = 0 /\ total' = total
            /\ since' = IF since = -1 THEN 0 ELSE since
        BY <2>5, <3>1
      <4>3. CASE since = -1
        BY ONLY <4>1, <4>2, <4>3, Constants DEF TimeInv
      <4>4. CASE since # -1
        BY ONLY <4>1, <4>2, <4>4, Constants DEF TimeInv
      <4> QED BY <4>3, <4>4
    <3> QED BY <2>2, <2>3, <3>1, <3>2, <3>3, <3>4
  <2> QED BY <2>1, <2>4, <2>5
<1>5. CASE Nrecv_ends
  BY <1>5, ReturnTime DEF Nrecv_ends
<1>6. CASE Nrecv_error
  BY <1>6 DEF Nrecv_error, Fail, TimeInv
<1>7. CASE tick
  <2>1. TimeInv'
    BY <1>7, Constants DEF tick, TimeInv
  <2>2. waited' \in 0..ReadTimeout /\ since' \in -1..MaxTime /\ total' \in 0..MaxTime
    BY <1>7, Constants DEF tick, TimeInv
  <2> QED BY <1>7, <2>1, <2>2 DEF tick
<1>8. CASE UNCHANGED vars
  BY <1>8 DEF vars, TimeInv
<1> QED BY <1>1, <1>2, <1>3, <1>4, <1>5, <1>6, <1>7, <1>8 DEF Next

\* Types, and the clock of the Nread in progress.
THEOREM FramingTypes == Spec => []TimeSafe
<1> QED BY TimeInit, TimeStep, PTL DEF Spec

\* One Nread takes no longer than its timeouts allow: one select before the
\* first bytes, the overall timeout after them, and the select that was called
\* just before it passed.
THEOREM ReadsBounded == Spec => []ReadsAreBounded
<1>1. TimeSafe => ReadsAreBounded
  BY Constants DEF TimeSafe, TypeOK, TimeInv, ReadsAreBounded
<1> QED BY <1>1, FramingTypes, PTL

-----------------------------------------------------------------------------
(***************************************************************************)
(* The stream.  First what taking bytes off the wire and putting bytes on  *)
(* it do to a sequence, then what that does to the invariant of the stream.*)
(***************************************************************************)

LEMMA ConcatThree ==
  ASSUME NEW S, NEW b \in Seq(S), NEW w \in Seq(S), NEW u \in Seq(S), NEW v \in Seq(S), w = u \o v
  PROVE  (b \o u) \o v = b \o w
  OBVIOUS

LEMMA TwoPieces ==
  ASSUME NEW S, NEW w \in Seq(S), NEW n \in 1..Len(w)
  PROVE  /\ SubSeq(w, 1, n) \in Seq(S) /\ SubSeq(w, n + 1, Len(w)) \in Seq(S)
         /\ w = SubSeq(w, 1, n) \o SubSeq(w, n + 1, Len(w))
  OBVIOUS

\* b is what the Nread has, w is on the wire, and x is the writer's next byte.
LEMMA ReadAll ==
  ASSUME NEW S, NEW b \in Seq(S), NEW w \in Seq(S), NEW x \in S, NEW n \in 1..Len(w)
  PROVE  /\ \A k \in 1..(Len(b) + n) : (b \o SubSeq(w, 1, n))[k] = Append(b \o w, x)[k]
         /\ Append(<<>> \o SubSeq(w, n + 1, Len(w)), x)
              = SubSeq(Append(b \o w, x), Len(b) + n + 1, Len(b) + Len(w) + 1)
         /\ Append(b \o w, x) \in Seq(S)
         /\ Len(Append(b \o w, x)) = Len(b) + Len(w) + 1
  OBVIOUS

LEMMA WriteOn ==
  ASSUME NEW S, NEW b \in Seq(S), NEW w \in Seq(S), NEW c \in Seq(S), NEW x \in S, NEW y \in S
  PROVE  LET q == Append(b \o w, y)
             r == Append(b \o (w \o c), x) IN
         /\ q \in Seq(S) /\ Len(q) = Len(b) + Len(w) + 1 /\ q[Len(q)] = y
         /\ r \in Seq(S) /\ Len(r) = Len(q) + Len(c)
         /\ \A k \in 1..(Len(q) - 1) : r[k] = q[k]
         /\ \A k \in Len(q)..(Len(r) - 1) : r[k] = c[k - Len(q) + 1]
         /\ r[Len(r)] = x
  OBVIOUS

LEMMA Rest ==
  ASSUME NEW S, NEW q \in Seq(S), NEW w \in Nat, w < Len(q)
  PROVE  /\ SubSeq(q, w + 1, Len(q)) \in Seq(S)
         /\ Len(SubSeq(q, w + 1, Len(q))) = Len(q) - w
         /\ \A k \in 1..(Len(q) - w) : SubSeq(q, w + 1, Len(q))[k] = q[k + w]
  OBVIOUS

\* Taking bytes off the front leaves a stream.
LEMMA RestOfStream ==
  ASSUME NEW q \in Seq(Byte), NEW w \in Nat, w < Len(q), Chained(q), HeadersWhole(q)
  PROVE  Chained(SubSeq(q, w + 1, Len(q))) /\ HeadersWhole(SubSeq(q, w + 1, Len(q)))
<1> DEFINE r == SubSeq(q, w + 1, Len(q))
<1>1. r \in Seq(Byte) /\ Len(r) = Len(q) - w /\ \A k \in 1..(Len(q) - w) : r[k] = q[k + w]
  BY Rest
<1> HIDE DEF r
<1>2. Chained(r)
  <2> SUFFICES ASSUME NEW k \in 1..(Len(r) - 1) PROVE Follows(r[k], r[k + 1])
    BY DEF Chained
  <2>1. k + w \in 1..(Len(q) - 1) /\ k + 1 \in 1..(Len(q) - w) /\ k \in 1..(Len(q) - w)
    BY <1>1
  <2>2. r[k] = q[k + w] /\ r[k + 1] = q[(k + w) + 1]
    BY <1>1, <2>1
  <2> QED BY <2>1, <2>2 DEF Chained
<1>3. HeadersWhole(r)
  <2> SUFFICES ASSUME NEW k \in 1..Len(r), NEW e \in 0..(HeaderLen - 1),
                      r[k][2] = "header", r[k][3] = 1, r[k][1] \notin cut, k + e <= Len(r)
               PROVE  r[k + e] = <<r[k][1], "header", 1 + e>>
    BY DEF HeadersWhole
  <2>1. k + w \in 1..Len(q) /\ (k + w) + e <= Len(q) /\ k \in 1..(Len(q) - w) /\ k + e \in 1..(Len(q) - w)
    BY <1>1, Constants
  <2>2. r[k] = q[k + w] /\ r[k + e] = q[(k + w) + e]
    BY <1>1, <2>1
  <2> QED BY <2>1, <2>2 DEF HeadersWhole
<1> QED BY <1>2, <1>3 DEF r

\* Sequence r is q with n more bytes of a part, and x is what comes after them.
Grown(q, r, i, part, off, n, x) ==
  /\ q \in Seq(Byte) /\ r \in Seq(Byte) /\ Len(q) >= 1 /\ Len(r) = Len(q) + n
  /\ i \in Nat /\ off \in Nat /\ n \in Nat \ {0} /\ x \in Byte
  /\ Size(i, part) \in Nat /\ off + n <= Size(i, part)
  /\ q[Len(q)] = <<i, part, off + 1>>
  /\ \A k \in 1..(Len(q) - 1) : r[k] = q[k]
  /\ \A k \in Len(q)..(Len(r) - 1) : r[k] = <<i, part, off + (k - Len(q) + 1)>>
  /\ r[Len(r)] = x /\ Follows(<<i, part, off + n>>, x)
  /\ off + n < Size(i, part) => x = <<i, part, off + n + 1>>

\* Writing n more bytes of the part in progress leaves a stream.
LEMMA MoreOfStream ==
  ASSUME NEW q, NEW r, NEW i, NEW part, NEW off, NEW n, NEW x,
         Grown(q, r, i, part, off, n, x), Chained(q), HeadersWhole(q)
  PROVE  Chained(r) /\ HeadersWhole(r) /\ r[1] = q[1]
<1> DEFINE l == Len(q)
           size == Size(i, part)
<1> USE DEF Grown
<1>0. l \in Nat /\ l >= 1 /\ Len(r) = l + n /\ l + n \in Nat
  OBVIOUS
<1>20. /\ i \in Nat /\ off \in Nat /\ n \in Nat \ {0} /\ size \in Nat /\ off + n <= size
       /\ r \in Seq(Byte)
  OBVIOUS
<1>1. r[l] = q[l]
  <2>1. l \in Len(q)..(Len(r) - 1) /\ off + (l - l + 1) = off + 1
    BY <1>0
  <2> QED BY <2>1
<1>2. \A k \in 1..l : r[k] = q[k]
  <2> TAKE k \in 1..l
  <2>1. CASE k = l
    BY <2>1, <1>1
  <2>2. CASE k # l
    <3>1. k \in 1..(l - 1)
      BY <1>0, <2>2
    <3> QED BY <3>1
  <2> QED BY <2>1, <2>2
<1>3. \A k \in l..(l + n - 1) : r[k] = <<i, part, off + (k - l + 1)>>
  BY <1>0
<1>4. r[l + n] = x
  BY <1>0
<1>5. q[l] = <<i, part, off + 1>>
  OBVIOUS
<1>21. /\ Follows(<<i, part, off + n>>, x)
       /\ off + n < size => x = <<i, part, off + n + 1>>
  OBVIOUS
<1> USE ONLY <1>0, <1>20, <1>2, <1>3, <1>4, <1>5, <1>21, Chained(q), HeadersWhole(q)
<1> HIDE DEF Grown
<1>6. Chained(r)
  <2> SUFFICES ASSUME NEW k \in 1..(l + n - 1) PROVE Follows(r[k], r[k + 1])
    BY <1>0 DEF Chained
  <2>1. CASE k < l
    <3>1. k \in 1..(l - 1) /\ k + 1 \in 1..l /\ k \in 1..l
      BY ONLY <1>0, <2>1, k \in 1..(l + n - 1)
    <3>2. Follows(q[k], q[k + 1])
      BY <3>1 DEF Chained
    <3> QED BY <1>2, <3>1, <3>2
  <2>2. CASE k >= l /\ k + 1 < l + n
    <3> DEFINE m == k - l + 1
    <3>1. k \in l..(l + n - 1) /\ k + 1 \in l..(l + n - 1)
      BY ONLY <1>0, <1>20, <2>2, k \in 1..(l + n - 1)
    <3>2. off + m < size /\ off + ((k + 1) - l + 1) = (off + m) + 1 /\ m \in Nat
      BY ONLY <1>0, <2>2, k \in 1..(l + n - 1), n \in Nat \ {0}, off \in Nat, size \in Nat,
         off + n <= size
    <3>3. r[k] = <<i, part, off + m>> /\ r[k + 1] = <<i, part, (off + m) + 1>>
      BY <1>3, <3>1, <3>2
    <3> HIDE DEF m
    <3> QED BY ONLY <3>2, <3>3, <1>20 DEF Follows
  <2>3. CASE k + 1 = l + n
    <3>1. k \in l..(l + n - 1) /\ k - l + 1 = n
      BY ONLY <1>0, <2>3, n \in Nat \ {0}, k \in 1..(l + n - 1)
    <3>2. r[k] = <<i, part, off + n>>
      BY <1>3, <3>1
    <3> QED BY <1>21, <1>4, <2>3, <3>2
  <2>4. k < l \/ (k >= l /\ k + 1 < l + n) \/ k + 1 = l + n
    BY ONLY <1>0, <1>20, k \in 1..(l + n - 1)
  <2> QED BY ONLY <2>1, <2>2, <2>3, <2>4
<1>7. HeadersWhole(r)
  <2> SUFFICES ASSUME NEW k \in 1..(l + n), NEW e \in 0..(HeaderLen - 1),
                      r[k][2] = "header", r[k][3] = 1, r[k][1] \notin cut, k + e <= l + n
               PROVE  r[k + e] = <<r[k][1], "header", 1 + e>>
    BY <1>0 DEF HeadersWhole
  <2>0. HeaderLen \in Nat /\ e \in Nat /\ k \in Nat /\ k >= 1 /\ e <= HeaderLen - 1
    BY <1>0, Constants
  <2>1. CASE e = 0
    <3>1. r[k] \in Byte
      BY <1>0
    <3>2. r[k] = <<r[k][1], r[k][2], r[k][3]>>
      BY <3>1, ByteParts
    <3> QED BY <2>0, <2>1, <3>2
  <2>2. CASE k + e <= l
    <3>1. k \in 1..l /\ k + e \in 1..l
      BY ONLY <1>0, <2>0, <2>2
    <3>2. q[k][2] = "header" /\ q[k][3] = 1 /\ q[k][1] \notin cut /\ k + e <= Len(q)
      BY <1>2, <2>2, <3>1
    <3>3. q[k + e] = <<q[k][1], "header", 1 + e>>
      BY <3>1, <3>2 DEF HeadersWhole
    <3> QED BY <1>2, <3>1, <3>3
  <2>3. CASE e # 0 /\ k + e > l
    <3>1. k <= l
      <4>1. SUFFICES ASSUME k > l PROVE FALSE
        BY <1>0, <2>0
      <4>2. k \in l..(l + n - 1) /\ k - l + 1 > 1
        BY ONLY <1>0, <2>0, <2>3, <4>1, k + e <= l + n, n \in Nat \ {0}
      <4>3. r[k][3] = off + (k - l + 1)
        BY <1>3, <4>2
      <4> QED BY <1>0, <2>0, <4>2, <4>3
    <3>2. Len(q) - k \in 0..(HeaderLen - 1) /\ k + (l - k) = l /\ k \in 1..l /\ k + (l - k) <= Len(q)
      BY ONLY <1>0, <2>0, <2>3, <3>1
    <3>3. q[k][2] = "header" /\ q[k][3] = 1 /\ q[k][1] \notin cut
      BY <1>2, <3>2
    <3>4. q[k + (l - k)] = <<q[k][1], "header", 1 + (l - k)>>
      BY <3>2, <3>3 DEF HeadersWhole
    <3>5. q[l] = <<r[k][1], "header", 1 + (l - k)>>
      BY <1>2, <3>2, <3>4
    <3>6. r[k][1] = i /\ part = "header" /\ off + 1 = 1 + (l - k)
      BY <1>5, <3>5
    <3>7. size = HeaderLen
      BY <3>6 DEF Size
    <3>8. 1 + e = off + (k + e - l + 1)
      BY ONLY <3>6, <1>0, <2>0, off \in Nat
    <3>9. CASE k + e < l + n
      <4>1. k + e \in l..(l + n - 1)
        BY ONLY <1>0, <2>0, <2>3, <3>9, n \in Nat \ {0}
      <4>2. r[k + e] = <<i, part, off + ((k + e) - l + 1)>>
        BY <1>3, <4>1
      <4> QED BY <3>6, <3>8, <4>2
    <3>10. CASE k + e = l + n
      <4>1. off + n < size /\ off + n + 1 = 1 + e
        BY ONLY <3>7, <3>8, <3>10, <1>0, <2>0, n \in Nat \ {0}, off \in Nat
      <4>2. r[k + e] = <<i, part, off + n + 1>>
        BY <1>21, <1>4, <3>10, <4>1
      <4> QED BY <3>6, <4>1, <4>2
    <3>11. k + e < l + n \/ k + e = l + n
      BY ONLY <1>0, <2>0, k + e <= l + n
    <3> QED BY ONLY <3>9, <3>10, <3>11
  <2>4. k + e <= l \/ k + e > l
    BY ONLY <1>0, <2>0
  <2> QED BY ONLY <2>1, <2>2, <2>3, <2>4
<1>8. r[1] = q[1]
  BY <1>0, <1>2
<1> QED BY <1>6, <1>7, <1>8

-----------------------------------------------------------------------------
(***************************************************************************)
(* The invariant of the framing.                                           *)
(***************************************************************************)

LEMMA AheadType ==
  ASSUME TypeOK
  PROVE  /\ NextByte \in Byte /\ Ahead \in Seq(Byte)
         /\ Len(Ahead) = Len(reader.buf) + Len(wire) + 1
         /\ Ahead[Len(Ahead)] = NextByte
<1>1. NextByte \in Byte
  BY DEF NextByte, Byte, TypeOK
<1>2. reader.buf \in Seq(Byte) /\ wire \in Seq(Byte)
  BY DEF TypeOK
<1> HIDE DEF NextByte
<1> QED BY <1>1, <1>2 DEF Ahead

LEMMA FramingInvInit == Init => FramingInv
<1> SUFFICES ASSUME Init PROVE FramingInv
  OBVIOUS
<1>1. TypeOK
  BY TimeInit DEF TimeSafe
<1>2. script \in Seq(Nat) /\ Len(script) \in Nat
  BY Constants DEF Init
<1>3. writer.item = 1 /\ writer.part = FirstPart(1) /\ writer.off = 0
  BY DEF Init
<1>4. FirstPart(1) \in {"state", "header"} /\ (FirstPart(1) = "header" => Size(1, FirstPart(1)) = HeaderLen)
      /\ (FirstPart(1) = "state" => 1 <= Len(script) /\ Size(1, FirstPart(1)) = 1)
  BY <1>2 DEF FirstPart, Size
<1>5. WriterInv
  BY <1>2, <1>3, <1>4, Constants DEF WriterInv
<1>6. Ahead = << <<1, FirstPart(1), 1>> >>
  <2>1. reader.buf \o wire = <<>>
    BY DEF Init
  <2>2. NextByte = <<1, FirstPart(1), 1>>
    BY <1>3 DEF NextByte
  <2> QED BY <2>1, <2>2 DEF Ahead
<1>7. Len(Ahead) = 1 /\ Ahead[1] = <<1, FirstPart(1), 1>>
  BY <1>6
<1>8. StreamInv
  <2>1. Chained(Ahead)
    BY <1>7 DEF Chained
  <2>2. HeadersWhole(Ahead)
    BY <1>7, Constants DEF HeadersWhole
  <2> QED BY <1>7, <2>1, <2>2 DEF StreamInv
<1>9. ReaderInv
  <2>1. /\ reader.item = 1 /\ reader.part = FirstPart(1) /\ reader.want = Size(1, FirstPart(1))
        /\ Len(reader.buf) = 0 /\ Len(got) = 0
    BY DEF Init
  <2> QED BY <1>4, <1>7, <2>1, Constants DEF ReaderInv
<1>10. GotInv
  BY <1>9 DEF ReaderInv, GotInv
<1> QED BY <1>1, <1>5, <1>8, <1>9, <1>10 DEF FramingInv

\* What the writer does after a part.
LEMMA AfterFacts ==
  ASSUME TypeOK, WriterInv, writer.item <= Len(script)
  PROVE  LET w == After(writer)
             part == writer.part
             size == Size(writer.item, part) IN
         /\ size \in Nat \ {0} /\ w.off = 0
         /\ part = "header" => w.item = writer.item /\ w.part = "body" /\ size = HeaderLen
         /\ part # "header" => w.item = writer.item + 1 /\ w.part = FirstPart(writer.item + 1)
         /\ w.item <= Len(script) + 1
         /\ w.item <= Len(script) =>
              /\ 0 < Size(w.item, w.part)
              /\ w.part # "body" => w.part = FirstPart(w.item)
              /\ w.part = "body" => script[w.item] # 0
         /\ w.item = Len(script) + 1 => w.part = "header"
         /\ part = "state" => size = 1
<1>1. script \in Seq(Nat) /\ Len(script) \in Nat /\ writer.item \in 1..Len(script)
      /\ writer.part \in Parts /\ writer.off \in Nat
  BY Constants DEF TypeOK
<1>2. \A k \in 1..Len(script) : script[k] \in Nat
  BY <1>1
<1>3. CASE writer.part = "header"
  <2>1. After(writer) = [item |-> writer.item, part |-> "body", off |-> 0]
    BY <1>3 DEF After
  <2>2. script[writer.item] # 0
    BY <1>1, <1>3 DEF WriterInv, FirstPart, IsState
  <2>3. Size(writer.item, "body") = script[writer.item] /\ Size(writer.item, "header") = HeaderLen
    BY DEF Size
  <2> QED BY <1>1, <1>2, <1>3, <2>1, <2>2, <2>3, Constants
<1>4. CASE writer.part # "header"
  <2> DEFINE i == writer.item + 1
  <2>1. After(writer) = [item |-> i, part |-> FirstPart(i), off |-> 0]
    BY <1>4 DEF After
  <2>2. Size(writer.item, writer.part) \in Nat \ {0} /\ (writer.part = "state" => Size(writer.item, writer.part) = 1)
    BY <1>1, <1>2, <1>4 DEF WriterInv, Size, Parts
  <2>3. i \in Nat /\ i <= Len(script) + 1
    BY <1>1
  <2>4. /\ FirstPart(i) # "body" /\ 0 < Size(i, FirstPart(i))
        /\ i = Len(script) + 1 => FirstPart(i) = "header"
    BY <1>1, <2>3, Constants DEF FirstPart, Size
  <2> HIDE DEF i
  <2> QED BY <1>4, <2>1, <2>2, <2>3, <2>4 DEF i
<1> QED BY <1>3, <1>4

\* Nwrite puts more of the part in progress on the wire.
LEMMA NwriteStep ==
  ASSUME FramingInv, TypeOK', Nwrite
  PROVE  WriterInv' /\ (Reading /\ Intact => StreamInv' /\ ReaderInv') /\ Sent' >= Sent
<1> DEFINE i == writer.item
           part == writer.part
           off == writer.off
           size == Size(i, part)
<1>0. TypeOK /\ WriterInv /\ i <= Len(script)
  BY DEF FramingInv, Nwrite, Writing
<1>1. i \in Nat \ {0} /\ part \in Parts /\ off \in Nat /\ Len(script) \in Nat
  BY <1>0, Constants DEF TypeOK
<1>2. size \in Nat \ {0} /\ off < size
  BY <1>0, AfterFacts DEF WriterInv
<1>3. PICK n \in 1..(size - off) :
        /\ wire' = wire \o Bytes(i, part, off + 1, off + n)
        /\ writer' = IF off + n = size THEN After(writer) ELSE [writer EXCEPT !.off = @ + n]
  BY DEF Nwrite
<1>4. n \in Nat \ {0} /\ off + n <= size /\ off + n \in Nat /\ off + 1 \in Nat \ {0}
  BY <1>1, <1>2
<1>5. UNCHANGED <<script, cut, open, reader, waited, since, total, verdict, got>>
  BY DEF Nwrite
<1> HIDE DEF size
<1>6. \A j, p : FirstPart(j)' = FirstPart(j) /\ Size(j, p)' = Size(j, p)
  BY <1>5 DEF FirstPart, Size, IsState
<1>7. ASSUME off + n < size
      PROVE  writer'.item = i /\ writer'.part = part /\ writer'.off = off + n
  <2>1. writer' = [writer EXCEPT !.off = off + n]
    BY <1>3, <1>7, <1>2, <1>4
  <2> QED BY <2>1, <1>0 DEF TypeOK
<1>8. ASSUME off + n = size
      PROVE  writer' = After(writer)
  BY <1>3, <1>8
<1>9. WriterInv'
  <2>1. CASE off + n < size
    BY <1>0, <1>1, <1>2, <1>4, <1>5, <1>6, <1>7, <2>1 DEF WriterInv, size
  <2>2. CASE off + n = size
    BY <1>0, <1>5, <1>6, <1>8, <2>2, AfterFacts DEF WriterInv
  <2> QED BY <1>2, <1>4, <2>1, <2>2
<1>10. Sent' >= Sent /\ Sent' >= i
  <2>1. CASE off + n < size
    BY <1>1, <1>4, <1>7, <2>1 DEF Sent
  <2>2. CASE off + n = size
    BY <1>0, <1>1, <1>8, <2>2, AfterFacts DEF Sent
  <2> QED BY <1>2, <1>4, <2>1, <2>2
<1>11. ASSUME Reading, Intact PROVE StreamInv' /\ ReaderInv'
  <2> DEFINE q == Ahead
             x == NextByte'
             c == Bytes(i, part, off + 1, off + n)
             r == Append(reader.buf \o (wire \o c), x)
  <2>0. StreamInv /\ ReaderInv
    BY <1>11 DEF FramingInv
  <2>1. Ahead' = r
    BY <1>3, <1>5 DEF Ahead
  <2>2. /\ c \in Seq(Byte) /\ Len(c) = n
        /\ \A k \in 1..n : c[k] = <<i, part, off + k>>
    <3>1. (off + n) - (off + 1) + 1 = n /\ off + 1 <= off + n + 1
      BY <1>1, <1>4
    <3>2. c \in Seq(Byte) /\ Len(c) = n /\ \A k \in 1..n : c[k] = <<i, part, off + 1 + k - 1>>
      <4>1. c = [k \in 1..n |-> <<i, part, off + 1 + k - 1>>]
        BY <3>1 DEF Bytes
      <4>2. \A k \in 1..n : <<i, part, off + 1 + k - 1>> \in Byte
        BY <1>1, <1>4 DEF Byte
      <4>3. c \in [1..n -> Byte] /\ \A k \in 1..n : c[k] = <<i, part, off + 1 + k - 1>>
        BY <4>1, <4>2
      <4> HIDE DEF c
      <4> QED BY <1>4, <4>3, FunctionIsSeq
    <3>3. \A k \in 1..n : off + 1 + k - 1 = off + k
      BY <1>1, <1>4
    <3> QED BY <3>2, <3>3
  <2>3. x \in Byte
    <3>1. writer' \in [item : Nat \ {0}, part : Parts, off : Nat]
      BY DEF TypeOK
    <3> QED BY <3>1 DEF NextByte, Byte
  <2>4. reader.buf \in Seq(Byte) /\ wire \in Seq(Byte) /\ NextByte \in Byte
    BY <1>0, AheadType DEF TypeOK
  <2> HIDE DEF c, x
  <2>5. /\ q \in Seq(Byte) /\ q[Len(q)] = NextByte
        /\ r \in Seq(Byte) /\ Len(r) = Len(q) + n
        /\ \A k \in 1..(Len(q) - 1) : r[k] = q[k]
        /\ \A k \in Len(q)..(Len(r) - 1) : r[k] = c[k - Len(q) + 1]
        /\ r[Len(r)] = x
    <3> DEFINE b == reader.buf
               w == wire
               y == NextByte
    <3>1. b \in Seq(Byte) /\ w \in Seq(Byte) /\ c \in Seq(Byte) /\ x \in Byte /\ y \in Byte /\ Len(c) = n
      BY <2>2, <2>3, <2>4
    <3>2. q = Append(b \o w, y) /\ r = Append(b \o (w \o c), x)
      BY DEF Ahead
    <3> HIDE DEF b, w, y, q, r
    <3>3. q \in Seq(Byte) /\ Len(q) = Len(b) + Len(w) + 1 /\ q[Len(q)] = y
      BY ONLY <3>1, <3>2
    <3>4. r \in Seq(Byte) /\ Len(r) = Len(b) + Len(w) + n + 1 /\ r[Len(r)] = x
      BY ONLY <3>1, <3>2
    <3>5. Len(b) \in Nat /\ Len(w) \in Nat /\ n \in Nat
      BY <3>1, <1>4
    <3>6. \A k \in 1..(Len(b) + Len(w)) : r[k] = q[k]
      BY ONLY <3>1, <3>2
    <3>7. \A k \in (Len(b) + Len(w) + 1)..(Len(b) + Len(w) + n) : r[k] = c[k - (Len(b) + Len(w))]
      BY ONLY <3>1, <3>2
    <3>8. Len(r) = Len(q) + n /\ Len(q) - 1 = Len(b) + Len(w)
          /\ Len(r) - 1 = Len(b) + Len(w) + n
      BY ONLY <3>3, <3>4, <3>5
    <3>9. \A k \in Len(q)..(Len(r) - 1) : r[k] = c[k - Len(q) + 1]
      <4> TAKE k \in Len(q)..(Len(r) - 1)
      <4>1. k \in (Len(b) + Len(w) + 1)..(Len(b) + Len(w) + n) /\ k - Len(q) + 1 = k - (Len(b) + Len(w))
        BY <3>3, <3>5, <3>8
      <4> QED BY <3>7, <4>1
    <3> QED BY <3>3, <3>4, <3>6, <3>8, <3>9 DEF y
  <2>20. Len(q) \in Nat /\ Len(q) >= 1 /\ Len(r) = Len(q) + n
    <3>1. Len(q) = Len(reader.buf) + Len(wire) + 1
      BY <1>0, AheadType
    <3>2. Len(reader.buf) \in Nat /\ Len(wire) \in Nat
      BY <2>4
    <3> QED BY <2>5, <3>1, <3>2
  <2> HIDE DEF q, r
  <2>6. \A k \in Len(q)..(Len(r) - 1) : r[k] = <<i, part, off + (k - Len(q) + 1)>>
    <3> TAKE k \in Len(q)..(Len(r) - 1)
    <3>1. k - Len(q) + 1 \in 1..n
      BY <1>4, <2>5
    <3> QED BY <2>2, <2>5, <3>1
  <2>7. off + n < size => x = <<i, part, off + n + 1>>
    BY <1>7 DEF x, NextByte
  <2>8. Follows(<<i, part, off + n>>, x)
    <3>1. CASE off + n < size
      BY <2>7, <3>1 DEF Follows, size
    <3>2. CASE off + n = size
      <4>1. x = <<After(writer).item, After(writer).part, 0 + 1>>
        BY <1>0, <1>8, <3>2, AfterFacts DEF x, NextByte
      <4>2. CASE part = "header"
        BY <1>0, <3>2, <4>1, <4>2, AfterFacts DEF Follows, size
      <4>3. CASE part # "header"
        BY <1>0, <3>2, <4>1, <4>3, AfterFacts DEF Follows
      <4> QED BY <4>2, <4>3
    <3> QED BY <1>2, <1>4, <3>1, <3>2
  <2>9. Chained(r) /\ HeadersWhole(r) /\ r[1] = q[1]
    <3>1. Chained(q) /\ HeadersWhole(q)
      BY <2>0 DEF StreamInv, q
    <3>2. q[Len(q)] = <<i, part, off + 1>>
      BY <2>5 DEF NextByte
    <3>3. size = Size(i, part) /\ size \in Nat /\ i \in Nat
      BY <1>1, <1>2 DEF size
    <3>4. Grown(q, r, i, part, off, n, x)
      BY <1>1, <1>4, <2>3, <2>5, <2>20, <2>6, <2>7, <2>8, <3>2, <3>3 DEF Grown
    <3> QED BY <3>1, <3>4, MoreOfStream
  <2>10. \A k \in 1..(Len(r) - 1) : r[k][1] \in 1..Sent'
    <3> TAKE k \in 1..(Len(r) - 1)
    <3>1. Sent' \in Int /\ Sent \in Int
      <4>1. writer.item \in Nat /\ writer'.item \in Nat
        BY <1>0 DEF TypeOK
      <4> QED BY <4>1 DEF Sent
    <3>2. CASE k < Len(q)
      <4>1. q[k][1] \in 1..Sent
        BY <2>0, <2>5, <3>2 DEF StreamInv, q
      <4> QED BY <1>10, <2>5, <3>1, <3>2, <4>1
    <3>3. CASE k >= Len(q)
      <4>1. r[k][1] = i
        BY <2>5, <2>6, <3>3
      <4> QED BY <1>1, <1>10, <3>1, <4>1
    <3> QED BY <2>5, <3>2, <3>3
  <2>11. r[1] = q[1]
    BY <2>9
  <2>12. StreamInv'
    <3>1. Chained(Ahead)'
      BY <1>5, <2>1, <2>9 DEF Chained, Follows, FirstPart, Size, IsState
    <3>2. HeadersWhole(Ahead)'
      BY <1>5, <2>1, <2>9 DEF HeadersWhole
    <3> QED BY <2>1, <2>10, <3>1, <3>2 DEF StreamInv
  <2>13. ReaderInv'
    BY <1>5, <1>6, <2>0, <2>1, <2>11 DEF ReaderInv, q
  <2> QED BY <2>12, <2>13
<1> QED BY <1>9, <1>10, <1>11

\* JSON_write goes on after an Nwrite of the length or of the document that was
\* cut short.
LEMMA CutShortStep ==
  ASSUME FramingInv, TypeOK', Nwrite_cut_short
  PROVE  /\ WriterInv' /\ (Reading /\ Intact' => StreamInv' /\ ReaderInv') /\ Sent' = Sent
         /\ cut' = cut \/ cut' = cut \cup {Sent}
<1> DEFINE i == writer.item
           off == writer.off
           part == writer.part
<1>0. TypeOK /\ WriterInv /\ i <= Len(script) /\ off > 0
  BY DEF FramingInv, Nwrite_cut_short, Writing
<1>1. i \in Nat \ {0} /\ off \in Nat /\ Len(script) \in Nat /\ part \in Parts
  BY <1>0, Constants DEF TypeOK
<1>2. /\ writer' = After(writer) /\ UNCHANGED <<script, wire, open, reader, verdict, got>>
      /\ cut' = IF part = "header" THEN cut \cup {i} ELSE cut
  BY DEF Nwrite_cut_short
<1>3. \A j, p : FirstPart(j)' = FirstPart(j) /\ Size(j, p)' = Size(j, p)
  BY <1>2 DEF FirstPart, Size, IsState
<1>4. /\ writer'.off = 0
      /\ part = "header" => writer'.item = i /\ writer'.part = "body"
      /\ part # "header" => /\ writer'.item = i + 1 /\ writer'.part = FirstPart(i + 1)
                            /\ writer'.part # "body"
  BY <1>2 DEF After, FirstPart
<1>5. WriterInv'
  BY <1>0, <1>2, <1>3, AfterFacts DEF WriterInv
<1>6. Sent' = Sent
  BY <1>0, <1>1, <1>4 DEF Sent
<1>7. ASSUME Reading, Intact' PROVE StreamInv' /\ ReaderInv'
  <2> DEFINE q == Ahead
             l == Len(q)
             x == NextByte'
             p == reader.buf \o wire
  <2>20. Intact /\ (part = "header" => reader.item < i)
    BY <1>2, <1>7 DEF Intact
  <2>0. StreamInv /\ ReaderInv
    BY <1>7, <2>20 DEF FramingInv
  <2>1. q = Append(p, NextByte) /\ Ahead' = Append(p, x)
    BY <1>2 DEF Ahead
  <2>2. p \in Seq(Byte) /\ NextByte \in Byte
    BY <1>0, AheadType DEF TypeOK
  <2>3. x \in Byte
    <3>1. writer' \in [item : Nat \ {0}, part : Parts, off : Nat]
      BY DEF TypeOK
    <3> QED BY <3>1 DEF NextByte, Byte
  <2>4. /\ NextByte = <<i, part, off + 1>>
        /\ part = "header" => x = <<i, "body", 1>>
        /\ part # "header" => x = <<i + 1, FirstPart(i + 1), 1>>
    BY <1>4 DEF NextByte
  <2> DEFINE r == Append(p, x)
  <2>5. /\ l = Len(p) + 1 /\ Len(p) \in Nat /\ Len(r) = l /\ r \in Seq(Byte)
        /\ q[l] = NextByte /\ r[l] = x /\ \A k \in 1..(l - 1) : r[k] = q[k]
    <3> HIDE DEF p, q, x
    <3> QED BY <2>1, <2>2, <2>3
  <2> HIDE DEF p, q, x, r
  <2>6. Chained(q) /\ HeadersWhole(q)
    BY <2>0 DEF StreamInv, q
  <2>7. l # 1
    \* The Nread in progress began before this document's first byte.
    <3>1. q[1] = <<reader.item, reader.part, 1>>
      BY <2>0 DEF ReaderInv, q
    <3> QED BY <1>0, <1>1, <2>4, <2>5, <3>1
  <2>8. q[l - 1] = <<i, part, off>>
    <3>1. l - 1 \in 1..(l - 1) /\ (l - 1) + 1 = l
      BY <2>5, <2>7
    <3>2. Follows(q[l - 1], <<i, part, off + 1>>)
      BY <2>4, <2>5, <2>6, <3>1 DEF Chained
    <3>3. q[l - 1] \in Byte
      BY <2>1, <2>2, <2>5, <3>1
    <3>4. q[l - 1][1] = i /\ q[l - 1][2] = part /\ q[l - 1][3] + 1 = off + 1
      BY <1>0, <1>1, <3>2 DEF Follows
    <3> QED BY <1>1, <3>3, <3>4, ByteParts
  <2> DEFINE Then(a, b) ==
               \/ a[3] < Size(a[1], a[2]) /\ b = <<a[1], a[2], a[3] + 1>>
               \/ a[2] = "header" /\ (a[3] = HeaderLen \/ a[1] \in cut') /\ b = <<a[1], "body", 1>>
               \/ a[2] # "header" /\ b = <<a[1] + 1, FirstPart(a[1] + 1), 1>>
  <2>9. \A k \in 1..(l - 1) : Then(r[k], r[k + 1])
    <3> TAKE k \in 1..(l - 1)
    <3>1. CASE k = l - 1
      <4>1. r[k] = <<i, part, off>> /\ r[k + 1] = x
        BY <2>5, <2>8, <3>1
      <4>2. part = "header" => i \in cut'
        BY <1>2
      <4> QED BY <2>4, <4>1, <4>2
    <3>2. CASE k # l - 1
      <4>1. k \in 1..(l - 1) /\ k + 1 \in 1..(l - 1)
        BY <2>5, <3>2
      <4>2. r[k] = q[k] /\ r[k + 1] = q[k + 1]
        BY <2>5, <4>1
      <4>3. Follows(r[k], r[k + 1])
        BY <2>6, <4>1, <4>2 DEF Chained
      <4>4. \A j : j \in cut => j \in cut'
        BY <1>2
      <4> QED BY <4>3, <4>4 DEF Follows
    <3> QED BY <3>1, <3>2
  <2>10. \A k \in 1..l : \A e \in 0..(HeaderLen - 1) :
           (r[k][2] = "header" /\ r[k][3] = 1 /\ r[k][1] \notin cut' /\ k + e <= l)
             => r[k + e] = <<r[k][1], "header", 1 + e>>
    <3> SUFFICES ASSUME NEW k \in 1..l, NEW e \in 0..(HeaderLen - 1),
                        r[k][2] = "header", r[k][3] = 1, r[k][1] \notin cut', k + e <= l
                 PROVE  r[k + e] = <<r[k][1], "header", 1 + e>>
      OBVIOUS
    <3>0. HeaderLen \in Nat /\ e \in Nat /\ k \in Nat /\ l \in Nat
      BY <2>5, Constants
    <3>1. CASE e = 0
      <4>1. r[k] \in Byte
        BY <2>5
      <4> QED BY <3>0, <3>1, <4>1, ByteParts
    <3>2. CASE e # 0
      <4>1. k \in 1..(l - 1)
        BY <3>0, <3>2
      <4>2. /\ q[k][2] = "header" /\ q[k][3] = 1 /\ k \in 1..Len(q) /\ r[k] = q[k]
            /\ q[k][1] \notin cut
        BY <1>2, <2>5, <4>1
      <4>3. q[k + e] = <<q[k][1], "header", 1 + e>>
        BY <2>6, <4>2 DEF HeadersWhole
      <4>4. k + e # l
        <5>1. part = "header" => r[k][1] # i
          BY <1>2
        <5> QED BY <2>4, <2>5, <4>2, <4>3, <5>1
      <4>5. k + e \in 1..(l - 1)
        BY <3>0, <4>1, <4>4
      <4> QED BY <2>5, <4>2, <4>3, <4>5
    <3> QED BY <3>1, <3>2
  <2>11. \A k \in 1..(Len(r) - 1) : r[k][1] \in 1..Sent'
    <3>1. \A k \in 1..(l - 1) : q[k][1] \in 1..Sent
      BY <2>0 DEF StreamInv, q
    <3> QED BY <1>6, <2>5, <3>1
  <2>12. r[1] = q[1]
    <3>1. 1 \in 1..(l - 1)
      BY <2>5, <2>7
    <3> QED BY <2>5, <3>1
  <2>13. Ahead' = r
    BY <2>1 DEF r
  <2>14. StreamInv'
    <3>1. Chained(Ahead)'
      BY <1>2, <2>5, <2>9, <2>13 DEF Chained, Follows, FirstPart, Size, IsState
    <3>2. HeadersWhole(Ahead)'
      BY <2>5, <2>10, <2>13 DEF HeadersWhole
    <3> QED BY <2>11, <2>13, <3>1, <3>2 DEF StreamInv
  <2>15. ReaderInv'
    BY <1>2, <1>3, <2>0, <2>12, <2>13 DEF ReaderInv, q
  <2> QED BY <2>14, <2>15
<1>8. cut' = cut \/ cut' = cut \cup {Sent}
  BY <1>0, <1>2 DEF Sent
<1> QED BY <1>5, <1>6, <1>7, <1>8

-----------------------------------------------------------------------------
(***************************************************************************)
(* The reader.                                                             *)
(***************************************************************************)

\* What a return from Nread with fewer bytes than it was asked for does.
LEMMA ShortReturn ==
  ASSUME FramingInv, Reading, Intact, NEW buf, NreadReturns(buf), Len(buf) # reader.want
  PROVE  Fail
<1>1. /\ reader.part = "state" => reader.want = 1
      /\ reader.part = "header" => reader.want = HeaderLen
  BY DEF FramingInv, ReaderInv, Size
<1> QED BY <1>1 DEF NreadReturns

\* A return with all of them: the reader either fails, or the first bytes ahead
\* are one whole part of the message it expects.
FullRead(buf, next) ==
  \/ Fail
  \/ /\ reader.part # "header"
     /\ Took(reader.item) /\ reader.item <= Len(script)
     /\ next = <<reader.item + 1, FirstPart(reader.item + 1), 1>>
  \/ /\ reader.part = "header" /\ reader.item <= Len(script)
     /\ script[reader.item] > 0
     /\ StartRead(reader.item, "body", script[reader.item]) /\ UNCHANGED <<verdict, got>>
     /\ next = <<reader.item, "body", 1>>

LEMMA FullReturn ==
  ASSUME FramingInv, Reading, Intact, NEW buf \in Seq(Byte), NreadReturns(buf),
         Len(buf) = reader.want, reader.want < Len(Ahead),
         \A k \in 1..reader.want : buf[k] = Ahead[k]
  PROVE  FullRead(buf, Ahead[reader.want + 1]) /\ reader.item <= Sent
<1> DEFINE q == Ahead
           i == reader.item
           w == reader.want
<1>0. TypeOK /\ StreamInv /\ ReaderInv /\ WriterInv
  BY DEF FramingInv
<1>1. /\ i \in Nat \ {0} /\ w \in Nat \ {0} /\ reader.part \in Parts
      /\ script \in Seq(Nat) /\ Len(script) \in Nat
  BY <1>0, Constants DEF TypeOK, ReaderInv
<1>2. q \in Seq(Byte) /\ Chained(q) /\ HeadersWhole(q) /\ q[1] = <<i, reader.part, 1>>
  BY <1>0, AheadType DEF StreamInv, ReaderInv
<1>3. i \in 1..Sent /\ i <= Len(script)
  <2>1. 1 \in 1..(Len(q) - 1)
    BY <1>1, <1>2
  <2>2. q[1][1] \in 1..Sent
    BY <1>0, <2>1 DEF StreamInv
  <2>3. Sent <= Len(script)
    <3>1. writer.item \in Nat
      BY <1>0 DEF TypeOK
    <3> QED BY <1>0, <1>1, <3>1 DEF Sent, WriterInv
  <2>4. Sent \in Int
    BY <1>0 DEF Sent, TypeOK
  <2> QED BY <1>1, <1>2, <2>2, <2>3, <2>4
<1>4. Follows(q[w], q[w + 1])
  <2>1. w \in 1..(Len(q) - 1)
    BY <1>1, <1>2
  <2> QED BY <1>2, <2>1 DEF Chained
<1> HIDE DEF q
<1>5. CASE reader.part = "state"
  <2>1. w = 1 /\ buf[1] = <<i, "state", 1>>
    BY <1>0, <1>2, <1>5 DEF ReaderInv, Size, q
  <2>2. Took(i)
    <3>1. \E m \in States(buf[1]) : IF m >= 0 THEN Took(m) ELSE Fail
      BY <1>5, <2>1 DEF NreadReturns
    <3>2. States(buf[1]) = {i}
      BY <2>1 DEF States
    <3> QED BY <1>1, <3>1, <3>2
  <2>3. q[2] = <<i + 1, FirstPart(i + 1), 1>>
    <3>1. Follows(<<i, "state", 1>>, q[2])
      <4>1. q[1] = <<i, "state", 1>> /\ w + 1 = 2
        BY <1>2, <1>5, <2>1
      <4> QED BY <1>4, <2>1, <4>1
    <3>2. Size(i, "state") = 1
      BY DEF Size
    <3> QED BY <3>1, <3>2 DEF Follows
  <2> QED BY <1>3, <1>5, <2>1, <2>2, <2>3 DEF FullRead, q
<1>6. CASE reader.part = "header"
  <2>1. w = HeaderLen
    BY <1>0, <1>6 DEF ReaderInv, Size
  <2>2. \A k \in 1..HeaderLen : q[k] = <<i, "header", k>>
    <3> TAKE k \in 1..HeaderLen
    <3>1. k - 1 \in 0..(HeaderLen - 1) /\ 1 + (k - 1) = k /\ k <= Len(q) /\ 1 \in 1..Len(q)
      BY <1>1, <1>2, <2>1, Constants DEF q
    <3>2. q[1][2] = "header" /\ q[1][3] = 1 /\ q[1][1] = i /\ q[1][1] \notin cut
      <4>1. i \notin cut
        BY <1>1 DEF Intact
      <4> QED BY <1>2, <1>6, <4>1
    <3>3. q[1 + (k - 1)] = <<i, "header", 1 + (k - 1)>>
      BY <1>2, <3>1, <3>2 DEF HeadersWhole
    <3> QED BY <3>1, <3>3
  <2>3. buf = Bytes(i, "header", 1, HeaderLen)
    <3> DEFINE c == Bytes(i, "header", 1, HeaderLen)
    <3>1. c = [k \in 1..HeaderLen |-> <<i, "header", k>>]
      BY Constants DEF Bytes
    <3>2. \A k \in 1..HeaderLen : buf[k] = <<i, "header", k>>
      BY <2>1, <2>2 DEF q
    <3>3. buf = [k \in 1..HeaderLen |-> buf[k]]
      BY <2>1
    <3> QED BY <3>1, <3>2, <3>3
  <2>4. Lengths(buf) = {script[i]}
    <3>1. buf[1][1] = i
      BY <1>1, <1>2, <2>1 DEF q
    <3> QED BY <1>1, <1>3, <2>3, <3>1 DEF Lengths
  <2>5. \E hsize \in Lengths(buf) :
          IF hsize > 0 /\ (MaxSize = 0 \/ hsize <= MaxSize)
          THEN StartRead(i, "body", hsize) /\ UNCHANGED <<verdict, got>>
          ELSE Fail
    BY <1>6, <2>1 DEF NreadReturns
  <2>6. q[w + 1] = <<i, "body", 1>>
    <3>1. q[w] = <<i, "header", HeaderLen>>
      BY <2>1, <2>2, Constants
    <3>2. Size(i, "header") = HeaderLen
      BY DEF Size
    <3> QED BY <1>4, <3>1, <3>2, Constants DEF Follows
  <2> QED BY <1>3, <1>6, <2>4, <2>5, <2>6 DEF FullRead, q
<1>7. CASE reader.part = "body"
  <2>1. w = script[i] /\ buf[1] = <<i, "body", 1>>
    <3>1. w = script[i]
      BY <1>0, <1>7 DEF ReaderInv
    <3>2. buf[1] = q[1]
      BY <1>1 DEF q
    <3> QED BY <1>2, <1>7, <3>1, <3>2
  <2>2. \E m \in Documents(buf) : IF m >= 0 THEN Took(m) ELSE Fail
    BY <1>7 DEF NreadReturns
  <2>3. CASE ~ IsPrefix(Bytes(i, "body", 1, w), buf)
    <3>1. Documents(buf) = {-1}
      BY <2>1, <2>3 DEF Documents
    <3> QED BY <1>3, <2>2, <3>1 DEF FullRead
  <2>4. CASE IsPrefix(Bytes(i, "body", 1, w), buf)
    <3>1. Documents(buf) = {i}
      BY <2>1, <2>4 DEF Documents
    <3>2. Took(i)
      BY <1>1, <2>2, <3>1
    <3>3. buf[w] = <<i, "body", w>>
      <4> DEFINE c == Bytes(i, "body", 1, w)
      <4>1. c \in Seq(Byte) /\ Len(c) = w /\ c[w] = <<i, "body", w>>
        <5>1. c = [k \in 1..w |-> <<i, "body", k>>]
          BY <1>1 DEF Bytes
        <5>2. \A k \in 1..w : <<i, "body", k>> \in Byte
          BY <1>1 DEF Byte, Parts
        <5>3. c \in [1..w -> Byte] /\ c[w] = <<i, "body", w>>
          BY <1>1, <5>1, <5>2
        <5>4. \A m \in Nat : \A f \in [1..m -> Byte] : f \in Seq(Byte) /\ Len(f) = m
          BY FunctionIsSeq
        <5> HIDE DEF c
        <5> QED BY <1>1, <5>3, <5>4
      <4> HIDE DEF c
      <4>2. SubSeq(c, 1, Len(c)) = SubSeq(buf, 1, Len(c))
        BY <2>4 DEF IsPrefix, c
      <4>3. SubSeq(c, 1, w)[w] = c[w] /\ SubSeq(buf, 1, w)[w] = buf[w]
        BY <1>1, <4>1
      <4> QED BY <4>1, <4>2, <4>3
    <3>4. q[w] = <<i, "body", w>>
      BY <1>1, <3>3 DEF q
    <3>5. q[w + 1] = <<i + 1, FirstPart(i + 1), 1>>
      <4>1. Size(i, "body") = w
        BY <2>1 DEF Size
      <4> QED BY <1>1, <1>4, <3>4, <4>1 DEF Follows
    <3> QED BY <1>3, <1>7, <3>2, <3>5 DEF FullRead, q
  <2> QED BY <2>3, <2>4
<1> QED BY <1>1, <1>5, <1>6, <1>7 DEF Parts

\* The next Nread starts where this one ended.
LEMMA NewRead ==
  ASSUME FramingInv, Reading, Intact, NEW n \in 1..Len(wire), Len(reader.buf) + n = reader.want,
         wire' = SubSeq(wire, n + 1, Len(wire)), reader'.buf = <<>>,
         UNCHANGED <<script, writer, cut>>
  PROVE  StreamInv' /\ Ahead'[1] = Ahead[reader.want + 1]
<1> DEFINE q == Ahead
           w == reader.want
           r == SubSeq(q, w + 1, Len(q))
<1>0. TypeOK /\ StreamInv
  BY DEF FramingInv
<1>1. q \in Seq(Byte) /\ w \in Nat /\ w < Len(q) /\ Len(q) = Len(reader.buf) + Len(wire) + 1
  <2>1. Len(reader.buf) \in Nat /\ Len(wire) \in Nat /\ w \in Nat
    BY <1>0 DEF TypeOK
  <2> QED BY <1>0, <2>1, AheadType
<1>2. NextByte' = NextByte /\ Sent' = Sent
  BY DEF NextByte, Sent
<1>3. Ahead' = r
  <2> DEFINE b == reader.buf
             x == NextByte
  <2>1. b \in Seq(Byte) /\ wire \in Seq(Byte) /\ x \in Byte
    BY <1>0, AheadType DEF TypeOK
  <2>2. Ahead' = Append(<<>> \o SubSeq(wire, n + 1, Len(wire)), x)
    BY <1>2 DEF Ahead
  <2>3. r = SubSeq(Append(b \o wire, x), Len(b) + n + 1, Len(b) + Len(wire) + 1)
    BY <1>1 DEF Ahead
  <2> HIDE DEF b, x, r
  <2> QED BY <2>1, <2>2, <2>3, ReadAll
<1>4. r \in Seq(Byte) /\ Len(r) = Len(q) - w /\ \A k \in 1..(Len(q) - w) : r[k] = q[k + w]
  <2> HIDE DEF q, w
  <2> QED BY <1>1, Rest
<1>5. Chained(r) /\ HeadersWhole(r)
  <2>1. Chained(q) /\ HeadersWhole(q)
    BY <1>0 DEF StreamInv
  <2> HIDE DEF q, w
  <2> QED BY <1>1, <2>1, RestOfStream
<1>6. \A k \in 1..(Len(r) - 1) : r[k][1] \in 1..Sent'
  <2> TAKE k \in 1..(Len(r) - 1)
  <2>1. k + w \in 1..(Len(q) - 1) /\ k \in 1..(Len(q) - w)
    <3> HIDE DEF q, w, r
    <3> QED BY <1>1, <1>4
  <2>2. q[k + w][1] \in 1..Sent
    BY <1>0, <2>1 DEF StreamInv
  <2> HIDE DEF q, w, r
  <2> QED BY <1>2, <1>4, <2>1, <2>2
<1>7. r[1] = q[w + 1]
  <2>1. 1 \in 1..(Len(q) - w) /\ 1 + w = w + 1
    <3> HIDE DEF q, w
    <3> QED BY <1>1
  <2> HIDE DEF q, w, r
  <2> QED BY <1>4, <2>1
<1> HIDE DEF r
<1>8. Chained(Ahead)'
  BY <1>3, <1>5 DEF Chained, Follows, FirstPart, Size, IsState
<1>9. HeadersWhole(Ahead)'
  BY <1>3, <1>5 DEF HeadersWhole
<1> QED BY <1>3, <1>6, <1>7, <1>8, <1>9 DEF StreamInv

\* What a step of the reader does: it gives up, waits for more, takes a message
\* or goes on to the document.
ReaderMoves ==
  \/ Fail
  \/ UNCHANGED <<verdict, got>> /\ StreamInv' /\ ReaderInv'
  \/ Took(reader.item) /\ reader.item <= Sent /\ (Reading' => StreamInv' /\ ReaderInv')

LEMMA NrecvStep ==
  ASSUME FramingInv, TypeOK', Intact, Nrecv
  PROVE  ReaderMoves /\ UNCHANGED <<script, writer, cut>>
<1>1. PICK n \in 1..Len(wire) :
        LET buf == reader.buf \o SubSeq(wire, 1, n) IN
        /\ Len(buf) <= reader.want
        /\ wire' = SubSeq(wire, n + 1, Len(wire))
        /\ IF Len(buf) = reader.want \/ since > OverallTimeout
           THEN NreadReturns(buf)
           ELSE /\ reader' = [reader EXCEPT !.buf = buf]
                /\ waited' = 0 /\ since' = IF since = -1 THEN 0 ELSE since
                /\ UNCHANGED <<total, verdict, got>>
  BY DEF Nrecv
<1> DEFINE buf == reader.buf \o SubSeq(wire, 1, n)
           i == reader.item
<1>2. UNCHANGED <<script, writer, cut>> /\ Reading
  BY DEF Nrecv
<1>3. TypeOK /\ StreamInv /\ ReaderInv
  BY <1>2 DEF FramingInv
<1>4. reader.buf \in Seq(Byte) /\ wire \in Seq(Byte) /\ NextByte \in Byte
  BY <1>3, AheadType DEF TypeOK
<1>5. buf \in Seq(Byte) /\ Len(buf) = Len(reader.buf) + n /\ Len(buf) \in Nat
  BY <1>4, PiecesType
<1>6. \A j, p : FirstPart(j)' = FirstPart(j) /\ Size(j, p)' = Size(j, p)
  BY <1>2 DEF FirstPart, Size, IsState
<1>7. NextByte' = NextByte /\ Sent' = Sent
  BY <1>2 DEF NextByte, Sent
<1>8. CASE ~(Len(buf) = reader.want \/ since > OverallTimeout)
  <2>1. reader' = [reader EXCEPT !.buf = buf] /\ UNCHANGED <<verdict, got>>
    BY <1>1, <1>8
  <2> HIDE DEF buf
  <2>2. /\ reader'.item = i /\ reader'.part = reader.part /\ reader'.want = reader.want
        /\ reader'.buf = buf
    BY <1>3, <2>1 DEF TypeOK
  <2>3. Ahead' = Ahead
    <3>1. Ahead' = Append(buf \o SubSeq(wire, n + 1, Len(wire)), NextByte)
      BY <1>1, <1>7, <2>2 DEF Ahead
    <3> DEFINE b == reader.buf
               u == SubSeq(wire, 1, n)
               v == SubSeq(wire, n + 1, Len(wire))
    <3>2. (b \o u) \o v = b \o wire
      <4>1. b \in Seq(Byte) /\ u \in Seq(Byte) /\ v \in Seq(Byte) /\ wire \in Seq(Byte)
            /\ wire = u \o v
        BY <1>4, TwoPieces
      <4> HIDE DEF b, u, v
      <4> QED BY ONLY <4>1, ConcatThree
    <3> QED BY <3>1, <3>2 DEF Ahead, buf
  <2>4. Len(buf) < reader.want
    <3>1. Len(buf) <= reader.want /\ reader.want \in Nat
      BY <1>1, <1>3 DEF buf, TypeOK
    <3> QED BY <1>5, <1>8, <3>1
  <2>5. ReaderInv'
    BY <1>2, <1>3, <1>6, <2>1, <2>2, <2>3, <2>4 DEF ReaderInv
  <2>6. Chained(Ahead)'
    BY <1>2, <1>3, <2>3 DEF StreamInv, Chained, Follows, FirstPart, Size, IsState
  <2>7. HeadersWhole(Ahead)'
    BY <1>2, <1>3, <2>3 DEF StreamInv, HeadersWhole
  <2>8. StreamInv'
    BY <1>3, <1>7, <2>3, <2>6, <2>7 DEF StreamInv
  <2> QED BY <1>2, <2>1, <2>5, <2>8 DEF ReaderMoves
<1>9. CASE NreadReturns(buf) /\ Len(buf) # reader.want
  BY <1>2, <1>9, ShortReturn DEF ReaderMoves
<1>10. CASE NreadReturns(buf) /\ Len(buf) = reader.want
  <2>1. reader.want < Len(Ahead) /\ \A k \in 1..reader.want : buf[k] = Ahead[k]
    <3> DEFINE b == reader.buf
               x == NextByte
    <3>1. Len(Ahead) = Len(b) + Len(wire) + 1 /\ Len(b) \in Nat
      BY <1>3, <1>4, AheadType
    <3>2. \A k \in 1..(Len(b) + n) : (b \o SubSeq(wire, 1, n))[k] = Append(b \o wire, x)[k]
      <4> HIDE DEF b, x
      <4> QED BY <1>4, ReadAll DEF b, x
    <3>3. reader.want = Len(b) + n
      BY <1>5, <1>10
    <3>4. Len(wire) \in Nat
      BY <1>4
    <3>5. reader.want < Len(Ahead)
      <4> HIDE DEF b
      <4> QED BY <3>1, <3>3, <3>4
    <3> QED BY <3>2, <3>3, <3>5 DEF Ahead
  <2> HIDE DEF buf
  <2>2. FullRead(buf, Ahead[reader.want + 1]) /\ i <= Sent
    BY <1>2, <1>5, <1>10, <2>1, FullReturn
  <2>3. ASSUME reader'.buf = <<>> PROVE StreamInv' /\ Ahead'[1] = Ahead[reader.want + 1]
    <3>1. Len(reader.buf) + n = reader.want /\ wire' = SubSeq(wire, n + 1, Len(wire))
      BY <1>1, <1>5, <1>10 DEF buf
    <3> QED BY <1>2, <2>3, <3>1, NewRead
  <2>4. script \in Seq(Nat) /\ i \in Nat \ {0} /\ Len(script) \in Nat /\ got \in Seq(Nat)
    <3>1. script \in Seq(Nat) /\ got \in Seq(Nat) /\ i \in Nat
      BY <1>3, Constants DEF TypeOK
    <3>2. i >= 1
      BY <1>3 DEF ReaderInv
    <3> QED BY <3>1, <3>2
  <2>5. CASE Fail
    BY <1>2, <2>5 DEF ReaderMoves
  <2>6. CASE /\ reader.part = "header" /\ i <= Len(script) /\ script[i] > 0
             /\ StartRead(i, "body", script[i]) /\ UNCHANGED <<verdict, got>>
             /\ Ahead[reader.want + 1] = <<i, "body", 1>>
    <3>1. /\ reader'.item = i /\ reader'.part = "body" /\ reader'.want = script[i]
          /\ reader'.buf = <<>> /\ got' = got /\ verdict' = verdict
      BY <2>6 DEF StartRead
    <3>2. StreamInv' /\ Ahead'[1] = <<i, "body", 1>>
      BY <2>3, <2>6, <3>1
    <3>3. Len(reader'.buf) < script[i] /\ Len(got) = i - 1
      BY <1>3, <2>6, <3>1 DEF ReaderInv
    <3>4. ReaderInv'
      BY <1>2, <2>4, <2>6, <3>1, <3>2, <3>3 DEF ReaderInv
    <3> QED BY <1>2, <3>1, <3>2, <3>4 DEF ReaderMoves
  <2>7. CASE /\ Took(i) /\ i <= Len(script)
             /\ Ahead[reader.want + 1] = <<i + 1, FirstPart(i + 1), 1>>
    <3>1. CASE i = Len(script)
      <4>1. ~ Reading'
        BY <2>7, <3>1 DEF Took, Reading
      <4> QED BY <1>2, <2>2, <2>7, <4>1 DEF ReaderMoves
    <3>2. CASE i # Len(script)
      <4> DEFINE j == i + 1
      <4>1. StartRead(j, FirstPart(j), Size(j, FirstPart(j))) /\ got' = Append(got, i)
        BY <2>7, <3>2 DEF Took
      <4>2. /\ reader'.item = j /\ reader'.part = FirstPart(j) /\ reader'.want = Size(j, FirstPart(j))
            /\ reader'.buf = <<>>
        BY <4>1 DEF StartRead
      <4>3. StreamInv' /\ Ahead'[1] = <<j, FirstPart(j), 1>>
        BY <2>3, <2>7, <4>2
      <4>4. Len(got') = i /\ Len(got) = i - 1
        BY <1>3, <2>4, <4>1 DEF ReaderInv
      <4>5. FirstPart(j) # "body" /\ Size(j, FirstPart(j)) \in Nat \ {0}
        BY Constants DEF FirstPart, Size
      <4>6. j \in Nat /\ j >= 1 /\ j - 1 = i /\ Len(<<>>) = 0
        BY <2>4
      <4> HIDE DEF j
      <4>7. ReaderInv'
        BY <1>6, <4>2, <4>3, <4>4, <4>5, <4>6 DEF ReaderInv
      <4> QED BY <1>2, <2>2, <2>7, <4>3, <4>7 DEF ReaderMoves
    <3> QED BY <3>1, <3>2
  <2> QED BY <2>2, <2>5, <2>6, <2>7 DEF FullRead
<1> QED BY <1>1, <1>8, <1>9, <1>10

\* A return at a timeout or at the end of the connection is a short one.
LEMMA EndsStep ==
  ASSUME FramingInv, Intact, Nrecv_ends
  PROVE  Fail /\ UNCHANGED <<script, writer, cut>>
<1>1. Reading /\ NreadReturns(reader.buf) /\ UNCHANGED <<script, writer, cut>>
  BY DEF Nrecv_ends
<1>2. Len(reader.buf) # reader.want
  <2>1. ReaderInv /\ TypeOK
    BY <1>1 DEF FramingInv
  <2>2. Len(reader.buf) \in Nat /\ reader.want \in Nat /\ Len(reader.buf) < reader.want
    BY <2>1 DEF ReaderInv, TypeOK
  <2> QED BY <2>2
<1> QED BY <1>1, <1>2, ShortReturn

\* Where a length was cut short the reader may take anything, but it goes on
\* message by message.
TornMoves ==
  \/ Fail
  \/ UNCHANGED <<verdict, got>> /\ reader'.item = reader.item
  \/ \E m \in Nat : Took(m)

LEMMA TornStep ==
  ASSUME FramingInv, Nrecv \/ Nrecv_ends
  PROVE  TornMoves /\ UNCHANGED <<script, writer, cut>> /\ Reading
<1>0. TypeOK
  BY DEF FramingInv
<1>1. ASSUME NEW buf \in Seq(Byte), NreadReturns(buf) PROVE TornMoves
  <2>1. CASE \E want \in Nat \ {0} : StartRead(reader.item, "body", want) /\ UNCHANGED <<verdict, got>>
    BY <2>1 DEF TornMoves, StartRead
  <2> QED BY <1>0, <1>1, <2>1, ReturnCases DEF TornMoves
<1>2. CASE Nrecv_ends
  <2>1. reader.buf \in Seq(Byte)
    BY <1>0 DEF TypeOK
  <2> QED BY <1>1, <1>2, <2>1 DEF Nrecv_ends
<1>3. CASE Nrecv
  <2>1. PICK n \in 1..Len(wire) :
          LET buf == reader.buf \o SubSeq(wire, 1, n) IN
          IF Len(buf) = reader.want \/ since > OverallTimeout
          THEN NreadReturns(buf)
          ELSE reader' = [reader EXCEPT !.buf = buf] /\ UNCHANGED <<verdict, got>>
    BY <1>3 DEF Nrecv
  <2> DEFINE buf == reader.buf \o SubSeq(wire, 1, n)
  <2>2. buf \in Seq(Byte)
    <3>1. reader.buf \in Seq(Byte) /\ wire \in Seq(Byte)
      BY <1>0 DEF TypeOK
    <3> QED BY <3>1, PiecesType
  <2>3. NreadReturns(buf) \/ (reader' = [reader EXCEPT !.buf = buf] /\ UNCHANGED <<verdict, got>>)
    BY <2>1
  <2> HIDE DEF buf
  <2>4. ASSUME reader' = [reader EXCEPT !.buf = buf], UNCHANGED <<verdict, got>>
        PROVE  TornMoves
    <3>1. reader \in [item : Nat, part : Parts, want : Nat \ {0}, buf : Seq(Byte)]
      BY <1>0 DEF TypeOK
    <3>2. reader'.item = reader.item
      BY <2>4, <3>1
    <3>3. UNCHANGED <<verdict, got>>
      BY <2>4
    <3> QED BY <3>2, <3>3 DEF TornMoves
  <2>5. TornMoves
    BY <1>1, <2>2, <2>3, <2>4
  <2> QED BY <1>3, <2>5 DEF Nrecv
<1> QED BY <1>2, <1>3

\* Taking a message moves the reader on by one.
LEMMA TookMoves ==
  ASSUME FramingInv, Reading, NEW m \in Nat, Took(m), Reading'
  PROVE  GotInv' /\ reader'.item = reader.item + 1
<1>1. reader.item \in Nat /\ got \in Seq(Nat) /\ GotInv
  BY DEF FramingInv, TypeOK
<1>2. got' = Append(got, m)
  BY DEF Took
<1>3. reader'.item = reader.item + 1
  BY DEF Took, StartRead, Reading
<1>4. Len(got') = Len(got) + 1
  BY <1>1, <1>2
<1> QED BY <1>1, <1>3, <1>4 DEF GotInv

LEMMA FramingInvStep ==
  ASSUME FramingInv, TypeOK', [Next]_vars
  PROVE  FramingInv'
<1>0. TypeOK /\ WriterInv
  BY DEF FramingInv
<1>1. ASSUME UNCHANGED <<script, writer>> PROVE WriterInv'
  BY <1>0, <1>1 DEF WriterInv, FirstPart, Size, IsState
<1>2. ASSUME UNCHANGED <<script, writer, cut, wire, reader, got, verdict>> PROVE FramingInv'
  <2>1. Reading' = Reading /\ Intact' = Intact /\ GotInv' = GotInv
    BY <1>2 DEF Reading, Intact, GotInv
  <2>2. StreamInv => StreamInv'
    <3>1. Ahead' = Ahead /\ Sent' = Sent
      BY <1>2 DEF Ahead, NextByte, Sent
    <3>2. Chained(Ahead) => Chained(Ahead)'
      BY <1>2, <3>1 DEF Chained, Follows, FirstPart, Size, IsState
    <3>3. HeadersWhole(Ahead) => HeadersWhole(Ahead)'
      BY <1>2, <3>1 DEF HeadersWhole
    <3> QED BY <3>1, <3>2, <3>3 DEF StreamInv
  <2>3. ReaderInv => ReaderInv'
    BY <1>2 DEF ReaderInv, FirstPart, Size, IsState, Ahead, NextByte
  <2> QED BY <1>1, <1>2, <2>1, <2>2, <2>3 DEF FramingInv
<1>3. ASSUME Fail, UNCHANGED <<script, writer>> PROVE FramingInv'
  <2>1. ~ Reading'
    BY <1>3 DEF Fail, Reading
  <2> QED BY <1>1, <1>3, <2>1 DEF FramingInv
<1>4. CASE Nwrite
  <2>1. Reading' = Reading /\ Intact' = Intact /\ GotInv' = GotInv
    BY <1>4 DEF Nwrite, Reading, Intact, GotInv
  <2> QED BY <1>4, <2>1, NwriteStep DEF FramingInv
<1>5. CASE Nwrite_cut_short
  <2>1. Reading' = Reading /\ GotInv' = GotInv
    BY <1>5 DEF Nwrite_cut_short, Reading, GotInv
  <2> QED BY <1>5, <2>1, CutShortStep DEF FramingInv
<1>6. CASE writer_closes
  BY <1>2, <1>6 DEF writer_closes
<1>7. ASSUME Intact, Nrecv PROVE FramingInv'
  <2>1. ReaderMoves /\ UNCHANGED <<script, writer, cut>>
    BY <1>7, NrecvStep
  <2>2. Fail => FramingInv'
    BY <1>3, <2>1
  <2>3. (Reading' => StreamInv' /\ ReaderInv') => FramingInv'
    BY <1>1, <2>1 DEF FramingInv, ReaderInv, GotInv
  <2> QED BY <2>1, <2>2, <2>3 DEF ReaderMoves
<1>8. ASSUME Intact, Nrecv_ends PROVE FramingInv'
  BY <1>3, <1>8, EndsStep
<1>9. ASSUME ~ Intact, Nrecv \/ Nrecv_ends PROVE FramingInv'
  <2>1. TornMoves /\ UNCHANGED <<script, writer, cut>> /\ Reading
    BY <1>9, TornStep
  <2>2. PICK c \in cut : ~(reader.item < c)
    BY <1>9 DEF Intact
  <2>3. c \in Nat /\ reader.item \in Nat
    BY <1>0 DEF TypeOK
  <2>4. CASE Fail
    BY <1>3, <2>1, <2>4
  <2>5. CASE UNCHANGED <<verdict, got>> /\ reader'.item = reader.item
    <3>1. GotInv'
      BY <2>1, <2>5 DEF FramingInv, GotInv
    <3>2. ~ Intact'
      BY <2>1, <2>2, <2>5 DEF Intact
    <3> QED BY <1>1, <2>1, <3>1, <3>2 DEF FramingInv
  <2>6. CASE \E m \in Nat : Took(m)
    <3>1. Reading' => GotInv' /\ reader'.item = reader.item + 1
      BY <2>1, <2>6, TookMoves
    <3>2. Reading' => ~ Intact'
      <4>1. ~(reader.item + 1 < c)
        BY <2>2, <2>3
      <4> QED BY <2>1, <2>2, <3>1, <4>1 DEF Intact
    <3> QED BY <1>1, <2>1, <3>1, <3>2 DEF FramingInv
  <2> QED BY <2>1, <2>4, <2>5, <2>6 DEF TornMoves
<1>10. CASE Nrecv_error
  BY <1>3, <1>10 DEF Nrecv_error
<1>11. CASE tick
  BY <1>2, <1>11 DEF tick
<1>12. CASE UNCHANGED vars
  BY <1>2, <1>12 DEF vars
<1> QED BY <1>4, <1>5, <1>6, <1>7, <1>8, <1>9, <1>10, <1>11, <1>12 DEF Next

\* The reader's place in the stream, up to the first document whose length was cut
\* short: the bytes that it reads next are those of the part that it waits for.
THEOREM FramingInvariant == Spec => []FramingInv
<1>1. FramingInv /\ TypeOK' /\ [Next]_vars => FramingInv'
  BY FramingInvStep
<1>2. TimeSafe => TypeOK
  BY DEF TimeSafe
<1> QED BY <1>1, <1>2, FramingInvInit, FramingTypes, PTL DEF Spec

-----------------------------------------------------------------------------
(***************************************************************************)
(* The refinement.                                                         *)
(***************************************************************************)

LEMMA ChannelSent ==
  ASSUME FramingInv
  PROVE  Sent \in Nat /\ Sent <= Len(script) /\ Len(script) \in Nat
<1>1. writer.item \in Nat \ {0} /\ writer.off \in Nat /\ Len(script) \in Nat
  BY Constants DEF FramingInv, TypeOK
<1> QED BY <1>1 DEF FramingInv, WriterInv, Sent

\* Nwrite begins at most one message.
LEMMA NwriteSends ==
  ASSUME FramingInv, FramingInv', Nwrite
  PROVE  Sent' = Sent \/ (Sent' = Sent + 1 /\ Sent < Len(script))
<1> DEFINE i == writer.item
           size == Size(i, writer.part)
<1>0. TypeOK /\ WriterInv /\ i <= Len(script)
  BY DEF FramingInv, Nwrite, Writing
<1>1. i \in Nat \ {0} /\ writer.off \in Nat
  BY <1>0 DEF TypeOK
<1>2. PICK n \in 1..(size - writer.off) :
        writer' = IF writer.off + n = size THEN After(writer) ELSE [writer EXCEPT !.off = @ + n]
  BY DEF Nwrite
<1>3. writer'.item = i \/ (writer'.item = i + 1 /\ writer'.off = 0 /\ writer'.part # "body")
  <2>1. CASE writer.off + n = size
    <3>1. writer' = After(writer)
      BY <1>2, <2>1
    <3> QED BY <3>1 DEF After, FirstPart
  <2>2. CASE writer.off + n # size
    <3>1. writer' = [writer EXCEPT !.off = @ + n]
      BY <1>2, <2>2
    <3> QED BY <1>0, <3>1 DEF TypeOK
  <2> QED BY <2>1, <2>2
<1>4. Sent' >= Sent
  BY NwriteStep DEF FramingInv
<1>5. Len(script) \in Nat
  BY <1>0, Constants DEF TypeOK
<1> QED BY <1>0, <1>1, <1>3, <1>4, <1>5 DEF Sent

\* Every step of the framing is a step of the channel, or leaves it alone.
LEMMA ChannelStep ==
  ASSUME FramingInv, FramingInv', [Next]_vars
  PROVE  Channel!Next \/ UNCHANGED <<script, Sent, cut, got, verdict = "failed">>
<1>0. TypeOK' /\ TypeOK
  BY DEF FramingInv
<1>1. ASSUME Fail, Reading, UNCHANGED <<script, writer, cut>>
      PROVE  Channel!GiveUp
  BY <1>1 DEF Channel!GiveUp, Fail, Reading
<1>2. ASSUME UNCHANGED <<script, writer, cut, got, verdict>>
      PROVE  UNCHANGED <<script, Sent, cut, got, verdict = "failed">>
  BY <1>2 DEF Sent
<1>3. CASE Nwrite
  <2>1. UNCHANGED <<script, cut, got, verdict>>
    BY <1>3 DEF Nwrite
  <2>2. CASE Sent' = Sent
    BY <2>1, <2>2
  <2>3. CASE Sent' = Sent + 1 /\ Sent < Len(script)
    BY <2>1, <2>3 DEF Channel!Next, Channel!Send, Sent
  <2> QED BY <1>3, <2>2, <2>3, NwriteSends
<1>4. CASE Nwrite_cut_short
  <2>1. UNCHANGED <<script, Sent, got, verdict>>
    BY <1>0, <1>4, CutShortStep DEF Nwrite_cut_short
  <2>2. cut' = cut \/ cut' = cut \cup {Sent}
    BY <1>0, <1>4, CutShortStep
  <2>3. CASE cut' = cut \cup {Sent}
    BY <2>1, <2>3 DEF Channel!Next, Channel!Tear, Sent
  <2> QED BY <2>1, <2>2, <2>3
<1>5. CASE writer_closes
  BY <1>2, <1>5 DEF writer_closes
<1>6. ASSUME Reading PROVE Channel!Intact <=> Intact
  <2>0. reader.item \in Nat /\ got \in Seq(Nat)
    BY <1>0 DEF TypeOK
  <2>1. reader.item = Len(got) + 1
    <3>1. GotInv
      BY <1>6 DEF FramingInv
    <3>2. Len(got) \in Nat
      BY <2>0
    <3> QED BY <2>0, <3>1, <3>2 DEF GotInv
  <2> QED BY <2>1 DEF Channel!Intact, Intact
<1>7. ASSUME Intact, Nrecv
      PROVE  Channel!Next \/ UNCHANGED <<script, Sent, cut, got, verdict = "failed">>
  <2>1. ReaderMoves /\ UNCHANGED <<script, writer, cut>> /\ Reading
    BY <1>0, <1>7, NrecvStep DEF Nrecv
  <2>2. CASE Fail
    BY <1>1, <2>1, <2>2 DEF Channel!Next
  <2>3. CASE UNCHANGED <<verdict, got>>
    BY <1>2, <2>1, <2>3
  <2>4. CASE Took(reader.item) /\ reader.item <= Sent
    <3>1. Len(got) = reader.item - 1 /\ reader.item \in Nat
      BY <1>0, <2>1 DEF FramingInv, GotInv, TypeOK
    <3>2. got' = Append(got, reader.item) /\ (verdict' = verdict \/ verdict' = "done")
      BY <2>4 DEF Took
    <3>3. Sent' = Sent /\ Len(got) < Sent /\ reader.item = Len(got) + 1
      BY ChannelSent, <2>1, <2>4, <3>1 DEF Sent
    <3>4. verdict = "reading" /\ Channel!Intact
      BY <1>6, <1>7, <2>1 DEF Reading
    <3> QED BY <2>1, <3>2, <3>3, <3>4 DEF Channel!Next, Channel!Take, Sent
  <2> QED BY <2>1, <2>2, <2>3, <2>4 DEF ReaderMoves
<1>8. ASSUME Intact, Nrecv_ends PROVE Channel!Next
  BY <1>1, <1>8, EndsStep DEF Nrecv_ends, Channel!Next
<1>9. ASSUME ~ Intact, Nrecv \/ Nrecv_ends
      PROVE  Channel!Next \/ UNCHANGED <<script, Sent, cut, got, verdict = "failed">>
  <2>1. TornMoves /\ UNCHANGED <<script, writer, cut>> /\ Reading
    BY <1>9, TornStep
  <2>2. CASE Fail
    BY <1>1, <2>1, <2>2 DEF Channel!Next
  <2>3. CASE UNCHANGED <<verdict, got>>
    BY <1>2, <2>1, <2>3
  <2>4. ASSUME NEW m \in Nat, Took(m) PROVE Channel!TakeTorn
    <3>1. got' = Append(got, m) /\ (verdict' = verdict \/ verdict' = "done")
      BY <2>4 DEF Took
    <3>2. got \in Seq(Nat)
      BY <1>0 DEF TypeOK
    <3>3. Len(got') = Len(got) + 1 /\ SubSeq(got', 1, Len(got)) = got
      BY <3>1, <3>2
    <3>4. verdict = "reading" /\ ~ Channel!Intact
      BY <1>6, <1>9, <2>1 DEF Reading
    <3> QED BY <2>1, <3>1, <3>3, <3>4 DEF Channel!TakeTorn, Sent
  <2> QED BY <2>1, <2>2, <2>3, <2>4 DEF TornMoves, Channel!Next
<1>10. CASE Nrecv_error
  BY <1>1, <1>10 DEF Nrecv_error, Channel!Next
<1>11. CASE tick
  BY <1>2, <1>11 DEF tick
<1>12. CASE UNCHANGED vars
  BY <1>2, <1>12 DEF vars
<1> QED BY <1>3, <1>4, <1>5, <1>7, <1>8, <1>9, <1>10, <1>11, <1>12 DEF Next

\* JSON_read and Nread over the bytes of JSON_write and Nwrite implement the
\* channel of whole messages, for every script, size and timeout and wherever a
\* write is cut short: a cut document does no harm, a cut length none to the
\* messages before it.
THEOREM MessagesAreWhole == Spec => WholeMessages
<1>1. Init => Channel!Init
  BY DEF Init, Channel!Init, FirstPart
<1>2. FramingInv /\ FramingInv' /\ [Next]_vars
        => [Channel!Next]_<<script, IF writer.off > 0 \/ writer.part = "body"
                                    THEN writer.item ELSE writer.item - 1, cut, got,
                            verdict = "failed">>
  BY ChannelStep DEF Sent
<1> QED BY <1>1, <1>2, FramingInvariant, PTL DEF Spec, WholeMessages, Channel!Spec
=============================================================================

---------------------------- MODULE TimersProofs ----------------------------
(***************************************************************************)
(* The list of timers stays sorted, the handles name exactly the active    *)
(* timers, and the reporter callback keeps up with the stats callback: for *)
(* any duration, omit period, interval, clock and number of tests.         *)
(*                                                                         *)
(* A list is reasoned about as an order: what list_add, list_remove and    *)
(* tmr_cancel do is stated by which timers a list has and which comes      *)
(* before which.  The heart of the argument is the rhythm of the stats and *)
(* the reporter timer, side by side and due together (Even) except between *)
(* their two firings (Odd).                                                *)
(***************************************************************************)
EXTENDS Timers, TLAPS, WellFoundedInduction

-----------------------------------------------------------------------------
(* A list of timers and its order.                                         *)

\* L is a list of timers that holds none twice.
IsList(L) == L \in Seq(Slots) /\ \A i, j \in 1 .. Len(L) : L[i] = L[j] => i = j

\* Timer x is in L; it comes before y; y comes right after it.
Has(L, x) == \E i \in 1 .. Len(L) : L[i] = x
Before(L, x, y) == \E i, j \in 1 .. Len(L) : i < j /\ L[i] = x /\ L[j] = y
Adjacent(L, x, y) ==
  /\ Before(L, x, y)
  /\ \A z \in Slots : ~(Before(L, x, z) /\ Before(L, z, y))

\* L is in the order of the times due; what comes after x is later than x.
Sorted(L, due) == \A x, y \in Slots : Before(L, x, y) => due[x] <= due[y]
LastOfItsTime(L, due, x) == \A y \in Slots : Before(L, x, y) => due[x] < due[y]

-----------------------------------------------------------------------------
(* The inductive invariant.                                                *)

\* The two lists hold no Timer struct twice, and the active one is sorted.
ListsSound ==
  /\ IsList(timers)
  /\ IsList(free_timers)
  /\ \A x \in Slots : ~(Has(timers, x) /\ Has(free_timers, x))
  /\ Sorted(timers, time)

\* A handle names an active timer of its kind, and an active timer is named by the
\* handle of its kind.
HandlesSound ==
  /\ \A k \in Kinds : Armed(k) => Has(timers, handle[k]) /\ proc[handle[k]] = k
  /\ \A x \in Slots : Has(timers, x) => handle[proc[x]] = x

\* Which handles are set where the main loop is; the timer tmr_run is at is active.
Phases ==
  /\ pc = "idle"  => \A k \in Kinds : ~Armed(k)
  /\ pc = "armed" => /\ ~Armed("omit_timer")
                     /\ Armed("reporter_timer") => Armed("stats_timer")
                     /\ Armed("stats_timer") => Armed("timer")
  /\ pc \in {"loop", "run"} => Armed("stats_timer") /\ Armed("reporter_timer")
  /\ pc = "run" => t = NULL \/ Has(timers, t)
  /\ pc # "idle" => tests < MaxTests

\* Between two rounds the stats timer is right before the reporter timer, due at the
\* same time, and tmr_run is not at the reporter timer.
Even ==
  /\ Adjacent(timers, handle["stats_timer"], handle["reporter_timer"])
  /\ time[handle["stats_timer"]] = time[handle["reporter_timer"]]
  /\ pc = "run" => t # handle["reporter_timer"]
  /\ ~done => reports = stats

\* After the stats timer has fired tmr_run is at the reporter timer, which is due,
\* and the stats timer waits after all that is due at the time it has now.
Odd ==
  /\ pc = "run"
  /\ t = handle["reporter_timer"]
  /\ time[t] <= now
  /\ time[handle["stats_timer"]] = time[t] + Interval
  /\ LastOfItsTime(timers, time, handle["stats_timer"])
  /\ ~done => reports = stats - 1

Rhythm ==
  /\ reports \in {stats - 1, stats}
  /\ pc = "armed" => reports = stats
  /\ pc = "armed" /\ Armed("stats_timer") /\ ~Armed("reporter_timer") =>
       /\ time[handle["stats_timer"]] = clock + Interval
       /\ LastOfItsTime(timers, time, handle["stats_timer"])
  /\ pc \in {"armed", "loop", "run"} /\ Armed("reporter_timer") => Even \/ Odd

TimersInv == TypeOK /\ ListsSound /\ HandlesSound /\ Phases /\ Rhythm

-----------------------------------------------------------------------------
\* Min of a set of natural numbers is its least element.
LEMMA LeastNat ==
  ASSUME NEW T, T \subseteq Nat, T # {}
  PROVE  Min(T) \in T /\ \A y \in T : Min(T) <= y
<1> DEFINE R == OpToRel(<, Nat)
<1>1. IsWellFoundedOn(R, Nat)
  BY NatLessThanWellFounded
<1>2. \A a, b \in Nat : a < b => <<a, b>> \in R
  BY DEF OpToRel
<1> HIDE DEF R
<1>3. PICK x \in T : \A y \in T : ~ (<<y, x>> \in R)
  BY <1>1, WFMin
<1>4. \A y \in T : x <= y
  <2> SUFFICES ASSUME NEW y \in T PROVE x <= y
    OBVIOUS
  <2>1. x \in Nat /\ y \in Nat
    OBVIOUS
  <2>2. ~ (y < x)
    BY <1>2, <1>3, <2>1
  <2> QED BY <2>1, <2>2
<1> QED BY <1>4 DEF Min

\* Where the first timer after s goes.
Place(L, due, s) ==
  LET n == SelectInSeq(L, LAMBDA x : due[s] < due[x])
  IN  IF n = 0 THEN Len(L) + 1 ELSE n

\* Up to the place of s the timers are not later than s, the one at the place is.
LEMMA PlaceIs ==
  ASSUME NEW L \in Seq(Slots), NEW due \in [Slots -> Nat], NEW s \in Slots
  PROVE  /\ Place(L, due, s) \in 1 .. (Len(L) + 1)
         /\ \A i \in 1 .. (Place(L, due, s) - 1) : due[L[i]] <= due[s]
         /\ Place(L, due, s) <= Len(L) => due[s] < due[L[Place(L, due, s)]]
<1> DEFINE I == {i \in 1 .. Len(L) : due[s] < due[L[i]]}
<1>1. Place(L, due, s) = LET n == IF I # {} THEN Min(I) ELSE 0 IN IF n = 0 THEN Len(L) + 1 ELSE n
  BY DEF Place, SelectInSeq
<1>2. \A i \in 1 .. Len(L) : i \notin I => due[L[i]] <= due[s]
  OBVIOUS
<1>3. \A i \in I : i \in 1 .. Len(L) /\ due[s] < due[L[i]]
  OBVIOUS
<1>4. I \subseteq Nat
  OBVIOUS
<1> HIDE DEF I
<1>5. CASE I = {}
  <2>1. Place(L, due, s) = Len(L) + 1
    BY <1>1, <1>5
  <2> QED BY <2>1, <1>2, <1>5
<1>6. CASE I # {}
  <2>1. Min(I) \in I /\ \A y \in I : Min(I) <= y
    BY <1>4, <1>6, LeastNat
  <2>2. Min(I) \in 1 .. Len(L)
    BY <1>3, <2>1
  <2>3. Place(L, due, s) = Min(I)
    BY <1>1, <1>6, <2>2
  <2>4. \A i \in 1 .. (Min(I) - 1) : i \notin I /\ i \in 1 .. Len(L)
    BY <2>1, <2>2
  <2> QED BY <2>1, <2>2, <2>3, <2>4, <1>2, <1>3
<1> QED BY <1>5, <1>6


\* Where s is in L.
Position(L, s) == SelectInSeq(L, LAMBDA x : x = s)

\* SelectInSeq finds a timer that is in the list.
LEMMA PositionIs ==
  ASSUME NEW L, IsList(L), NEW s, Has(L, s)
  PROVE  Position(L, s) \in 1 .. Len(L) /\ L[Position(L, s)] = s
<1> DEFINE I == {i \in 1 .. Len(L) : L[i] = s}
<1>1. I \subseteq Nat /\ I # {}
  BY DEF IsList, Has
<1>2. \A i \in I : i \in 1 .. Len(L) /\ L[i] = s
  OBVIOUS
<1>3. Position(L, s) = IF I # {} THEN Min(I) ELSE 0
  BY DEF Position, SelectInSeq
<1> HIDE DEF I
<1> QED BY <1>1, <1>2, <1>3, LeastNat

\* t->next is the timer right after t, or NULL when nothing comes after t.
LEMMA SuccessorIs ==
  ASSUME NEW L, IsList(L), NEW s, Has(L, s), NULL \notin Slots
  PROVE  \/ Successor(L, s) = NULL /\ \A y : ~Before(L, s, y)
         \/ /\ Successor(L, s) \in Slots
            /\ Before(L, s, Successor(L, s))
            /\ \A z : ~(Before(L, s, z) /\ Before(L, z, Successor(L, s)))
<1> DEFINE n == Position(L, s)
<1>1. n \in 1 .. Len(L) /\ L[n] = s
  BY PositionIs
<1>2. Successor(L, s) = IF n = Len(L) THEN NULL ELSE L[n + 1]
  BY DEF Successor, Position, SelectInSeq
<1> HIDE DEF n
<1>3. /\ L \in Seq(Slots) /\ Len(L) \in Nat
      /\ \A i, j \in 1 .. Len(L) : L[i] = L[j] => i = j
  BY DEF IsList
<1>4. CASE n = Len(L)
  <2>1. \A y : ~Before(L, s, y)
    BY <1>1, <1>3, <1>4 DEF Before
  <2> QED BY <1>2, <1>4, <2>1
<1>5. CASE n # Len(L)
  <2>1. n + 1 \in 1 .. Len(L) /\ L[n + 1] \in Slots
    BY <1>1, <1>3, <1>5
  <2>2. Before(L, s, L[n + 1])
    BY <1>1, <1>3, <2>1 DEF Before
  <2>3. ASSUME NEW z, Before(L, s, z), Before(L, z, L[n + 1]) PROVE FALSE
    <3>1. PICK i, j \in 1 .. Len(L) : i < j /\ L[i] = s /\ L[j] = z
      BY <2>3 DEF Before
    <3>2. PICK k, m \in 1 .. Len(L) : k < m /\ L[k] = z /\ L[m] = L[n + 1]
      BY <2>3 DEF Before
    <3>3. i = n /\ m = n + 1 /\ j = k
      BY <1>1, <1>3, <2>1, <3>1, <3>2
    <3> QED BY <1>3, <3>1, <3>2, <3>3
  <2> QED BY <1>2, <1>5, <2>1, <2>2, <2>3
<1> QED BY <1>4, <1>5

\* A list orders its timers.
LEMMA OrderIs ==
  ASSUME NEW L, IsList(L)
  PROVE  /\ \A x, y : Before(L, x, y) => Has(L, x) /\ Has(L, y) /\ x # y
         /\ \A x, y : Has(L, x) /\ Has(L, y) /\ x # y => Before(L, x, y) \/ Before(L, y, x)
         /\ \A x, y : Before(L, x, y) => ~Before(L, y, x)
         /\ \A x : Has(L, x) => x \in Slots
<1>1. /\ L \in Seq(Slots) /\ Len(L) \in Nat
      /\ \A i, j \in 1 .. Len(L) : L[i] = L[j] => i = j
  BY DEF IsList
<1>2. \A x, y : Before(L, x, y) => Has(L, x) /\ Has(L, y) /\ x # y
  BY <1>1 DEF Before, Has
<1>3. \A x, y : Has(L, x) /\ Has(L, y) /\ x # y => Before(L, x, y) \/ Before(L, y, x)
  <2> SUFFICES ASSUME NEW x, NEW y, Has(L, x), Has(L, y), x # y
               PROVE  Before(L, x, y) \/ Before(L, y, x)
    OBVIOUS
  <2>1. PICK i \in 1 .. Len(L) : L[i] = x
    BY DEF Has
  <2>2. PICK j \in 1 .. Len(L) : L[j] = y
    BY DEF Has
  <2>3. i < j \/ j < i
    BY <1>1, <2>1, <2>2
  <2> QED BY <2>1, <2>2, <2>3 DEF Before
<1>4. \A x, y : Before(L, x, y) => ~Before(L, y, x)
  <2> SUFFICES ASSUME NEW x, NEW y, Before(L, x, y), Before(L, y, x) PROVE FALSE
    OBVIOUS
  <2>1. PICK i, j \in 1 .. Len(L) : i < j /\ L[i] = x /\ L[j] = y
    BY DEF Before
  <2>2. PICK k, m \in 1 .. Len(L) : k < m /\ L[k] = y /\ L[m] = x
    BY DEF Before
  <2>3. i = m /\ j = k
    BY <1>1, <2>1, <2>2
  <2> QED BY <1>1, <2>1, <2>2, <2>3
<1>5. \A x : Has(L, x) => x \in Slots
  BY <1>1 DEF Has
<1> QED BY <1>2, <1>3, <1>4, <1>5

\* The elements of a sequence after the removal of the i-th.
LEMMA RemoveAtIs ==
  ASSUME NEW S, NEW L \in Seq(S), NEW i \in 1..Len(L)
  PROVE  /\ RemoveAt(L, i) \in Seq(S)
         /\ Len(RemoveAt(L, i)) = Len(L) - 1
         /\ \A k \in 1..(i - 1) : RemoveAt(L, i)[k] = L[k]
         /\ \A k \in i..(Len(L) - 1) : RemoveAt(L, i)[k] = L[k + 1]
<1> DEFINE a == SubSeq(L, 1, i - 1)
           b == SubSeq(L, i + 1, Len(L))
<1>1. a \in Seq(S) /\ Len(a) = i - 1 /\ \A k \in 1..(i - 1) : a[k] = L[k]
  OBVIOUS
<1>2. b \in Seq(S) /\ Len(b) = Len(L) - i /\ \A k \in 1..(Len(L) - i) : b[k] = L[k + i]
  OBVIOUS
<1>3. RemoveAt(L, i) = a \o b
  BY DEF RemoveAt
<1> HIDE DEF a, b
<1>0. i \in Nat /\ Len(L) \in Nat /\ i <= Len(L) /\ i >= 1
  OBVIOUS
<1>4. /\ a \o b \in Seq(S) /\ Len(a \o b) = Len(L) - 1
      /\ \A k \in 1..(i - 1) : (a \o b)[k] = a[k]
      /\ \A k \in i..(Len(L) - 1) : (a \o b)[k] = b[k - i + 1]
   BY ONLY <1>0, <1>1, <1>2
<1>5. \A k \in i..(Len(L) - 1) : b[k - i + 1] = L[k + 1]
  <2> TAKE k \in i..(Len(L) - 1)
  <2>1. k - i + 1 \in 1..(Len(L) - i) /\ (k - i + 1) + i = k + 1
    BY ONLY <1>0, k \in i..(Len(L) - 1)
  <2> QED BY <1>2, <2>1
<1> QED BY ONLY <1>1, <1>3, <1>4, <1>5

\* The elements of a sequence after an insertion at i.
LEMMA InsertAtIs ==
  ASSUME NEW S, NEW L \in Seq(S), NEW e \in S, NEW i \in 1..(Len(L) + 1)
  PROVE  /\ InsertAt(L, i, e) \in Seq(S)
         /\ Len(InsertAt(L, i, e)) = Len(L) + 1
         /\ \A k \in 1..(i - 1) : InsertAt(L, i, e)[k] = L[k]
         /\ InsertAt(L, i, e)[i] = e
         /\ \A k \in (i + 1)..(Len(L) + 1) : InsertAt(L, i, e)[k] = L[k - 1]
<1> DEFINE a == SubSeq(L, 1, i - 1)
           b == SubSeq(L, i, Len(L))
<1>0. i \in Nat /\ Len(L) \in Nat /\ i <= Len(L) + 1 /\ i >= 1
  OBVIOUS
<1>1. a \in Seq(S) /\ Len(a) = i - 1 /\ \A k \in 1..(i - 1) : a[k] = L[k]
  OBVIOUS
<1>2. b \in Seq(S) /\ Len(b) = Len(L) - i + 1 /\ \A k \in 1..(Len(L) - i + 1) : b[k] = L[k + i - 1]
  OBVIOUS
<1>3. InsertAt(L, i, e) = (a \o <<e>>) \o b
  BY DEF InsertAt
<1> HIDE DEF a, b
<1> DEFINE c == a \o <<e>>
<1>4. /\ c \in Seq(S) /\ Len(c) = i
      /\ \A k \in 1..(i - 1) : c[k] = a[k]
      /\ c[i] = e
   BY ONLY e \in S, <1>0, <1>1 DEF c
<1> HIDE DEF c
<1>5. /\ c \o b \in Seq(S) /\ Len(c \o b) = Len(L) + 1
      /\ \A k \in 1..i : (c \o b)[k] = c[k]
      /\ \A k \in (i + 1)..(Len(L) + 1) : (c \o b)[k] = b[k - i]
  <2>1. c \o b \in Seq(S) /\ Len(c \o b) = i + (Len(L) - i + 1)
    BY ONLY <1>0, <1>2, <1>4
  <2>2. \A k \in 1..i : (c \o b)[k] = c[k]
    BY ONLY <1>0, <1>2, <1>4
  <2>3. \A k \in (i + 1)..(Len(L) + 1) : (c \o b)[k] = b[k - i]
    BY ONLY <1>0, <1>2, <1>4
  <2> QED BY ONLY <1>0, <2>1, <2>2, <2>3
<1>6. \A k \in (i + 1)..(Len(L) + 1) : b[k - i] = L[k - 1]
  <2> TAKE k \in (i + 1)..(Len(L) + 1)
  <2>1. k - i \in 1..(Len(L) - i + 1) /\ (k - i) + i - 1 = k - 1
    BY ONLY <1>0, k \in (i + 1)..(Len(L) + 1)
  <2> QED BY <1>2, <2>1
<1>7. \A k \in 1..(i - 1) : c[k] = L[k] /\ k \in 1..i
  BY ONLY <1>0, <1>1, <1>4
<1>8. c[i] = e /\ i \in 1..i
  BY ONLY <1>0, <1>4
<1> QED BY ONLY <1>3, <1>5, <1>6, <1>7, <1>8 DEF c

\* list_remove takes s out and keeps the order of the others.
LEMMA RemoveIs ==
  ASSUME NEW L, IsList(L), NEW s, Has(L, s)
  PROVE  /\ IsList(list_remove(L, s))
         /\ \A x : Has(list_remove(L, s), x) <=> (Has(L, x) /\ x # s)
         /\ \A x, y : Before(list_remove(L, s), x, y) <=> (Before(L, x, y) /\ x # s /\ y # s)
<1> DEFINE n == Position(L, s)
           M == list_remove(L, s)
<1>1. n \in 1 .. Len(L) /\ L[n] = s
  BY PositionIs
<1>2. M = RemoveAt(L, n)
  <2>1. \E i \in 1 .. Len(L) : L[i] = s
    BY DEF Has
  <2> QED BY <2>1 DEF list_remove, RemoveFirst, Position, SelectInSeq
<1> HIDE DEF n
<1>3. /\ L \in Seq(Slots) /\ Len(L) \in Nat
      /\ \A i, j \in 1 .. Len(L) : L[i] = L[j] => i = j
  BY DEF IsList
<1>4. /\ M \in Seq(Slots)
      /\ Len(M) = Len(L) - 1
      /\ \A k \in 1 .. (n - 1) : M[k] = L[k]
      /\ \A k \in n .. (Len(L) - 1) : M[k] = L[k + 1]
  <2> HIDE DEF M
  <2>1. L \in Seq(Slots) /\ n \in 1 .. Len(L)
    BY <1>1, <1>3
  <2> QED BY ONLY <1>2, <2>1, RemoveAtIs
<1> HIDE DEF M
<1>5. \A k \in 1 .. Len(M) : \E i \in 1 .. Len(L) :
         M[k] = L[i] /\ i # n /\ (k < n => i = k) /\ (k >= n => i = k + 1)
  <2> TAKE k \in 1 .. Len(M)
  <2>1. CASE k < n
    <3>1. k \in 1 .. (n - 1) /\ k \in 1 .. Len(L) /\ k # n
      BY <1>1, <1>3, <1>4, <2>1
    <3> QED BY <1>1, <1>4, <2>1, <3>1
  <2>2. CASE k >= n
    <3>1. k \in n .. (Len(L) - 1) /\ k + 1 \in 1 .. Len(L) /\ k + 1 # n
      BY <1>1, <1>3, <1>4, <2>2
    <3> QED BY <1>1, <1>4, <2>2, <3>1
  <2> QED BY <1>1, <1>4, <2>1, <2>2
<1>6. \A i \in 1 .. Len(L) : i # n => \E k \in 1 .. Len(M) :
         M[k] = L[i] /\ (i < n => k = i) /\ (i > n => k = i - 1)
  <2> TAKE i \in 1 .. Len(L)
  <2> HAVE i # n
  <2>1. CASE i < n
    <3>1. i \in 1 .. (n - 1) /\ i \in 1 .. Len(M)
      BY <1>1, <1>3, <1>4, <2>1
    <3> QED BY <1>1, <1>4, <2>1, <3>1
  <2>2. CASE i > n
    <3>1. i - 1 \in n .. (Len(L) - 1) /\ i - 1 \in 1 .. Len(M) /\ (i - 1) + 1 = i
      BY <1>1, <1>3, <1>4, <2>2
    <3> QED BY <1>1, <1>4, <2>2, <3>1
  <2> QED BY <1>1, <2>1, <2>2
<1>7. IsList(M)
  <2> SUFFICES ASSUME NEW a \in 1 .. Len(M), NEW b \in 1 .. Len(M), M[a] = M[b]
               PROVE  a = b
    BY <1>4 DEF IsList
  <2>1. PICK i \in 1 .. Len(L) :
           M[a] = L[i] /\ i # n /\ (a < n => i = a) /\ (a >= n => i = a + 1)
    BY <1>5
  <2>2. PICK j \in 1 .. Len(L) :
           M[b] = L[j] /\ j # n /\ (b < n => j = b) /\ (b >= n => j = b + 1)
    BY <1>5
  <2>3. i = j
    BY <1>3, <2>1, <2>2
  <2>4. a \in Nat /\ b \in Nat /\ n \in Nat
    BY <1>1, <1>3, <1>4
  <2> QED BY ONLY <2>1, <2>2, <2>3, <2>4
<1>8. ASSUME NEW x PROVE Has(M, x) <=> (Has(L, x) /\ x # s)
  <2>1. Has(M, x) => Has(L, x) /\ x # s
    BY <1>1, <1>3, <1>5 DEF Has
  <2>2. Has(L, x) /\ x # s => Has(M, x)
    BY <1>1, <1>6 DEF Has
  <2> QED BY <2>1, <2>2
<1>9. ASSUME NEW x, NEW y PROVE Before(M, x, y) <=> (Before(L, x, y) /\ x # s /\ y # s)
  <2>1. ASSUME Before(M, x, y) PROVE Before(L, x, y) /\ x # s /\ y # s
    <3>1. PICK a, b \in 1 .. Len(M) : a < b /\ M[a] = x /\ M[b] = y
      BY <2>1 DEF Before
    <3>2. PICK i \in 1 .. Len(L) :
             M[a] = L[i] /\ i # n /\ (a < n => i = a) /\ (a >= n => i = a + 1)
      BY <1>5
    <3>3. PICK j \in 1 .. Len(L) :
             M[b] = L[j] /\ j # n /\ (b < n => j = b) /\ (b >= n => j = b + 1)
      BY <1>5
    <3>4. i < j
      <4>1. a \in Nat /\ b \in Nat /\ n \in Nat
        BY <1>1, <1>3, <1>4
      <4> QED BY ONLY <3>1, <3>2, <3>3, <4>1
    <3>5. L[i] # s /\ L[j] # s
      BY <1>1, <1>3, <3>2, <3>3
    <3> QED BY <3>1, <3>2, <3>3, <3>4, <3>5 DEF Before
  <2>2. ASSUME Before(L, x, y), x # s, y # s PROVE Before(M, x, y)
    <3>1. PICK i, j \in 1 .. Len(L) : i < j /\ L[i] = x /\ L[j] = y
      BY <2>2 DEF Before
    <3>2. i # n /\ j # n
      BY <1>1, <2>2, <3>1
    <3>3. PICK a \in 1 .. Len(M) : M[a] = L[i] /\ (i < n => a = i) /\ (i > n => a = i - 1)
      BY <1>6, <3>2
    <3>4. PICK b \in 1 .. Len(M) : M[b] = L[j] /\ (j < n => b = j) /\ (j > n => b = j - 1)
      BY <1>6, <3>2
    <3>5. a < b
      <4>1. i \in Nat /\ j \in Nat /\ n \in Nat
        BY <1>1, <1>3
      <4> QED BY ONLY <3>1, <3>2, <3>3, <3>4, <4>1
    <3> QED BY <3>1, <3>3, <3>4, <3>5 DEF Before
  <2> QED BY <2>1, <2>2
<1> QED BY <1>7, <1>8, <1>9 DEF M

\* list_add puts s after what is due at its time or earlier and before what is later,
\* keeps the order of the others, and the list stays sorted.
LEMMA AddIs ==
  ASSUME NEW L, IsList(L), NEW s \in Slots, ~Has(L, s), NEW due \in [Slots -> Nat],
         Sorted(L, due)
  PROVE  /\ IsList(list_add(L, due, s))
         /\ \A x : Has(list_add(L, due, s), x) <=> (Has(L, x) \/ x = s)
         /\ \A x, y : x # s /\ y # s => (Before(list_add(L, due, s), x, y) <=> Before(L, x, y))
         /\ \A x : Has(L, x) => (Before(list_add(L, due, s), x, s) <=> due[x] <= due[s])
         /\ \A x : Has(L, x) => (Before(list_add(L, due, s), s, x) <=> due[s] < due[x])
         /\ Sorted(list_add(L, due, s), due)
<1> DEFINE n == Place(L, due, s)
           M == list_add(L, due, s)
<1>1. /\ L \in Seq(Slots) /\ Len(L) \in Nat
      /\ \A i, j \in 1 .. Len(L) : L[i] = L[j] => i = j
      /\ \A i \in 1 .. Len(L) : L[i] # s /\ L[i] \in Slots
  BY DEF IsList, Has
<1>2. /\ n \in 1 .. (Len(L) + 1)
      /\ \A i \in 1 .. (n - 1) : due[L[i]] <= due[s]
      /\ n <= Len(L) => due[s] < due[L[n]]
  BY <1>1, PlaceIs
<1>3. M = InsertAt(L, n, s)
  BY DEF list_add, Place, SelectInSeq
<1> HIDE DEF n, M
<1>4. n \in Nat /\ n >= 1 /\ n <= Len(L) + 1
  BY <1>1, <1>2
<1>5. /\ M \in Seq(Slots)
      /\ Len(M) = Len(L) + 1
      /\ \A k \in 1 .. (n - 1) : M[k] = L[k]
      /\ M[n] = s
      /\ \A k \in (n + 1) .. (Len(L) + 1) : M[k] = L[k - 1]
  <2>1. L \in Seq(Slots) /\ s \in Slots /\ n \in 1 .. (Len(L) + 1)
    BY <1>1, <1>2
  <2>2. /\ InsertAt(L, n, s) \in Seq(Slots)
        /\ Len(InsertAt(L, n, s)) = Len(L) + 1
        /\ \A k \in 1 .. (n - 1) : InsertAt(L, n, s)[k] = L[k]
        /\ InsertAt(L, n, s)[n] = s
        /\ \A k \in (n + 1) .. (Len(L) + 1) : InsertAt(L, n, s)[k] = L[k - 1]
    BY ONLY <2>1, InsertAtIs
  <2> QED BY ONLY <1>3, <2>2
\* Where a timer of the new list was in the old one, and the other way round.
<1>6. \A k \in 1 .. Len(M) : k # n => \E i \in 1 .. Len(L) :
         M[k] = L[i] /\ (k < n => i = k) /\ (k > n => i = k - 1)
  <2> TAKE k \in 1 .. Len(M)
  <2> HAVE k # n
  <2>1. CASE k < n
    <3>1. k \in 1 .. (n - 1) /\ k \in 1 .. Len(L)
      BY <1>1, <1>4, <1>5, <2>1
    <3> QED BY <1>4, <1>5, <2>1, <3>1
  <2>2. CASE k > n
    <3>1. k \in (n + 1) .. (Len(L) + 1) /\ k - 1 \in 1 .. Len(L)
      BY <1>1, <1>4, <1>5, <2>2
    <3> QED BY <1>4, <1>5, <2>2, <3>1
  <2> QED BY <1>1, <1>4, <1>5, <2>1, <2>2
<1>7. \A i \in 1 .. Len(L) : \E k \in 1 .. Len(M) :
         M[k] = L[i] /\ (i < n => k = i) /\ (i >= n => k = i + 1)
  <2> TAKE i \in 1 .. Len(L)
  <2>1. CASE i < n
    <3>1. i \in 1 .. (n - 1) /\ i \in 1 .. Len(M)
      BY <1>1, <1>4, <1>5, <2>1
    <3> QED BY <1>4, <1>5, <2>1, <3>1
  <2>2. CASE i >= n
    <3>1. i + 1 \in (n + 1) .. (Len(L) + 1) /\ i + 1 \in 1 .. Len(M) /\ (i + 1) - 1 = i
      BY <1>1, <1>4, <1>5, <2>2
    <3> QED BY <1>4, <1>5, <2>2, <3>1
  <2> QED BY <1>1, <1>4, <2>1, <2>2
<1>8. n \in 1 .. Len(M)
  BY <1>1, <1>4, <1>5
<1>9. IsList(M)
  <2> SUFFICES ASSUME NEW a \in 1 .. Len(M), NEW b \in 1 .. Len(M), M[a] = M[b]
               PROVE  a = b
    BY <1>5 DEF IsList
  <2>1. CASE a = n \/ b = n
    <3>1. \A k \in 1 .. Len(M) : k # n => M[k] # s
      BY <1>1, <1>6
    <3> QED BY <1>5, <2>1, <3>1
  <2>2. CASE a # n /\ b # n
    <3>1. PICK i \in 1 .. Len(L) : M[a] = L[i] /\ (a < n => i = a) /\ (a > n => i = a - 1)
      BY <1>6, <2>2
    <3>2. PICK j \in 1 .. Len(L) : M[b] = L[j] /\ (b < n => j = b) /\ (b > n => j = b - 1)
      BY <1>6, <2>2
    <3>3. i = j
      BY <1>1, <3>1, <3>2
    <3>4. a \in Nat /\ b \in Nat
      BY <1>5
    <3> QED BY ONLY <1>4, <2>2, <3>1, <3>2, <3>3, <3>4
  <2> QED BY <2>1, <2>2
<1>10. ASSUME NEW x PROVE Has(M, x) <=> (Has(L, x) \/ x = s)
  <2>1. Has(M, x) => Has(L, x) \/ x = s
    BY <1>5, <1>6 DEF Has
  <2>2. Has(L, x) => Has(M, x)
    BY <1>7 DEF Has
  <2>3. x = s => Has(M, x)
    BY <1>5, <1>8 DEF Has
  <2> QED BY <2>1, <2>2, <2>3
<1>11. ASSUME NEW x, NEW y, x # s, y # s PROVE Before(M, x, y) <=> Before(L, x, y)
  <2>1. ASSUME Before(M, x, y) PROVE Before(L, x, y)
    <3>1. PICK a, b \in 1 .. Len(M) : a < b /\ M[a] = x /\ M[b] = y
      BY <2>1 DEF Before
    <3>2. a # n /\ b # n
      BY <1>5, <1>11, <3>1
    <3>3. PICK i \in 1 .. Len(L) : M[a] = L[i] /\ (a < n => i = a) /\ (a > n => i = a - 1)
      BY <1>6, <3>2
    <3>4. PICK j \in 1 .. Len(L) : M[b] = L[j] /\ (b < n => j = b) /\ (b > n => j = b - 1)
      BY <1>6, <3>2
    <3>5. i < j
      <4>1. a \in Nat /\ b \in Nat
        BY <1>5
      <4> QED BY ONLY <1>4, <3>1, <3>2, <3>3, <3>4, <4>1
    <3> QED BY <3>1, <3>3, <3>4, <3>5 DEF Before
  <2>2. ASSUME Before(L, x, y) PROVE Before(M, x, y)
    <3>1. PICK i, j \in 1 .. Len(L) : i < j /\ L[i] = x /\ L[j] = y
      BY <2>2 DEF Before
    <3>2. PICK a \in 1 .. Len(M) : M[a] = L[i] /\ (i < n => a = i) /\ (i >= n => a = i + 1)
      BY <1>7
    <3>3. PICK b \in 1 .. Len(M) : M[b] = L[j] /\ (j < n => b = j) /\ (j >= n => b = j + 1)
      BY <1>7
    <3>4. a < b
      <4>1. i \in Nat /\ j \in Nat
        BY <1>1
      <4> QED BY ONLY <1>4, <3>1, <3>2, <3>3, <4>1
    <3> QED BY <3>1, <3>2, <3>3, <3>4 DEF Before
  <2> QED BY <2>1, <2>2
\* Those up to the place are not later, those from the place on are.
<1>12. ASSUME NEW x, Has(L, x)
       PROVE  \/ due[x] <= due[s] /\ Before(M, x, s)
              \/ due[s] < due[x] /\ Before(M, s, x)
  <2>1. PICK i \in 1 .. Len(L) : L[i] = x
    BY <1>12 DEF Has
  <2>2. PICK a \in 1 .. Len(M) : M[a] = L[i] /\ (i < n => a = i) /\ (i >= n => a = i + 1)
    BY <1>7
  <2>3. CASE i < n
    <3>1. i \in 1 .. (n - 1) /\ a < n
      BY <1>1, <1>4, <2>2, <2>3
    <3> QED BY <1>2, <1>5, <1>8, <2>1, <2>2, <3>1 DEF Before
  <2>4. CASE i >= n
    <3>1. n <= Len(L) /\ n \in 1 .. Len(L) /\ n < a
      BY <1>1, <1>4, <2>2, <2>4
    <3>2. due[s] < due[L[n]] /\ due[s] \in Nat /\ due[L[n]] \in Nat /\ due[x] \in Nat
      BY <1>1, <1>2, <2>1, <3>1
    <3>3. due[L[n]] <= due[x]
      <4>1. CASE i = n
        BY <2>1, <3>2, <4>1
      <4>2. CASE i > n
        <5>1. Before(L, L[n], x)
          BY <2>1, <3>1, <4>2 DEF Before
        <5>2. L[n] \in Slots /\ x \in Slots
          BY <1>1, <2>1, <3>1
        <5> QED BY <5>1, <5>2 DEF Sorted
      <4> QED BY <1>1, <1>4, <2>4, <4>1, <4>2
    <3>4. due[s] < due[x]
      BY ONLY <3>2, <3>3
    <3>5. Before(M, s, x)
      BY <1>5, <1>8, <2>1, <2>2, <3>1 DEF Before
    <3> QED BY <3>4, <3>5
  <2> QED BY <1>1, <1>4, <2>3, <2>4
<1>13. ASSUME NEW x, Has(L, x)
       PROVE  /\ Before(M, x, s) <=> due[x] <= due[s]
              /\ Before(M, s, x) <=> due[s] < due[x]
  <2>1. x \in Slots /\ due[x] \in Nat /\ due[s] \in Nat
    BY <1>1, <1>13 DEF Has
  <2>2. ~(Before(M, x, s) /\ Before(M, s, x))
    BY <1>9, OrderIs
  <2>3. ~(due[x] <= due[s] /\ due[s] < due[x])
    BY <2>1
  <2> QED BY <1>12, <1>13, <2>2, <2>3
<1>14. Sorted(M, due)
  <2> SUFFICES ASSUME NEW x \in Slots, NEW y \in Slots, Before(M, x, y) PROVE due[x] <= due[y]
    BY DEF Sorted
  <2>1. Has(M, x) /\ Has(M, y) /\ x # y
    BY <1>9, OrderIs
  <2>2. CASE x # s /\ y # s
    BY <1>11, <2>2 DEF Sorted
  <2>3. CASE y = s
    BY <1>10, <1>13, <2>1, <2>3
  <2>4. CASE x = s
    <3>1. Has(L, y) /\ due[s] < due[y]
      BY <1>10, <1>13, <2>1, <2>4
    <3>2. due[s] \in Nat /\ due[y] \in Nat
      BY <1>1, <3>1 DEF Has
    <3> QED BY <2>4, <3>1, <3>2
  <2> QED BY <2>2, <2>3, <2>4
<1> QED BY <1>9, <1>10, <1>11, <1>13, <1>14 DEF M

\* list_resort(L, due, s) after the time of s has changed to v.
Resorted(L, due, s, v, M) ==
  /\ IsList(M)
  /\ Sorted(M, [due EXCEPT ![s] = v])
  /\ \A x : Has(M, x) <=> Has(L, x)
  /\ \A x, y : x # s /\ y # s => (Before(M, x, y) <=> Before(L, x, y))
  /\ \A x : Has(L, x) /\ x # s => (Before(M, x, s) <=> due[x] <= v)
  /\ \A x : Has(L, x) /\ x # s => (Before(M, s, x) <=> v < due[x])

\* list_resort keeps the timers, sorts s in anew and leaves the order of the others.
LEMMA ResortIs ==
  ASSUME NEW L, IsList(L), NEW s, Has(L, s), NEW due \in [Slots -> Nat], Sorted(L, due),
         NEW v \in Nat
  PROVE  Resorted(L, due, s, v, list_resort(L, [due EXCEPT ![s] = v], s))
<1> DEFINE anew == [due EXCEPT ![s] = v]
           M == list_resort(L, anew, s)
           rest == list_remove(L, s)
<1>1. s \in Slots /\ anew \in [Slots -> Nat] /\ anew[s] = v
  BY OrderIs
<1>2. \A x \in Slots : x # s => anew[x] = due[x]
  OBVIOUS
<1>3. /\ IsList(rest)
      /\ \A x : Has(rest, x) <=> (Has(L, x) /\ x # s)
      /\ \A x, y : Before(rest, x, y) <=> (Before(L, x, y) /\ x # s /\ y # s)
  BY RemoveIs
<1>4. Sorted(rest, anew)
  BY <1>2, <1>3 DEF Sorted
<1>5. M = list_add(rest, anew, s)
  BY DEF list_resort
<1>6. \A x : Has(L, x) => x \in Slots
  BY OrderIs
<1> HIDE DEF rest, M, anew
<1>7. ~Has(rest, s)
  BY <1>3
<1>8. /\ IsList(M)
      /\ \A x : Has(M, x) <=> (Has(rest, x) \/ x = s)
      /\ \A x, y : x # s /\ y # s => (Before(M, x, y) <=> Before(rest, x, y))
      /\ \A x : Has(rest, x) => (Before(M, x, s) <=> anew[x] <= anew[s])
      /\ \A x : Has(rest, x) => (Before(M, s, x) <=> anew[s] < anew[x])
      /\ Sorted(M, anew)
  BY ONLY <1>1, <1>3, <1>4, <1>5, <1>7, AddIs
<1> SUFFICES Resorted(L, due, s, v, M)
  BY DEF M, anew
<1> QED BY <1>1, <1>2, <1>3, <1>6, <1>8 DEF Resorted, anew

-----------------------------------------------------------------------------
(* What the operations of timer.c do to the invariant.                     *)

\* What tmr_create may get is a struct that is in use nowhere.
LEMMA AllocationsAreFree ==
  ASSUME TypeOK, ListsSound, NEW s \in Allocations, s # NULL
  PROVE  s \in Slots /\ ~Has(timers, s)
<1>1. CASE free_timers # <<>>
  <2>1. s = free_timers[1] /\ 1 \in 1 .. Len(free_timers)
    BY <1>1 DEF Allocations, TypeOK
  <2>2. s \in Slots /\ Has(free_timers, s)
    BY <2>1 DEF Has, TypeOK
  <2> QED BY <2>2 DEF ListsSound
<1>2. CASE free_timers = <<>>
  <2> DEFINE Q(x) == \/ x \in Slots \ ToSet(timers)
                     \/ x = NULL /\ ToSet(timers) = Slots
  <2>1. s = CHOOSE x \in Slots \cup {NULL} : Q(x)
    BY <1>2 DEF Allocations
  <2>2. \E x \in Slots \cup {NULL} : Q(x)
    <3>1. ToSet(timers) \subseteq Slots
      BY DEF TypeOK, ToSet
    <3> QED BY <3>1
  <2>3. Q(s)
    <3> HIDE DEF Q
    <3> QED BY <2>1, <2>2
  <2>4. s \in Slots \ ToSet(timers)
    BY <2>3
  <2>5. DOMAIN timers = 1 .. Len(timers)
    BY DEF TypeOK
  <2> QED BY <2>4, <2>5 DEF Has, ToSet
<1> QED BY <1>1, <1>2

\* The rest of a list.
LEMMA TailIs ==
  ASSUME NEW L, IsList(L), L # <<>>
  PROVE  IsList(Tail(L)) /\ \A x : Has(Tail(L), x) => Has(L, x) /\ x # Head(L)
<1>1. /\ L \in Seq(Slots) /\ Len(L) \in Nat /\ Len(L) >= 1
      /\ \A i, j \in 1 .. Len(L) : L[i] = L[j] => i = j
  BY DEF IsList
<1>2. Tail(L) \in Seq(Slots) /\ Len(Tail(L)) = Len(L) - 1
      /\ \A i \in 1 .. (Len(L) - 1) : Tail(L)[i] = L[i + 1]
  BY <1>1
<1>3. Head(L) = L[1] /\ 1 \in 1 .. Len(L)
  BY <1>1
<1>4. \A i \in 1 .. Len(Tail(L)) : i + 1 \in 1 .. Len(L) /\ i + 1 # 1 /\ Tail(L)[i] = L[i + 1]
  BY <1>1, <1>2
<1>5. IsList(Tail(L))
  <2> SUFFICES ASSUME NEW i \in 1 .. Len(Tail(L)), NEW j \in 1 .. Len(Tail(L)),
                      Tail(L)[i] = Tail(L)[j]
               PROVE  i = j
    BY <1>2 DEF IsList
  <2>1. i + 1 = j + 1
    BY <1>1, <1>4
  <2>2. i \in Nat /\ j \in Nat
    BY <1>1, <1>2
  <2> QED BY ONLY <2>1, <2>2
<1>6. ASSUME NEW x, Has(Tail(L), x) PROVE Has(L, x) /\ x # Head(L)
  <2>1. PICK i \in 1 .. Len(Tail(L)) : Tail(L)[i] = x
    BY <1>6 DEF Has
  <2>2. L[i + 1] = x /\ i + 1 \in 1 .. Len(L) /\ i + 1 # 1
    BY <1>4, <2>1
  <2> QED BY <1>1, <1>3, <2>2 DEF Has
<1> QED BY <1>5, <1>6

\* A timer that is put at the head of the free list.
LEMMA ConsIs ==
  ASSUME NEW L, IsList(L), NEW s \in Slots, ~Has(L, s)
  PROVE  IsList(<<s>> \o L) /\ \A x : Has(<<s>> \o L, x) <=> (x = s \/ Has(L, x))
<1> DEFINE M == <<s>> \o L
<1>1. /\ L \in Seq(Slots) /\ Len(L) \in Nat
      /\ \A i, j \in 1 .. Len(L) : L[i] = L[j] => i = j
      /\ \A i \in 1 .. Len(L) : L[i] # s
  BY DEF IsList, Has
<1>2. /\ M \in Seq(Slots) /\ Len(M) = Len(L) + 1 /\ M[1] = s
      /\ \A i \in 2 .. (Len(L) + 1) : M[i] = L[i - 1]
  BY <1>1
<1> HIDE DEF M
<1>3. \A i \in 1 .. Len(M) : i # 1 => i \in 2 .. (Len(L) + 1) /\ i - 1 \in 1 .. Len(L) /\ M[i] = L[i - 1]
  BY <1>1, <1>2
<1>4. \A i \in 1 .. Len(L) : i + 1 \in 1 .. Len(M) /\ M[i + 1] = L[i]
  <2> TAKE i \in 1 .. Len(L)
  <2>1. i + 1 \in 2 .. (Len(L) + 1) /\ (i + 1) - 1 = i /\ i + 1 \in 1 .. Len(M)
    BY <1>1, <1>2
  <2> QED BY <1>2, <2>1
<1>5. IsList(M)
  <2> SUFFICES ASSUME NEW i \in 1 .. Len(M), NEW j \in 1 .. Len(M), M[i] = M[j]
               PROVE  i = j
    BY <1>2 DEF IsList
  <2>1. CASE i = 1 \/ j = 1
    BY <1>1, <1>2, <1>3, <2>1
  <2>2. CASE i # 1 /\ j # 1
    <3>1. i - 1 = j - 1
      BY <1>1, <1>3, <2>2
    <3>2. i \in Nat /\ j \in Nat
      BY <1>2
    <3> QED BY ONLY <3>1, <3>2
  <2> QED BY <2>1, <2>2
<1>6. ASSUME NEW x PROVE Has(M, x) <=> (x = s \/ Has(L, x))
  <2>1. Has(M, x) => x = s \/ Has(L, x)
    BY <1>2, <1>3 DEF Has
  <2>2. Has(L, x) => Has(M, x)
    BY <1>4 DEF Has
  <2>3. Has(M, s)
    <3>1. 1 \in 1 .. Len(M)
      BY <1>1, <1>2
    <3> QED BY <1>2, <3>1 DEF Has
  <2> QED BY <2>1, <2>2, <2>3
<1> QED BY <1>5, <1>6 DEF M

\* The types of the variables that timer.c and the handles keep.
ListTypes ==
  /\ timers \in Seq(Slots) /\ free_timers \in Seq(Slots)
  /\ time \in [Slots -> Nat] /\ proc \in [Slots -> Kinds]
  /\ handle \in [Kinds -> Slots \cup {NULL}]

\* No timer is created with a negative time.
LEMMA UsecsIsNat == ASSUME NEW k PROVE Usecs(k) \in Nat
BY DurationAssumption DEF Usecs

\* tmr_create into the handle k, which was NULL.
LEMMA CreateIs ==
  ASSUME TypeOK, ListsSound, HandlesSound, NEW k \in Kinds, ~Armed(k),
         NEW s \in Allocations, s # NULL, tmr_create(k, s)
  PROVE  /\ ListTypes' /\ ListsSound' /\ HandlesSound'
         /\ s \in Slots /\ ~Has(timers, s)
         /\ handle' = [handle EXCEPT ![k] = s]
         /\ time' = [time EXCEPT ![s] = clock + Usecs(k)]
         /\ \A x : Has(timers', x) <=> (Has(timers, x) \/ x = s)
         /\ \A x, y : x # s /\ y # s => (Before(timers', x, y) <=> Before(timers, x, y))
         /\ \A x : Has(timers, x) => (Before(timers', x, s) <=> time[x] <= clock + Usecs(k))
         /\ \A x : Has(timers, x) => (Before(timers', s, x) <=> clock + Usecs(k) < time[x])
<1>1. s \in Slots /\ ~Has(timers, s)
  BY AllocationsAreFree
<1>2. /\ handle' = [handle EXCEPT ![k] = s]
      /\ free_timers' = IF free_timers = <<>> THEN <<>> ELSE Tail(free_timers)
      /\ proc' = [proc EXCEPT ![s] = k]
      /\ time' = [time EXCEPT ![s] = clock + Usecs(k)]
      /\ timers' = list_add(timers, time', s)
  BY DEF tmr_create
<1>3. Usecs(k) \in Nat /\ clock + Usecs(k) \in Nat
  BY UsecsIsNat, BoundsAssumption DEF TypeOK
<1>4. time' \in [Slots -> Nat] /\ time'[s] = clock + Usecs(k) /\ \A x \in Slots : x # s => time'[x] = time[x]
  BY <1>1, <1>2, <1>3 DEF TypeOK
<1>5. IsList(timers) /\ IsList(free_timers) /\ \A x : Has(timers, x) => x \in Slots
  BY OrderIs DEF ListsSound
<1>6. Sorted(timers, time')
  <2>1. \A x, y : Before(timers, x, y) => x # s /\ y # s
    BY <1>1, <1>5, OrderIs
  <2> QED BY <1>4, <2>1 DEF ListsSound, Sorted
<1>7. /\ IsList(timers')
      /\ \A x : Has(timers', x) <=> (Has(timers, x) \/ x = s)
      /\ \A x, y : x # s /\ y # s => (Before(timers', x, y) <=> Before(timers, x, y))
      /\ \A x : Has(timers, x) => (Before(timers', x, s) <=> time'[x] <= time'[s])
      /\ \A x : Has(timers, x) => (Before(timers', s, x) <=> time'[s] < time'[x])
      /\ Sorted(timers', time')
  <2> DEFINE M == list_add(timers, time', s)
  <2>1. /\ IsList(M)
        /\ \A x : Has(M, x) <=> (Has(timers, x) \/ x = s)
        /\ \A x, y : x # s /\ y # s => (Before(M, x, y) <=> Before(timers, x, y))
        /\ \A x : Has(timers, x) => (Before(M, x, s) <=> time'[x] <= time'[s])
        /\ \A x : Has(timers, x) => (Before(M, s, x) <=> time'[s] < time'[x])
        /\ Sorted(M, time')
    BY ONLY <1>1, <1>4, <1>5, <1>6, AddIs
  <2> HIDE DEF M
  <2>2. timers' = M
    BY <1>2 DEF M
  <2> QED BY ONLY <2>1, <2>2
<1>8. \A x : Has(timers, x) => time'[x] = time[x]
  BY <1>1, <1>4, <1>5
<1>9. IsList(free_timers') /\ \A x : Has(free_timers', x) => Has(free_timers, x) /\ x # s
  <2>1. CASE free_timers = <<>>
    <3>1. IsList(<<>>) /\ \A x : ~Has(<<>>, x)
      BY DEF IsList, Has
    <3> QED BY <1>2, <2>1, <3>1
  <2>2. CASE free_timers # <<>>
    <3>1. s = Head(free_timers) /\ free_timers' = Tail(free_timers)
      BY <1>2, <2>2 DEF Allocations
    <3> QED BY <1>5, <2>2, <3>1, TailIs
  <2> QED BY <2>1, <2>2
<1>10. ListsSound'
  BY <1>7, <1>9 DEF ListsSound
<1>11. ListTypes'
  BY <1>1, <1>2, <1>4, <1>7, <1>9 DEF ListTypes, IsList, TypeOK
<1>12. HandlesSound'
  <2>1. ASSUME NEW j \in Kinds, handle'[j] # NULL
        PROVE  Has(timers', handle'[j]) /\ proc'[handle'[j]] = j
    <3>1. CASE j = k
      BY <1>1, <1>2, <1>7, <3>1 DEF TypeOK
    <3>2. CASE j # k
      <4>1. handle'[j] = handle[j] /\ handle[j] # NULL
        BY <1>2, <2>1, <3>2 DEF TypeOK
      <4>2. Has(timers, handle[j]) /\ proc[handle[j]] = j
        BY <4>1 DEF HandlesSound, Armed
      <4>3. proc'[handle[j]] = proc[handle[j]]
        BY <1>1, <1>2, <1>5, <4>2 DEF TypeOK
      <4> QED BY <1>7, <4>1, <4>2, <4>3
    <3> QED BY <3>1, <3>2
  <2>2. ASSUME NEW x \in Slots, Has(timers', x) PROVE handle'[proc'[x]] = x
    <3>1. CASE x = s
      BY <1>1, <1>2, <3>1 DEF TypeOK
    <3>2. CASE x # s
      <4>1. Has(timers, x) /\ proc'[x] = proc[x] /\ handle[proc[x]] = x /\ proc[x] \in Kinds
        BY <1>2, <1>7, <2>2, <3>2 DEF HandlesSound, TypeOK
      <4>2. proc[x] # k
        BY <4>1, SlotsAssumption DEF Armed
      <4> QED BY <1>2, <4>1, <4>2 DEF TypeOK
    <3> QED BY <3>1, <3>2
  <2> QED BY <2>1, <2>2 DEF HandlesSound, Armed
<1> QED BY <1>1, <1>2, <1>4, <1>7, <1>8, <1>10, <1>11, <1>12

\* Two lists that hold no timer twice.
QueueSound(q) ==
  /\ IsList(q.active)
  /\ IsList(q.freed)
  /\ \A x \in Slots : ~(Has(q.active, x) /\ Has(q.freed, x))

\* tmr_cancel moves s from one list to the other.
LEMMA CancelIs ==
  ASSUME NEW q, QueueSound(q), NEW s, Has(q.active, s)
  PROVE  /\ QueueSound(tmr_cancel(q, s))
         /\ \A x : Has(tmr_cancel(q, s).active, x) <=> (Has(q.active, x) /\ x # s)
         /\ \A x, y : Before(tmr_cancel(q, s).active, x, y)
                        <=> (Before(q.active, x, y) /\ x # s /\ y # s)
<1> DEFINE L == list_remove(q.active, s)
           F == <<s>> \o q.freed
<1>1. tmr_cancel(q, s).active = L /\ tmr_cancel(q, s).freed = F
  BY DEF tmr_cancel
<1>2. IsList(q.active) /\ IsList(q.freed) /\ s \in Slots /\ ~Has(q.freed, s)
  BY OrderIs DEF QueueSound
<1>3. /\ IsList(L)
      /\ \A x : Has(L, x) <=> (Has(q.active, x) /\ x # s)
      /\ \A x, y : Before(L, x, y) <=> (Before(q.active, x, y) /\ x # s /\ y # s)
  BY <1>2, RemoveIs
<1>4. IsList(F) /\ \A x : Has(F, x) <=> (x = s \/ Has(q.freed, x))
  BY <1>2, ConsIs
<1> HIDE DEF L, F
<1> QED BY <1>1, <1>3, <1>4 DEF QueueSound

\* The cancellation of the handle k, if it is set.
CancelOne(q, k) == IF handle[k] = NULL THEN q ELSE tmr_cancel(q, handle[k])

\* The timers of the kinds K are still active.
Left(q, K) ==
  /\ QueueSound(q)
  /\ \A x \in Slots : Has(q.active, x) <=> (Has(timers, x) /\ proc[x] \in K)

\* The cancellation of the timer of kind k leaves those of the other kinds.
LEMMA CancelOneIs ==
  ASSUME TypeOK, HandlesSound, NEW q, NEW K, K \subseteq Kinds, Left(q, K), NEW k \in K
  PROVE  Left(CancelOne(q, k), K \ {k})
<1> USE DEF Left
<1>0. \A x : Has(q.active, x) => x \in Slots
  BY OrderIs DEF QueueSound
<1>1. \A x : Has(q.active, x) => handle[proc[x]] = x
  BY <1>0 DEF HandlesSound
<1>2. CASE handle[k] = NULL
  <2>1. CancelOne(q, k) = q
    BY <1>2 DEF CancelOne
  <2>2. \A x : Has(q.active, x) => proc[x] # k
    BY <1>0, <1>1, <1>2, SlotsAssumption
  <2> QED BY <2>1, <2>2
<1>3. CASE handle[k] # NULL
  <2> DEFINE s == handle[k]
  <2>1. s \in Slots /\ Has(timers, s) /\ proc[s] = k
    BY <1>3 DEF HandlesSound, Armed, TypeOK
  <2>2. Has(q.active, s)
    BY <2>1
  <2>3. CancelOne(q, k) = tmr_cancel(q, s)
    BY <1>3 DEF CancelOne
  <2>4. \A x : Has(q.active, x) => (x # s <=> proc[x] # k)
    BY <1>1, <2>1
  <2> HIDE DEF s
  <2>5. /\ QueueSound(tmr_cancel(q, s))
        /\ \A x : Has(tmr_cancel(q, s).active, x) <=> (Has(q.active, x) /\ x # s)
    BY <2>2, CancelIs
  <2> QED BY <2>3, <2>4, <2>5
<1> QED BY <1>2, <1>3

\* cleanup_server and iperf_free_test leave no active timer.
LEMMA CancelAllIs ==
  ASSUME TypeOK, ListsSound, HandlesSound, NEW k1, NEW k2, NEW k3, NEW k4,
         Kinds = {k1, k2, k3, k4}, k1 # k2, k1 # k3, k1 # k4, k2 # k3, k2 # k4, k3 # k4,
         CancelAll(k1, k2, k3, k4)
  PROVE  ListTypes' /\ ListsSound' /\ HandlesSound' /\ \A k \in Kinds : ~(Armed(k)')
<1> DEFINE q1 == CancelOne(Lists, k1)
           q2 == CancelOne(q1, k2)
           q3 == CancelOne(q2, k3)
           q4 == CancelOne(q3, k4)
<1>1. /\ timers' = q4.active /\ free_timers' = q4.freed
      /\ handle' = [k \in Kinds |-> NULL]
      /\ time' = time /\ proc' = proc
  BY DEF CancelAll, CancelOne
<1>2. Left(Lists, Kinds)
  <2>1. Lists.active = timers /\ Lists.freed = free_timers
    BY DEF Lists
  <2>2. \A x \in Slots : proc[x] \in Kinds
    BY DEF TypeOK
  <2> QED BY <2>1, <2>2 DEF ListsSound, QueueSound, Left
<1>3. Left(q1, Kinds \ {k1})
  BY <1>2, CancelOneIs
<1> HIDE DEF q1
<1>4. Left(q2, (Kinds \ {k1}) \ {k2})
  <2>1. k2 \in Kinds \ {k1} /\ Kinds \ {k1} \subseteq Kinds
    OBVIOUS
  <2> QED BY <1>3, <2>1, CancelOneIs
<1> HIDE DEF q2
<1>5. Left(q3, ((Kinds \ {k1}) \ {k2}) \ {k3})
  <2>1. k3 \in (Kinds \ {k1}) \ {k2} /\ (Kinds \ {k1}) \ {k2} \subseteq Kinds
    OBVIOUS
  <2> QED BY <1>4, <2>1, CancelOneIs
<1> HIDE DEF q3
<1>6. Left(q4, (((Kinds \ {k1}) \ {k2}) \ {k3}) \ {k4})
  <2>1. k4 \in ((Kinds \ {k1}) \ {k2}) \ {k3} /\ ((Kinds \ {k1}) \ {k2}) \ {k3} \subseteq Kinds
    OBVIOUS
  <2> QED BY <1>5, <2>1, CancelOneIs
<1> HIDE DEF q4
<1>7. QueueSound(q4) /\ \A x \in Slots : ~Has(q4.active, x)
  <2>1. (((Kinds \ {k1}) \ {k2}) \ {k3}) \ {k4} = {}
    OBVIOUS
  <2> QED BY <1>6, <2>1 DEF Left
<1>8. IsList(timers') /\ IsList(free_timers') /\ \A x \in Slots : ~Has(timers', x)
  BY <1>1, <1>7 DEF QueueSound
<1>9. Sorted(timers', time')
  <2>1. \A x, y \in Slots : ~Before(timers', x, y)
    BY <1>8, OrderIs
  <2> QED BY <2>1 DEF Sorted
<1>10. ListTypes'
  BY <1>1, <1>8 DEF ListTypes, IsList, TypeOK
<1>11. \A k \in Kinds : handle'[k] = NULL
  BY <1>1
<1>12. HandlesSound'
  BY <1>8, <1>11 DEF HandlesSound, Armed
<1> QED BY <1>8, <1>9, <1>10, <1>11, <1>12 DEF ListsSound, Armed

\* The timer that fires is active, and so is the one tmr_run goes to, which is not it.
LEMMA FiresIs ==
  ASSUME TimersInv, NEW k \in Kinds, Fires(k)
  PROVE  /\ t \in Slots /\ Has(timers, t) /\ handle[k] = t /\ proc[t] = k
         /\ pc = "run" /\ time[t] <= now
         /\ t' = NULL \/ (t' \in Slots /\ Has(timers, t') /\ t' # t)
         /\ \A y \in Slots : Adjacent(timers, t, y) => t' = y
         /\ \A x, y \in Slots : Adjacent(timers, x, y) /\ x # t => t' # y
         /\ proc' = proc /\ pc' = pc /\ now' = now /\ clock' = clock /\ tests' = tests
<1> USE DEF TimersInv
<1>1. /\ pc = "run" /\ t # NULL /\ time[t] <= now /\ proc[t] = k
      /\ t' = Successor(timers, t)
      /\ proc' = proc /\ pc' = pc /\ now' = now /\ clock' = clock /\ tests' = tests
  BY DEF Fires
<1>2. t \in Slots /\ Has(timers, t)
  BY <1>1 DEF Phases, TypeOK
<1>3. handle[k] = t
  BY <1>1, <1>2 DEF HandlesSound
<1>4. IsList(timers)
  BY DEF ListsSound
<1>5. \/ Successor(timers, t) = NULL /\ \A y : ~Before(timers, t, y)
      \/ /\ Successor(timers, t) \in Slots
         /\ Before(timers, t, Successor(timers, t))
         /\ \A z : ~(Before(timers, t, z) /\ Before(timers, z, Successor(timers, t)))
  BY <1>2, <1>4, SuccessorIs, SlotsAssumption
<1>6. t' = NULL \/ (t' \in Slots /\ Has(timers, t') /\ t' # t)
  BY <1>1, <1>4, <1>5, OrderIs
<1>7. ASSUME NEW y \in Slots, Adjacent(timers, t, y) PROVE t' = y
  <2>1. Before(timers, t, y) /\ \A z \in Slots : ~(Before(timers, t, z) /\ Before(timers, z, y))
    BY <1>7 DEF Adjacent
  <2>2. /\ t' \in Slots /\ Before(timers, t, t')
        /\ \A z : ~(Before(timers, t, z) /\ Before(timers, z, t'))
    BY <1>1, <1>5, <2>1
  <2>3. Has(timers, y) /\ Has(timers, t')
    BY <1>4, <2>1, <2>2, OrderIs
  <2>4. ~Before(timers, y, t') /\ ~Before(timers, t', y)
    BY <2>1, <2>2
  <2> QED BY <1>4, <2>3, <2>4, OrderIs
<1>8. ASSUME NEW x \in Slots, NEW y \in Slots, Adjacent(timers, x, y), x # t, t' = y
      PROVE  FALSE
  <2>1. Before(timers, x, y) /\ \A z \in Slots : ~(Before(timers, x, z) /\ Before(timers, z, y))
    BY <1>8 DEF Adjacent
  <2>2. Before(timers, t, y) /\ \A z : ~(Before(timers, t, z) /\ Before(timers, z, y))
    BY <1>1, <1>5, <1>8, SlotsAssumption
  <2>3. Has(timers, x)
    BY <1>4, <2>1, OrderIs
  <2>4. Before(timers, x, t) \/ Before(timers, t, x)
    BY <1>2, <1>4, <1>8, <2>3, OrderIs
  <2> QED BY <1>2, <2>1, <2>2, <2>4
<1> QED BY <1>1, <1>2, <1>3, <1>6, <1>7, <1>8

\* tmr_cancel of the timer that has fired, from a list L of the active timers.
LEMMA ExpireIs ==
  ASSUME ListsSound, NEW L, IsList(L), \A x : Has(L, x) <=> Has(timers, x), Has(timers, t),
         Expire(L)
  PROVE  /\ IsList(timers') /\ IsList(free_timers')
         /\ \A x \in Slots : ~(Has(timers', x) /\ Has(free_timers', x))
         /\ \A x : Has(timers', x) <=> (Has(timers, x) /\ x # t)
         /\ \A x, y : Before(timers', x, y) <=> (Before(L, x, y) /\ x # t /\ y # t)
<1> DEFINE q == [Lists EXCEPT !.active = L]
<1>1. q.active = L /\ q.freed = free_timers
  BY DEF Lists
<1>2. QueueSound(q)
  BY <1>1 DEF QueueSound, ListsSound
<1>3. timers' = tmr_cancel(q, t).active /\ free_timers' = tmr_cancel(q, t).freed
  BY DEF Expire
<1> HIDE DEF q
<1>4. Has(q.active, t)
  BY <1>1
<1>5. /\ QueueSound(tmr_cancel(q, t))
      /\ \A x : Has(tmr_cancel(q, t).active, x) <=> (Has(q.active, x) /\ x # t)
      /\ \A x, y : Before(tmr_cancel(q, t).active, x, y)
                     <=> (Before(q.active, x, y) /\ x # t /\ y # t)
  BY <1>2, <1>4, CancelIs
<1> QED BY <1>1, <1>3, <1>5 DEF QueueSound

\* ... and its handle set to NULL.
LEMMA ExpireHandles ==
  ASSUME TypeOK, HandlesSound, NEW k \in Kinds, handle[k] = t, t \in Slots,
         handle' = [handle EXCEPT ![k] = NULL], proc' = proc,
         \A x : Has(timers', x) <=> (Has(timers, x) /\ x # t)
  PROVE  HandlesSound' /\ \A j \in Kinds \ {k} : handle'[j] = handle[j]
<1>1. \A j \in Kinds \ {k} : handle'[j] = handle[j]
  BY DEF TypeOK
<1>2. handle'[k] = NULL
  BY DEF TypeOK
<1>3. proc[t] = k
  BY SlotsAssumption DEF HandlesSound, Armed
<1>4. ASSUME NEW j \in Kinds, handle'[j] # NULL
      PROVE  Has(timers', handle'[j]) /\ proc'[handle'[j]] = j
  <2>1. j # k /\ handle'[j] = handle[j]
    BY <1>1, <1>2, <1>4
  <2>2. Has(timers, handle[j]) /\ proc[handle[j]] = j
    BY <1>4, <2>1 DEF HandlesSound, Armed
  <2> QED BY <1>3, <2>1, <2>2
<1>5. ASSUME NEW x \in Slots, Has(timers', x) PROVE handle'[proc'[x]] = x
  <2>1. Has(timers, x) /\ x # t /\ handle[proc[x]] = x /\ proc[x] \in Kinds
    BY <1>5 DEF HandlesSound, TypeOK
  <2> QED BY <1>1, <2>1
<1> QED BY <1>1, <1>4, <1>5 DEF HandlesSound, Armed

\* A periodic timer is rescheduled behind all that is due at its new time.
LEMMA RescheduleIs ==
  ASSUME TimersInv, NEW k \in Kinds, Fires(k), Reschedule(k)
  PROVE  /\ ListTypes' /\ ListsSound' /\ HandlesSound'
         /\ time' = [time EXCEPT ![t] = time[t] + Usecs(k)]
         /\ handle' = handle
         /\ \A x : Has(timers', x) <=> Has(timers, x)
         /\ \A x, y : x # t /\ y # t => (Before(timers', x, y) <=> Before(timers, x, y))
         /\ \A x : Has(timers, x) /\ x # t =>
               /\ Before(timers', x, t) <=> time[x] <= time[t] + Usecs(k)
               /\ Before(timers', t, x) <=> time[t] + Usecs(k) < time[x]
<1>1. /\ t \in Slots /\ Has(timers, t) /\ proc' = proc
  BY FiresIs
<1>2. /\ time' = [time EXCEPT ![t] = time[t] + Usecs(k)]
      /\ timers' = list_resort(timers, time', t)
      /\ free_timers' = free_timers /\ handle' = handle
  BY DEF Reschedule
<1>3. TypeOK /\ ListsSound /\ HandlesSound /\ IsList(timers) /\ Sorted(timers, time)
  BY DEF TimersInv, ListsSound
<1>4. time \in [Slots -> Nat] /\ time[t] + Usecs(k) \in Nat
  <2>1. time \in [Slots -> Nat] /\ time[t] \in Nat
    BY <1>1, <1>3 DEF TypeOK
  <2> QED BY ONLY <2>1, UsecsIsNat
<1>5. /\ IsList(timers')
      /\ Sorted(timers', time')
      /\ \A x : Has(timers', x) <=> Has(timers, x)
      /\ \A x, y : x # t /\ y # t => (Before(timers', x, y) <=> Before(timers, x, y))
      /\ \A x : Has(timers, x) /\ x # t => (Before(timers', x, t) <=> time[x] <= time[t] + Usecs(k))
      /\ \A x : Has(timers, x) /\ x # t => (Before(timers', t, x) <=> time[t] + Usecs(k) < time[x])
  <2> DEFINE v == time[t] + Usecs(k)
  <2>1. v \in Nat
    BY <1>4
  <2>2. timers' = list_resort(timers, [time EXCEPT ![t] = v], t) /\ time' = [time EXCEPT ![t] = v]
    BY <1>2
  <2> HIDE DEF v
  <2>3. Resorted(timers, time, t, v, list_resort(timers, [time EXCEPT ![t] = v], t))
    BY ONLY <1>1, <1>3, <1>4, <2>1, ResortIs
  <2> QED BY ONLY <2>2, <2>3 DEF Resorted, v
<1>6. ListsSound'
  BY <1>2, <1>3, <1>5 DEF ListsSound
<1>7. ListTypes'
  BY <1>1, <1>2, <1>3, <1>4, <1>5 DEF ListTypes, IsList, TypeOK
<1>8. HandlesSound'
  BY <1>1, <1>2, <1>3, <1>5 DEF HandlesSound, Armed
<1> QED BY <1>2, <1>5, <1>6, <1>7, <1>8

\* The omit timer resets the stats timer and then the reporter timer to the same time:
\* they end up side by side, wherever they were.
LEMMA OmitIs ==
  ASSUME TimersInv, OmitTimerFires
  PROVE  /\ ListTypes' /\ ListsSound' /\ HandlesSound'
         /\ handle' = [handle EXCEPT !["omit_timer"] = NULL]
         /\ \A x : Has(timers', x) <=> (Has(timers, x) /\ x # t)
         /\ Adjacent(timers', handle["stats_timer"], handle["reporter_timer"])
         /\ time'[handle["stats_timer"]] = time'[handle["reporter_timer"]]
<1> DEFINE s == handle["stats_timer"]
           r == handle["reporter_timer"]
           v == now + Interval
           due1 == [time EXCEPT ![s] = v]
           L1 == list_resort(timers, due1, s)
           due2 == [due1 EXCEPT ![r] = v]
           L2 == list_resort(L1, due2, r)
<1>1. TypeOK /\ ListsSound /\ HandlesSound /\ Phases
  BY DEF TimersInv
<1>2. Fires("omit_timer") /\ handle' = [handle EXCEPT !["omit_timer"] = NULL]
  BY DEF OmitTimerFires
<1>3. Expire(L2) /\ time' = due2
  <2> DEFINE one == tmr_reset(timers, time, handle["stats_timer"], Interval)
             two == tmr_reset(one.list, one.due, handle["reporter_timer"], Interval)
  <2>1. Expire(two.list) /\ time' = two.due
    BY DEF OmitTimerFires
  <2>2. one.list = L1 /\ one.due = due1
    BY DEF tmr_reset
  <2> HIDE DEF one
  <2>3. two.list = L2 /\ two.due = due2
    BY <2>2 DEF tmr_reset
  <2> QED BY <2>1, <2>3
<1>4. /\ t \in Slots /\ Has(timers, t) /\ handle["omit_timer"] = t /\ proc[t] = "omit_timer"
      /\ pc = "run" /\ proc' = proc
  BY <1>2, FiresIs DEF Kinds
<1>5. /\ s \in Slots /\ Has(timers, s) /\ proc[s] = "stats_timer"
      /\ r \in Slots /\ Has(timers, r) /\ proc[r] = "reporter_timer"
  BY <1>1, <1>4 DEF Phases, HandlesSound, Armed, TypeOK, Kinds
<1>6. s # r /\ s # t /\ r # t
  BY <1>4, <1>5
<1>7. v \in Nat /\ time \in [Slots -> Nat]
  BY <1>1, DurationAssumption, BoundsAssumption DEF TypeOK
<1>8. due1 \in [Slots -> Nat] /\ due1[s] = v /\ \A x \in Slots : x # s => due1[x] = time[x]
  BY <1>5, <1>7
<1> HIDE DEF v
<1>9. due2 \in [Slots -> Nat] /\ due2[s] = v /\ due2[r] = v
  BY <1>5, <1>6, <1>7, <1>8
<1>10. IsList(timers) /\ Sorted(timers, time) /\ \A x : Has(timers, x) => x \in Slots
  BY <1>1, OrderIs DEF ListsSound
<1> HIDE DEF s, r
<1>11. Resorted(timers, time, s, v, L1)
  BY ONLY <1>5, <1>7, <1>10, ResortIs
<1> HIDE DEF L1
<1>12. IsList(L1) /\ Sorted(L1, due1) /\ Has(L1, r)
  BY <1>5, <1>11 DEF Resorted
<1> HIDE DEF due1
<1>13. Resorted(L1, due1, r, v, L2)
  BY ONLY <1>7, <1>8, <1>12, ResortIs
<1> HIDE DEF L2
<1>14. /\ IsList(L2) /\ Sorted(L2, due2)
       /\ \A x : Has(L2, x) <=> Has(timers, x)
  BY <1>11, <1>13 DEF Resorted
<1>15. Before(L2, s, r)
  BY <1>5, <1>6, <1>7, <1>8, <1>11, <1>13 DEF Resorted
<1>16. ASSUME NEW z \in Slots, Before(L2, s, z), Before(L2, z, r) PROVE FALSE
  <2>1. Has(L2, z) /\ z # s /\ z # r
    BY <1>14, <1>16, OrderIs
  <2>2. Has(timers, z) /\ Has(L1, z) /\ due1[z] = time[z] /\ time[z] \in Nat
    BY <1>7, <1>8, <1>11, <1>14, <2>1 DEF Resorted
  <2>3. Before(L1, s, z)
    BY <1>6, <1>13, <1>16, <2>1 DEF Resorted
  <2>4. v < time[z]
    BY <1>11, <2>1, <2>2, <2>3 DEF Resorted
  <2>5. time[z] <= v
    BY <1>13, <1>16, <2>1, <2>2 DEF Resorted
  <2> QED BY <1>7, <2>2, <2>4, <2>5
<1> HIDE DEF due2
<1>17. /\ IsList(timers') /\ IsList(free_timers')
       /\ \A x \in Slots : ~(Has(timers', x) /\ Has(free_timers', x))
       /\ \A x : Has(timers', x) <=> (Has(timers, x) /\ x # t)
       /\ \A x, y : Before(timers', x, y) <=> (Before(L2, x, y) /\ x # t /\ y # t)
  BY <1>1, <1>3, <1>4, <1>14, ExpireIs
<1>18. ListsSound'
  BY <1>3, <1>14, <1>17 DEF ListsSound, Sorted
<1>19. ListTypes'
  BY <1>1, <1>2, <1>3, <1>4, <1>9, <1>17 DEF ListTypes, IsList, TypeOK
<1>20. HandlesSound'
  <2>1. "omit_timer" \in Kinds
    BY DEF Kinds
  <2> QED BY <1>1, <1>2, <1>4, <1>17, <2>1, ExpireHandles
<1>21. Adjacent(timers', s, r)
  BY <1>6, <1>15, <1>16, <1>17 DEF Adjacent
<1>22. time'[s] = time'[r]
  BY <1>3, <1>9
<1> QED BY <1>2, <1>17, <1>18, <1>19, <1>20, <1>21, <1>22 DEF s, r

\* The test timer is cancelled; the others keep their order.
LEMMA TestIs ==
  ASSUME TimersInv, TestTimerFires
  PROVE  /\ ListTypes' /\ ListsSound' /\ HandlesSound'
         /\ handle' = [handle EXCEPT !["timer"] = NULL]
         /\ time' = time
         /\ \A x : Has(timers', x) <=> (Has(timers, x) /\ x # t)
         /\ \A x, y : Before(timers', x, y) <=> (Before(timers, x, y) /\ x # t /\ y # t)
<1>1. TypeOK /\ ListsSound /\ HandlesSound /\ IsList(timers)
  BY DEF TimersInv, ListsSound
<1>2. /\ Fires("timer") /\ Expire(timers) /\ handle' = [handle EXCEPT !["timer"] = NULL]
      /\ time' = time
  BY DEF TestTimerFires
<1>3. /\ t \in Slots /\ Has(timers, t) /\ handle["timer"] = t /\ proc' = proc /\ "timer" \in Kinds
  BY <1>2, FiresIs DEF Kinds
<1>4. /\ IsList(timers') /\ IsList(free_timers')
      /\ \A x \in Slots : ~(Has(timers', x) /\ Has(free_timers', x))
      /\ \A x : Has(timers', x) <=> (Has(timers, x) /\ x # t)
      /\ \A x, y : Before(timers', x, y) <=> (Before(timers, x, y) /\ x # t /\ y # t)
  BY <1>1, <1>2, <1>3, ExpireIs
<1>5. ListsSound'
  BY <1>1, <1>2, <1>4 DEF ListsSound, Sorted
<1>6. ListTypes'
  BY <1>1, <1>2, <1>3, <1>4 DEF ListTypes, IsList, TypeOK
<1>7. HandlesSound'
  BY <1>1, <1>2, <1>3, <1>4, ExpireHandles
<1> QED BY <1>2, <1>4, <1>5, <1>6, <1>7

-----------------------------------------------------------------------------
(* The invariant is inductive.                                             *)

\* Before the first test there is no timer and no handle.
LEMMA InitStep == Init => TimersInv
<1> SUFFICES ASSUME Init PROVE TimersInv
  OBVIOUS
<1> USE DEF Init
<1>1. TypeOK
  <2>1. 0 \in 0 .. MaxClock /\ 0 \in 0 .. MaxTests
    BY BoundsAssumption
  <2>2. "timer" \in Kinds /\ <<>> \in Seq(Slots)
    BY DEF Kinds
  <2>3. handle \in [Kinds -> Slots \cup {NULL}] /\ proc \in [Slots -> Kinds] /\ time \in [Slots -> Nat]
    BY <2>2
  <2> QED BY <2>1, <2>2, <2>3 DEF TypeOK
<1>2. IsList(<<>>) /\ (\A x : ~Has(<<>>, x)) /\ (\A x, y : ~Before(<<>>, x, y))
  BY DEF IsList, Has, Before
<1>3. ListsSound
  BY <1>2 DEF ListsSound, Sorted
<1>4. \A k \in Kinds : ~Armed(k)
  BY DEF Armed
<1>5. HandlesSound
  BY <1>2, <1>4 DEF HandlesSound
<1>6. Phases
  BY <1>4 DEF Phases
<1>7. Rhythm
  BY DEF Rhythm
<1> QED BY <1>1, <1>3, <1>5, <1>6, <1>7 DEF TimersInv

\* A step that leaves the timers alone.
LEMMA QuietLists ==
  ASSUME TimersInv, UNCHANGED lists
  PROVE  /\ timers' = timers /\ time' = time /\ handle' = handle
         /\ ListTypes' /\ ListsSound' /\ HandlesSound'
         /\ \A k \in Kinds : Armed(k)' <=> Armed(k)
<1>1. timers' = timers /\ free_timers' = free_timers /\ time' = time /\ proc' = proc /\ handle' = handle
  BY DEF lists
<1>2. ListTypes'
  BY <1>1 DEF ListTypes, TimersInv, TypeOK
<1>3. ListsSound'
  BY <1>1 DEF ListsSound, TimersInv
<1>4. \A k \in Kinds : Armed(k)' <=> Armed(k)
  BY <1>1 DEF Armed
<1>5. HandlesSound'
  BY <1>1 DEF HandlesSound, Armed, TimersInv
<1> QED BY <1>1, <1>2, <1>3, <1>4, <1>5

\* tmr_run starts at the head of the list, which is never the reporter timer.
LEMMA RunStep == TimersInv /\ tmr_run => TimersInv'
<1> SUFFICES ASSUME TimersInv, tmr_run PROVE TimersInv'
  OBVIOUS
<1>1. /\ pc = "loop" /\ pc' = "run" /\ now' = clock
      /\ t' = IF timers = <<>> THEN NULL ELSE Head(timers)
      /\ UNCHANGED lists /\ clock' = clock /\ done' = done /\ stats' = stats
      /\ reports' = reports /\ tests' = tests
  BY DEF tmr_run
<1>2. /\ timers' = timers /\ time' = time /\ handle' = handle
      /\ ListTypes' /\ ListsSound' /\ HandlesSound'
      /\ \A k \in Kinds : Armed(k)' <=> Armed(k)
  BY <1>1, QuietLists
<1>3. TypeOK /\ Phases /\ Rhythm
  BY DEF TimersInv
<1>4. t' = NULL \/ (t' \in Slots /\ Has(timers, t'))
  <2>1. CASE timers = <<>>
    BY <1>1, <2>1
  <2>2. CASE timers # <<>>
    <3>1. t' = timers[1] /\ 1 \in 1 .. Len(timers)
      BY <1>1, <1>3, <2>2 DEF TypeOK
    <3> QED BY <1>3, <3>1 DEF Has, TypeOK
  <2> QED BY <2>1, <2>2
<1>5. TypeOK'
  BY <1>1, <1>2, <1>3, <1>4 DEF TypeOK, ListTypes
<1>6. Phases'
  BY <1>1, <1>2, <1>3, <1>4 DEF Phases, Kinds
<1>7. Armed("reporter_timer") /\ Even
  BY <1>1, <1>3 DEF Phases, Rhythm, Odd
<1>8. t' # handle["reporter_timer"]
  <2>1. Before(timers, handle["stats_timer"], handle["reporter_timer"])
    BY <1>7 DEF Even, Adjacent
  <2>2. PICK i, j \in 1 .. Len(timers) : i < j /\ timers[j] = handle["reporter_timer"]
    BY <2>1 DEF Before
  <2>3. /\ Len(timers) \in Nat /\ timers # <<>>
        /\ \A m, n \in 1 .. Len(timers) : timers[m] = timers[n] => m = n
    BY <1>3, <2>2 DEF TimersInv, ListsSound, IsList, TypeOK
  <2>4. j # 1 /\ 1 \in 1 .. Len(timers)
    BY <2>2, <2>3
  <2> QED BY <1>1, <1>3, <2>2, <2>3, <2>4 DEF TypeOK
<1>9. Even'
  BY <1>1, <1>2, <1>7, <1>8 DEF Even
<1>10. Rhythm'
  BY <1>1, <1>2, <1>3, <1>9 DEF Rhythm
<1> QED BY <1>2, <1>5, <1>6, <1>10 DEF TimersInv

\* tmr_run cannot end between the stats and the reporter timer: the latter is due.
LEMMA RunEndStep == TimersInv /\ tmr_run_end => TimersInv'
<1> SUFFICES ASSUME TimersInv, tmr_run_end PROVE TimersInv'
  OBVIOUS
<1>1. /\ pc = "run" /\ pc' = "loop" /\ (t # NULL => time[t] > now)
      /\ UNCHANGED lists /\ t' = t /\ now' = now /\ clock' = clock /\ done' = done
      /\ stats' = stats /\ reports' = reports /\ tests' = tests
  BY DEF tmr_run_end
<1>2. /\ timers' = timers /\ time' = time /\ handle' = handle
      /\ ListTypes' /\ ListsSound' /\ HandlesSound'
      /\ \A k \in Kinds : Armed(k)' <=> Armed(k)
  BY <1>1, QuietLists
<1>3. TypeOK /\ Phases /\ Rhythm
  BY DEF TimersInv
<1>4. TypeOK'
  BY <1>1, <1>2, <1>3 DEF TypeOK, ListTypes
<1>5. Phases'
  BY <1>1, <1>2, <1>3 DEF Phases, Kinds
<1>6. Armed("reporter_timer")
  BY <1>1, <1>3 DEF Phases
<1>7. ~Odd
  <2> SUFFICES ASSUME Odd PROVE FALSE
    OBVIOUS
  <2>1. t = handle["reporter_timer"] /\ time[t] <= now
    BY DEF Odd
  <2>2. t # NULL
    BY <1>6, <2>1 DEF Armed
  <2>3. time[t] \in Nat /\ now \in Nat
    BY <1>3, <2>2, BoundsAssumption DEF TypeOK
  <2> QED BY <1>1, <2>1, <2>2, <2>3
<1>8. Even
  BY <1>1, <1>3, <1>6, <1>7 DEF Rhythm
<1>9. Even'
  BY <1>1, <1>2, <1>8 DEF Even
<1>10. Rhythm'
  BY <1>1, <1>2, <1>3, <1>9 DEF Rhythm
<1> QED BY <1>2, <1>4, <1>5, <1>10 DEF TimersInv

\* The main loop ends between two calls of tmr_run.
LEMMA LeaveStep == TimersInv /\ leave => TimersInv'
<1> SUFFICES ASSUME TimersInv, leave PROVE TimersInv'
  OBVIOUS
<1>1. /\ pc = "loop" /\ pc' = "over"
      /\ UNCHANGED lists /\ t' = t /\ now' = now /\ clock' = clock /\ done' = done
      /\ stats' = stats /\ reports' = reports /\ tests' = tests
  BY DEF leave
<1>2. /\ timers' = timers /\ time' = time /\ handle' = handle
      /\ ListTypes' /\ ListsSound' /\ HandlesSound'
  BY <1>1, QuietLists
<1>3. TypeOK /\ Phases /\ Rhythm
  BY DEF TimersInv
<1>4. TypeOK'
  BY <1>1, <1>2, <1>3 DEF TypeOK, ListTypes
<1>5. Phases'
  BY <1>1, <1>3 DEF Phases
<1>6. Rhythm'
  BY <1>1, <1>3 DEF Rhythm
<1> QED BY <1>2, <1>4, <1>5, <1>6 DEF TimersInv

\* stopTest sets done, which both procs look at: the counts stand still.
LEMMA StopStep == TimersInv /\ stopTest => TimersInv'
<1> SUFFICES ASSUME TimersInv, stopTest PROVE TimersInv'
  OBVIOUS
<1>1. /\ pc \in {"loop", "run"} /\ done' = TRUE
      /\ UNCHANGED lists /\ pc' = pc /\ t' = t /\ now' = now /\ clock' = clock
      /\ stats' = stats /\ reports' = reports /\ tests' = tests
  BY DEF stopTest
<1>2. /\ timers' = timers /\ time' = time /\ handle' = handle
      /\ ListTypes' /\ ListsSound' /\ HandlesSound'
      /\ \A k \in Kinds : Armed(k)' <=> Armed(k)
  BY <1>1, QuietLists
<1>3. TypeOK /\ Phases /\ Rhythm
  BY DEF TimersInv
<1>4. TypeOK'
  BY <1>1, <1>2, <1>3 DEF TypeOK, ListTypes
<1>5. Phases'
  BY <1>1, <1>2, <1>3 DEF Phases, Kinds
<1>6. Even \/ Odd
  BY <1>1, <1>3 DEF Rhythm, Phases
<1>7. Even => Even'
  BY <1>1, <1>2 DEF Even
<1>8. Odd => Odd'
  BY <1>1, <1>2 DEF Odd
<1>9. Rhythm'
  BY <1>1, <1>2, <1>3, <1>6, <1>7, <1>8 DEF Rhythm
<1> QED BY <1>2, <1>4, <1>5, <1>9 DEF TimersInv

\* The clock stands still while the timers are created: their times agree.
LEMMA TickStep == TimersInv /\ tick => TimersInv'
<1> SUFFICES ASSUME TimersInv, tick PROVE TimersInv'
  OBVIOUS
<1>1. /\ ~(pc = "armed" /\ ~Armed("reporter_timer"))
      /\ \E d \in Jumps : clock' = clock + d
      /\ clock' <= MaxClock
      /\ UNCHANGED lists /\ pc' = pc /\ t' = t /\ now' = now /\ done' = done
      /\ stats' = stats /\ reports' = reports /\ tests' = tests
  BY DEF tick
<1>2. /\ timers' = timers /\ time' = time /\ handle' = handle
      /\ ListTypes' /\ ListsSound' /\ HandlesSound'
      /\ \A k \in Kinds : Armed(k)' <=> Armed(k)
  BY <1>1, QuietLists
<1>3. TypeOK /\ Phases /\ Rhythm
  BY DEF TimersInv
<1>4. clock' \in 0 .. MaxClock
  BY <1>1, <1>3, BoundsAssumption DEF TypeOK
<1>5. TypeOK'
  BY <1>1, <1>2, <1>3, <1>4 DEF TypeOK, ListTypes
<1>6. Phases'
  BY <1>1, <1>2, <1>3 DEF Phases, Kinds
<1>7. Even => Even'
  BY <1>1, <1>2 DEF Even
<1>8. Odd => Odd'
  BY <1>1, <1>2 DEF Odd
<1>9. Rhythm'
  <2>1. Armed("reporter_timer")' <=> Armed("reporter_timer")
    BY <1>2 DEF Kinds
  <2> QED BY <1>1, <1>3, <1>7, <1>8, <2>1 DEF Rhythm
<1> QED BY <1>2, <1>5, <1>6, <1>9 DEF TimersInv

\* After cleanup_server or iperf_free_test no handle is set.
LEMMA CancelledStep == TimersInv /\ (cleanup_server \/ iperf_free_test) => TimersInv'
<1> SUFFICES ASSUME TimersInv, cleanup_server \/ iperf_free_test PROVE TimersInv'
  OBVIOUS
<1>1. TypeOK /\ ListsSound /\ HandlesSound /\ Phases /\ Rhythm
  BY DEF TimersInv
<1>2. ListTypes' /\ ListsSound' /\ HandlesSound' /\ \A k \in Kinds : ~(Armed(k)')
  <2>1. CASE cleanup_server
    <3>1. CancelAll("stats_timer", "reporter_timer", "omit_timer", "timer")
      BY <2>1 DEF cleanup_server
    <3>2. Kinds = {"stats_timer", "reporter_timer", "omit_timer", "timer"}
      BY DEF Kinds
    <3> QED BY <1>1, <3>1, <3>2, CancelAllIs
  <2>2. CASE iperf_free_test
    <3>1. CancelAll("omit_timer", "timer", "stats_timer", "reporter_timer")
      BY <2>2 DEF iperf_free_test
    <3>2. Kinds = {"omit_timer", "timer", "stats_timer", "reporter_timer"}
      BY DEF Kinds
    <3> QED BY <1>1, <3>1, <3>2, CancelAllIs
  <2> QED BY <2>1, <2>2
<1>3. /\ pc' \in {"over", "idle"} /\ t' = t /\ now' = now /\ clock' = clock /\ done' = done
      /\ stats' = stats /\ reports' = reports
  BY DEF cleanup_server, iperf_free_test
<1>4. tests' \in 0 .. MaxTests /\ (pc' # "idle" => tests' < MaxTests)
  <2>1. pc = "over" /\ tests < MaxTests /\ tests \in 0 .. MaxTests
    BY <1>1 DEF cleanup_server, iperf_free_test, Phases, TypeOK
  <2>2. CASE cleanup_server
    BY <2>1, <2>2 DEF cleanup_server
  <2>3. CASE iperf_free_test
    BY <2>1, <2>3, BoundsAssumption DEF iperf_free_test
  <2> QED BY <2>2, <2>3
<1>5. TypeOK'
  BY <1>1, <1>2, <1>3, <1>4 DEF TypeOK, ListTypes
<1>6. Phases'
  BY <1>2, <1>3, <1>4 DEF Phases
<1>7. Rhythm'
  BY <1>1, <1>3 DEF Rhythm
<1> QED BY <1>2, <1>5, <1>6, <1>7 DEF TimersInv

\* malloc has failed: nothing has changed.
LEMMA CreateFails ==
  ASSUME TimersInv, NEW k \in Kinds, ~Armed(k), tmr_create(k, NULL)
  PROVE  UNCHANGED lists
<1>1. handle[k] = NULL /\ handle \in [Kinds -> Slots \cup {NULL}]
  BY DEF Armed, TimersInv, TypeOK
<1>2. [handle EXCEPT ![k] = NULL] = handle
  BY <1>1
<1> QED BY <1>2 DEF tmr_create, lists

\* The stats timer is created after all that is due at its time, and the reporter
\* timer, due at the same time, right after it.
LEMMA CreateTimersStep == TimersInv /\ create_timers => TimersInv'
<1> SUFFICES ASSUME TimersInv, create_timers PROVE TimersInv'
  OBVIOUS
<1>1. TypeOK /\ ListsSound /\ HandlesSound /\ Phases /\ Rhythm
  BY DEF TimersInv
<1>2. t' = t /\ now' = now /\ clock' = clock /\ tests' = tests
  BY DEF create_timers
<1>3. CASE /\ pc = "idle" /\ tests < MaxTests /\ pc' = "armed" /\ done' = FALSE
           /\ stats' = 0 /\ reports' = 0 /\ UNCHANGED lists
  <2>1. /\ ListTypes' /\ ListsSound' /\ HandlesSound'
        /\ \A k \in Kinds : ~(Armed(k)')
    BY <1>1, <1>3, QuietLists DEF Phases
  <2>2. TypeOK'
    BY <1>1, <1>2, <1>3, <2>1 DEF TypeOK, ListTypes
  <2>3. Phases'
    BY <1>2, <1>3, <2>1 DEF Phases, Kinds
  <2>4. ~(Armed("stats_timer")') /\ ~(Armed("reporter_timer")')
    BY <2>1 DEF Kinds
  <2>5. Rhythm'
    BY <1>3, <2>4 DEF Rhythm
  <2> QED BY <2>1, <2>2, <2>3, <2>5 DEF TimersInv
<1> DEFINE k == IF ~Armed("timer") THEN "timer"
                ELSE IF ~Armed("stats_timer") THEN "stats_timer" ELSE "reporter_timer"
<1>4. ASSUME NEW s \in Allocations, pc = "armed", ~Armed("reporter_timer"),
             tmr_create(k, s), pc' = IF s = NULL THEN "over" ELSE "armed",
             done' = done, stats' = stats, reports' = reports
      PROVE  TimersInv'
  <2>1. k \in Kinds /\ ~Armed(k)
    BY <1>4 DEF Kinds
  <2>2. reports = stats /\ tests < MaxTests
    BY <1>1, <1>4 DEF Rhythm, Phases
  <2>3. CASE s = NULL
    <3>1. UNCHANGED lists
      BY <1>4, <2>1, <2>3, CreateFails
    <3>2. ListTypes' /\ ListsSound' /\ HandlesSound'
      BY <3>1, QuietLists
    <3>3. TypeOK'
      BY <1>1, <1>2, <1>4, <2>3, <3>2 DEF TypeOK, ListTypes
    <3>4. Phases'
      BY <1>2, <1>4, <2>2, <2>3 DEF Phases
    <3>5. Rhythm'
      BY <1>1, <1>4, <2>3 DEF Rhythm
    <3> QED BY <3>2, <3>3, <3>4, <3>5 DEF TimersInv
  <2>4. CASE s # NULL
    <3> DEFINE v == clock + Usecs(k)
    <3>1. /\ ListTypes' /\ ListsSound' /\ HandlesSound'
          /\ s \in Slots /\ ~Has(timers, s)
          /\ handle' = [handle EXCEPT ![k] = s]
          /\ time' = [time EXCEPT ![s] = v]
          /\ \A x : Has(timers', x) <=> (Has(timers, x) \/ x = s)
          /\ \A x, y : x # s /\ y # s => (Before(timers', x, y) <=> Before(timers, x, y))
          /\ \A x : Has(timers, x) => (Before(timers', x, s) <=> time[x] <= v)
          /\ \A x : Has(timers, x) => (Before(timers', s, x) <=> v < time[x])
      BY <1>1, <1>4, <2>1, <2>4, CreateIs
    <3>2. pc' = "armed"
      BY <1>4, <2>4
    <3>3. TypeOK'
      BY <1>1, <1>2, <1>4, <3>1, <3>2 DEF TypeOK, ListTypes
    <3>4. handle'[k] # NULL /\ \A j \in Kinds \ {k} : handle'[j] = handle[j]
      <4> HIDE DEF k
      <4>1. handle \in [Kinds -> Slots \cup {NULL}]
        BY <1>1 DEF TypeOK
      <4> QED BY <2>1, <2>4, <3>1, <4>1
    <3>5. /\ ~Armed("omit_timer") /\ (Armed("stats_timer") => Armed("timer"))
      BY <1>1, <1>4 DEF Phases
    <3>6. Phases'
      <4>1. ~(Armed("omit_timer")')
        BY <3>4, <3>5 DEF Armed, Kinds
      <4>2. Armed("reporter_timer")' => Armed("stats_timer")'
        BY <1>4, <3>4 DEF Armed, Kinds
      <4>3. Armed("stats_timer")' => Armed("timer")'
        BY <3>4, <3>5 DEF Armed, Kinds
      <4> QED BY <1>2, <2>2, <3>2, <4>1, <4>2, <4>3 DEF Phases
    <3>7. IsList(timers) /\ IsList(timers') /\ time' \in [Slots -> Nat] /\ time'[s] = v
          /\ \A x \in Slots : x # s => time'[x] = time[x]
      BY <1>1, <3>1 DEF ListsSound, ListTypes, TypeOK
    <3>8. CASE k = "timer"
      <4>1. ~(Armed("stats_timer")') /\ ~(Armed("reporter_timer")')
        <5>1. ~Armed("stats_timer")
          BY <1>1, <1>4, <2>1, <3>8 DEF Phases
        <5> QED BY <1>4, <3>4, <3>8, <5>1 DEF Armed, Kinds
      <4>2. Rhythm'
        BY <1>4, <2>2, <3>2, <4>1 DEF Rhythm
      <4> QED BY <3>1, <3>3, <3>6, <4>2 DEF TimersInv
    <3>9. CASE k = "stats_timer"
      <4>1. handle'["stats_timer"] = s /\ v = clock + Interval
        BY <1>1, <3>1, <3>9 DEF TypeOK, Usecs, Kinds
      <4>2. ~(Armed("reporter_timer")')
        BY <1>4, <3>4, <3>9 DEF Armed, Kinds
      <4>3. LastOfItsTime(timers', time', s)
        <5> SUFFICES ASSUME NEW y \in Slots, Before(timers', s, y) PROVE time'[s] < time'[y]
          BY DEF LastOfItsTime
        <5>1. Has(timers', y) /\ y # s
          BY <3>7, OrderIs
        <5> QED BY <3>1, <3>7, <5>1
      <4>4. Rhythm'
        BY <1>2, <1>4, <2>2, <3>2, <3>7, <4>1, <4>2, <4>3 DEF Rhythm
      <4> QED BY <3>1, <3>3, <3>6, <4>4 DEF TimersInv
    <3>10. CASE k = "reporter_timer"
      <4> DEFINE a == handle["stats_timer"]
      <4>1. Armed("stats_timer")
        BY <3>10
      <4>2. a \in Slots /\ Has(timers, a) /\ a # s
        BY <1>1, <3>1, <4>1 DEF HandlesSound, Armed, TypeOK, Kinds
      <4>3. time[a] = v /\ LastOfItsTime(timers, time, a)
        BY <1>1, <1>4, <3>10, <4>1 DEF Rhythm, Usecs
      <4>4. handle'["stats_timer"] = a /\ handle'["reporter_timer"] = s
        BY <1>1, <3>1, <3>10 DEF TypeOK, Kinds
      <4>5. v \in Nat
        BY <3>1, <3>7
      <4> HIDE DEF a, v
      <4>6. Before(timers', a, s)
        BY <3>1, <4>2, <4>3, <4>5
      <4>7. ASSUME NEW z \in Slots, Before(timers', a, z), Before(timers', z, s) PROVE FALSE
        <5>1. Has(timers', z) /\ z # a /\ z # s
          BY <3>7, <4>7, OrderIs
        <5>2. Has(timers, z) /\ time[z] <= v
          BY <3>1, <4>7, <5>1
        <5>3. Before(timers, a, z)
          BY <3>1, <4>2, <4>7, <5>1
        <5>4. v < time[z]
          BY <4>3, <5>3 DEF LastOfItsTime
        <5>5. time[z] \in Nat
          BY <1>1 DEF TypeOK
        <5> QED BY <4>5, <5>2, <5>4, <5>5
      <4>8. Adjacent(timers', a, s)
        BY <4>6, <4>7 DEF Adjacent
      <4>9. time'[a] = time'[s]
        BY <3>7, <4>2, <4>3
      <4>10. Even'
        BY <1>4, <2>2, <3>2, <4>4, <4>8, <4>9 DEF Even
      <4>11. Armed("reporter_timer")'
        BY <3>4, <3>10 DEF Armed
      <4>12. Rhythm'
        BY <1>4, <2>2, <3>2, <4>10, <4>11 DEF Rhythm
      <4> QED BY <3>1, <3>3, <3>6, <4>12 DEF TimersInv
    <3> QED BY <3>8, <3>9, <3>10
  <2> QED BY <2>3, <2>4
<1> QED BY <1>3, <1>4 DEF create_timers

\* The omit timer never comes between the stats timer and the reporter timer.
LEMMA CreateOmitStep == TimersInv /\ create_omit_timer => TimersInv'
<1> SUFFICES ASSUME TimersInv, create_omit_timer PROVE TimersInv'
  OBVIOUS
<1>1. TypeOK /\ ListsSound /\ HandlesSound /\ Phases /\ Rhythm
  BY DEF TimersInv
<1>2. /\ pc = "armed" /\ Armed("reporter_timer")
      /\ t' = t /\ now' = now /\ clock' = clock /\ done' = done /\ stats' = stats
      /\ reports' = reports /\ tests' = tests
  BY DEF create_omit_timer
<1>3. /\ Armed("stats_timer") /\ ~Armed("omit_timer") /\ tests < MaxTests
      /\ reports = stats /\ Even
  BY <1>1, <1>2 DEF Phases, Rhythm, Odd
<1>4. ASSUME UNCHANGED lists, pc' \in {"loop", "over"} PROVE TimersInv'
  <2>1. /\ timers' = timers /\ time' = time /\ handle' = handle
        /\ ListTypes' /\ ListsSound' /\ HandlesSound'
        /\ \A k \in Kinds : Armed(k)' <=> Armed(k)
    BY <1>4, QuietLists
  <2>2. TypeOK'
    BY <1>1, <1>2, <1>4, <2>1 DEF TypeOK, ListTypes
  <2>3. Phases'
    BY <1>2, <1>3, <1>4, <2>1 DEF Phases, Kinds
  <2>4. Even'
    BY <1>2, <1>3, <1>4, <2>1 DEF Even
  <2>5. Rhythm'
    BY <1>1, <1>2, <1>4, <2>4 DEF Rhythm
  <2> QED BY <2>1, <2>2, <2>3, <2>5 DEF TimersInv
<1>5. ASSUME NEW s \in Allocations, s # NULL, tmr_create("omit_timer", s), pc' = "loop"
      PROVE  TimersInv'
  <2> DEFINE v == clock + Usecs("omit_timer")
             a == handle["stats_timer"]
             b == handle["reporter_timer"]
  <2>1. /\ ListTypes' /\ ListsSound' /\ HandlesSound'
        /\ s \in Slots /\ ~Has(timers, s)
        /\ handle' = [handle EXCEPT !["omit_timer"] = s]
        /\ time' = [time EXCEPT ![s] = v]
        /\ \A x : Has(timers', x) <=> (Has(timers, x) \/ x = s)
        /\ \A x, y : x # s /\ y # s => (Before(timers', x, y) <=> Before(timers, x, y))
        /\ \A x : Has(timers, x) => (Before(timers', x, s) <=> time[x] <= v)
        /\ \A x : Has(timers, x) => (Before(timers', s, x) <=> v < time[x])
    <3>1. "omit_timer" \in Kinds
      BY DEF Kinds
    <3> QED BY <1>1, <1>3, <1>5, <3>1, CreateIs
  <2>2. TypeOK'
    BY <1>1, <1>2, <1>5, <2>1 DEF TypeOK, ListTypes
  <2>3. handle'["stats_timer"] = a /\ handle'["reporter_timer"] = b
    BY <1>1, <2>1 DEF TypeOK, Kinds
  <2>4. /\ a \in Slots /\ Has(timers, a) /\ b \in Slots /\ Has(timers, b)
        /\ a # s /\ b # s /\ a # NULL /\ b # NULL
    BY <1>1, <1>2, <1>3, <2>1 DEF HandlesSound, Armed, TypeOK, Kinds
  <2>5. Adjacent(timers, a, b) /\ time[a] = time[b]
    BY <1>3 DEF Even
  <2>6. v \in Nat /\ time[a] \in Nat /\ time'[a] = time[a] /\ time'[b] = time[b]
    BY <1>1, <2>1, <2>4 DEF ListTypes, TypeOK
  <2>7. Phases'
    BY <1>2, <1>3, <1>5, <2>3, <2>4 DEF Phases, Armed
  <2> HIDE DEF v, a, b
  <2>8. Adjacent(timers', a, b)
    <3>1. Before(timers', a, b)
      BY <2>1, <2>4, <2>5 DEF Adjacent
    <3>2. ASSUME NEW z \in Slots, Before(timers', a, z), Before(timers', z, b) PROVE FALSE
      <4>1. CASE z = s
        <5>1. time[a] <= v /\ v < time[b]
          BY <2>1, <2>4, <3>2, <4>1
        <5> QED BY <2>5, <2>6, <5>1
      <4>2. CASE z # s
        <5>1. Before(timers, a, z) /\ Before(timers, z, b)
          BY <2>1, <2>4, <3>2, <4>2
        <5> QED BY <2>5, <5>1 DEF Adjacent
      <4> QED BY <4>1, <4>2
    <3> QED BY <3>1, <3>2 DEF Adjacent
  <2>9. Even'
    BY <1>2, <1>3, <1>5, <2>3, <2>5, <2>6, <2>8 DEF Even
  <2>10. Rhythm'
    BY <1>1, <1>2, <1>5, <2>9 DEF Rhythm
  <2> QED BY <2>1, <2>2, <2>7, <2>10 DEF TimersInv
<1>6. ASSUME NEW s \in Allocations, tmr_create("omit_timer", s),
             pc' = IF s = NULL THEN "over" ELSE "loop"
      PROVE  TimersInv'
  <2>1. CASE s = NULL
    <3>1. UNCHANGED lists
      <4>1. "omit_timer" \in Kinds
        BY DEF Kinds
      <4> QED BY <1>3, <1>6, <2>1, <4>1, CreateFails
    <3> QED BY <1>4, <1>6, <2>1, <3>1
  <2>2. CASE s # NULL
    BY <1>5, <1>6, <2>2
  <2> QED BY <2>1, <2>2
<1> QED BY <1>4, <1>6 DEF create_omit_timer

\* What every firing leaves of the types and phases, given the new lists.
LEMMA FiredTypes ==
  ASSUME TimersInv, NEW k \in Kinds, Fires(k), ListTypes', done' \in BOOLEAN,
         stats' \in Nat, reports' \in Nat
  PROVE  TypeOK'
BY FiresIs DEF TimersInv, TypeOK, ListTypes

\* The stats timer fires: tmr_run goes to the reporter timer, and nothing that is due
\* with the stats timer at its new time comes after it.
LEMMA StatsStep ==
  ASSUME TimersInv, Fires("stats_timer"), Reschedule("stats_timer"),
         stats' = (IF done THEN stats ELSE stats + 1), done' = done, reports' = reports
  PROVE  TimersInv'
<1> DEFINE k == "stats_timer"
           r == handle["reporter_timer"]
           v == time[t] + Interval
<1>1. TypeOK /\ ListsSound /\ HandlesSound /\ Phases /\ Rhythm
  BY DEF TimersInv
<1>2. k \in Kinds /\ Usecs(k) = Interval
  BY DEF Kinds, Usecs
<1>3. /\ t \in Slots /\ Has(timers, t) /\ handle[k] = t /\ proc[t] = k
      /\ pc = "run" /\ time[t] <= now
      /\ t' = NULL \/ (t' \in Slots /\ Has(timers, t') /\ t' # t)
      /\ \A y \in Slots : Adjacent(timers, t, y) => t' = y
      /\ proc' = proc /\ pc' = pc /\ now' = now /\ clock' = clock /\ tests' = tests
  BY <1>2, FiresIs
<1>4. /\ ListTypes' /\ ListsSound' /\ HandlesSound'
      /\ time' = [time EXCEPT ![t] = v]
      /\ handle' = handle
      /\ \A x : Has(timers', x) <=> Has(timers, x)
      /\ \A x : Has(timers, x) /\ x # t => (Before(timers', t, x) <=> v < time[x])
  BY <1>2, RescheduleIs
<1>5. r \in Slots /\ r # t /\ r # NULL /\ Armed("reporter_timer") /\ Armed("stats_timer")
  BY <1>1, <1>3 DEF Phases, HandlesSound, Armed, TypeOK, Kinds
<1>6. Even
  BY <1>1, <1>3, <1>5 DEF Rhythm, Odd
<1>7. Adjacent(timers, t, r) /\ time[t] = time[r]
  BY <1>3, <1>6 DEF Even
<1>8. t' = r
  BY <1>3, <1>5, <1>7
<1>9. /\ time[t] \in Nat /\ time[r] \in Nat /\ v \in Nat /\ time'[t] = v
      /\ \A x \in Slots : x # t => time'[x] = time[x]
  BY <1>1, <1>3, <1>4, <1>5, DurationAssumption DEF TypeOK
<1>10. stats \in Nat /\ reports \in Nat /\ stats' \in Nat
  BY <1>1 DEF TypeOK
<1>11. TypeOK'
  BY <1>1, <1>2, <1>4, <1>10, FiredTypes DEF TypeOK
<1>12. Phases'
  BY <1>1, <1>3, <1>4, <1>5 DEF Phases, Armed
<1>13. LastOfItsTime(timers', time', t)
  <2> HIDE DEF v
  <2> SUFFICES ASSUME NEW y \in Slots, Before(timers', t, y) PROVE time'[t] < time'[y]
    BY DEF LastOfItsTime
  <2>1. Has(timers', y) /\ y # t
    BY <1>4, OrderIs DEF ListsSound
  <2> QED BY <1>4, <1>9, <2>1
<1>14. /\ ~done => reports = stats
       /\ reports \in {stats - 1, stats}
  BY <1>1, <1>6 DEF Even, Rhythm
<1>15. ~done' => reports' = stats' - 1
  BY <1>10, <1>14
<1>16. reports' \in {stats' - 1, stats'}
  BY <1>10, <1>14
<1>17. Odd'
  BY <1>3, <1>4, <1>5, <1>7, <1>8, <1>9, <1>13, <1>15 DEF Odd
<1>18. Rhythm'
  BY <1>3, <1>16, <1>17 DEF Rhythm
<1> QED BY <1>4, <1>11, <1>12, <1>18 DEF TimersInv

\* The reporter timer fires after the stats timer and is put right behind it again.
LEMMA ReporterStep ==
  ASSUME TimersInv, Fires("reporter_timer"), Reschedule("reporter_timer"),
         reports' = (IF done THEN reports ELSE reports + 1), done' = done, stats' = stats
  PROVE  TimersInv'
<1> DEFINE k == "reporter_timer"
           a == handle["stats_timer"]
           v == time[t] + Interval
<1>1. TypeOK /\ ListsSound /\ HandlesSound /\ Phases /\ Rhythm
  BY DEF TimersInv
<1>2. k \in Kinds /\ Usecs(k) = Interval
  BY DEF Kinds, Usecs
<1>3. /\ t \in Slots /\ Has(timers, t) /\ handle[k] = t /\ proc[t] = k
      /\ pc = "run" /\ time[t] <= now
      /\ t' = NULL \/ (t' \in Slots /\ Has(timers, t') /\ t' # t)
      /\ proc' = proc /\ pc' = pc /\ now' = now /\ clock' = clock /\ tests' = tests
  BY <1>2, FiresIs
<1>4. /\ ListTypes' /\ ListsSound' /\ HandlesSound'
      /\ time' = [time EXCEPT ![t] = v]
      /\ handle' = handle
      /\ \A x : Has(timers', x) <=> Has(timers, x)
      /\ \A x, y : x # t /\ y # t => (Before(timers', x, y) <=> Before(timers, x, y))
      /\ \A x : Has(timers, x) /\ x # t => (Before(timers', x, t) <=> time[x] <= v)
  BY <1>2, RescheduleIs
<1>5. a \in Slots /\ Has(timers, a) /\ a # t /\ a # NULL /\ Armed("reporter_timer")
  BY <1>1, <1>3 DEF Phases, HandlesSound, Armed, TypeOK, Kinds
<1>6. Odd
  BY <1>1, <1>3, <1>5 DEF Rhythm, Even
<1>7. /\ time[a] = v /\ LastOfItsTime(timers, time, a)
      /\ ~done => reports = stats - 1
  BY <1>6 DEF Odd
<1>8. /\ time[t] \in Nat /\ v \in Nat /\ time'[t] = v /\ time'[a] = v
  BY <1>1, <1>3, <1>4, <1>5, <1>7, DurationAssumption DEF TypeOK
<1>9. stats \in Nat /\ reports \in Nat /\ reports' \in Nat
  BY <1>1 DEF TypeOK
<1>10. TypeOK'
  BY <1>1, <1>2, <1>4, <1>9, FiredTypes DEF TypeOK
<1>11. Phases'
  BY <1>1, <1>3, <1>4, <1>5 DEF Phases, Armed
<1> HIDE DEF v, a
<1>12. Adjacent(timers', a, t)
  <2>1. Before(timers', a, t)
    BY <1>4, <1>5, <1>7, <1>8
  <2>2. ASSUME NEW z \in Slots, Before(timers', a, z), Before(timers', z, t) PROVE FALSE
    <3>1. Has(timers', z) /\ z # t
      BY <1>4, <2>2, OrderIs DEF ListsSound
    <3>2. Before(timers, a, z) /\ time[z] <= v
      BY <1>4, <1>5, <2>2, <3>1
    <3>3. v < time[z] /\ time[z] \in Nat
      BY <1>1, <1>7, <3>2 DEF LastOfItsTime, TypeOK
    <3> QED BY <1>8, <3>2, <3>3
  <2> QED BY <2>1, <2>2 DEF Adjacent
<1>13. ~done' => reports' = stats'
  BY <1>7, <1>9
<1>14. reports' \in {stats' - 1, stats'}
  BY <1>1, <1>7, <1>9 DEF Rhythm
<1>15. Even'
  <2>1. t' # t
    BY <1>3, SlotsAssumption
  <2> QED BY <1>3, <1>4, <1>5, <1>8, <1>12, <1>13, <2>1 DEF Even, a
<1>16. Rhythm'
  BY <1>3, <1>14, <1>15 DEF Rhythm
<1> QED BY <1>4, <1>10, <1>11, <1>16 DEF TimersInv

\* The end of the test leaves the stats timer and the reporter timer side by side.
LEMMA TestStep == TimersInv /\ TestTimerFires => TimersInv'
<1> SUFFICES ASSUME TimersInv, TestTimerFires PROVE TimersInv'
  OBVIOUS
<1> DEFINE k == "timer"
           a == handle["stats_timer"]
           b == handle["reporter_timer"]
<1>1. TypeOK /\ ListsSound /\ HandlesSound /\ Phases /\ Rhythm
  BY DEF TimersInv
<1>2. k \in Kinds /\ Fires(k) /\ done' = TRUE /\ stats' = stats /\ reports' = reports
  BY DEF Kinds, TestTimerFires
<1>3. /\ t \in Slots /\ Has(timers, t) /\ handle[k] = t /\ proc[t] = k
      /\ pc = "run"
      /\ t' = NULL \/ (t' \in Slots /\ Has(timers, t') /\ t' # t)
      /\ \A x, y \in Slots : Adjacent(timers, x, y) /\ x # t => t' # y
      /\ pc' = pc /\ tests' = tests
  BY <1>2, FiresIs
<1>4. /\ ListTypes' /\ ListsSound' /\ HandlesSound'
      /\ handle' = [handle EXCEPT !["timer"] = NULL]
      /\ time' = time
      /\ \A x : Has(timers', x) <=> (Has(timers, x) /\ x # t)
      /\ \A x, y : Before(timers', x, y) <=> (Before(timers, x, y) /\ x # t /\ y # t)
  BY TestIs
<1>5. /\ a \in Slots /\ a # t /\ a # NULL
      /\ b \in Slots /\ b # t /\ b # NULL /\ Armed("reporter_timer")
  BY <1>1, <1>3 DEF Phases, HandlesSound, Armed, TypeOK, Kinds
<1>6. handle'["stats_timer"] = a /\ handle'["reporter_timer"] = b
  BY <1>1, <1>4 DEF TypeOK, Kinds
<1>7. Even
  BY <1>1, <1>3, <1>5 DEF Rhythm, Odd
<1>8. Adjacent(timers, a, b) /\ time[a] = time[b]
  BY <1>7 DEF Even
<1>9. Adjacent(timers', a, b)
  BY <1>4, <1>5, <1>8 DEF Adjacent
<1>10. TypeOK'
  BY <1>1, <1>2, <1>4, FiredTypes DEF TypeOK
<1>11. Phases'
  BY <1>1, <1>3, <1>4, <1>5, <1>6 DEF Phases, Armed
<1>12. Even'
  BY <1>2, <1>3, <1>4, <1>5, <1>6, <1>8, <1>9 DEF Even
<1>13. Rhythm'
  BY <1>1, <1>2, <1>3, <1>12 DEF Rhythm
<1> QED BY <1>4, <1>10, <1>11, <1>13 DEF TimersInv

\* The omit timer, after which tmr_run goes on at the next pointer it has read before.
LEMMA OmitStep == TimersInv /\ OmitTimerFires => TimersInv'
<1> SUFFICES ASSUME TimersInv, OmitTimerFires PROVE TimersInv'
  OBVIOUS
<1> DEFINE k == "omit_timer"
           a == handle["stats_timer"]
           b == handle["reporter_timer"]
<1>1. TypeOK /\ ListsSound /\ HandlesSound /\ Phases /\ Rhythm
  BY DEF TimersInv
<1>2. k \in Kinds /\ Fires(k) /\ done' = done /\ stats' = stats /\ reports' = reports
  BY DEF Kinds, OmitTimerFires
<1>3. /\ t \in Slots /\ Has(timers, t) /\ handle[k] = t /\ proc[t] = k
      /\ pc = "run"
      /\ t' = NULL \/ (t' \in Slots /\ Has(timers, t') /\ t' # t)
      /\ \A x, y \in Slots : Adjacent(timers, x, y) /\ x # t => t' # y
      /\ pc' = pc /\ tests' = tests
  BY <1>2, FiresIs
<1>4. /\ ListTypes' /\ ListsSound' /\ HandlesSound'
      /\ handle' = [handle EXCEPT !["omit_timer"] = NULL]
      /\ \A x : Has(timers', x) <=> (Has(timers, x) /\ x # t)
      /\ Adjacent(timers', a, b)
      /\ time'[a] = time'[b]
  BY OmitIs
<1>5. /\ a \in Slots /\ a # t /\ a # NULL
      /\ b \in Slots /\ b # t /\ b # NULL /\ Armed("reporter_timer")
  BY <1>1, <1>3 DEF Phases, HandlesSound, Armed, TypeOK, Kinds
<1>6. handle'["stats_timer"] = a /\ handle'["reporter_timer"] = b
  BY <1>1, <1>4 DEF TypeOK, Kinds
<1>7. Even
  BY <1>1, <1>3, <1>5 DEF Rhythm, Odd
<1>8. t' # b
  BY <1>3, <1>5, <1>7 DEF Even
<1>9. TypeOK'
  BY <1>1, <1>2, <1>4, FiredTypes DEF TypeOK
<1>10. Phases'
  BY <1>1, <1>3, <1>4, <1>5, <1>6 DEF Phases, Armed
<1>11. Even'
  BY <1>2, <1>4, <1>6, <1>7, <1>8 DEF Even
<1>12. Rhythm'
  BY <1>1, <1>2, <1>3, <1>11 DEF Rhythm
<1> QED BY <1>4, <1>9, <1>10, <1>12 DEF TimersInv

\* Every step keeps the invariant.
LEMMA NextStep == TimersInv /\ [Next]_vars => TimersInv'
<1> SUFFICES ASSUME TimersInv, [Next]_vars PROVE TimersInv'
  OBVIOUS
<1>1. CASE create_timers
  BY <1>1, CreateTimersStep
<1>2. CASE create_omit_timer
  BY <1>2, CreateOmitStep
<1>3. CASE tmr_run
  BY <1>3, RunStep
<1>4. CASE tmr_run_end
  BY <1>4, RunEndStep
<1>5. CASE PeriodicFires
  BY <1>5, StatsStep, ReporterStep DEF PeriodicFires
<1>6. CASE TestTimerFires
  BY <1>6, TestStep
<1>7. CASE OmitTimerFires
  BY <1>7, OmitStep
<1>8. CASE leave
  BY <1>8, LeaveStep
<1>9. CASE cleanup_server \/ iperf_free_test
  BY <1>9, CancelledStep
<1>10. CASE stopTest
  BY <1>10, StopStep
<1>11. CASE tick
  BY <1>11, TickStep
<1>12. CASE UNCHANGED vars
  <2>1. /\ UNCHANGED lists /\ pc' = pc /\ t' = t /\ now' = now /\ clock' = clock /\ done' = done
        /\ stats' = stats /\ reports' = reports /\ tests' = tests
    BY <1>12 DEF vars
  <2>2. timers' = timers /\ free_timers' = free_timers /\ time' = time /\ proc' = proc /\ handle' = handle
    BY <2>1 DEF lists
  <2>3. TypeOK' /\ ListsSound' /\ HandlesSound'
    BY <2>1, <2>2 DEF TimersInv, TypeOK, ListsSound, HandlesSound, Armed
  <2>4. Phases'
    BY <2>1, <2>2 DEF TimersInv, Phases, Armed
  <2>5. (Even <=> Even') /\ (Odd <=> Odd')
    BY <2>1, <2>2 DEF Even, Odd
  <2>6. Rhythm'
    BY <2>1, <2>2, <2>5 DEF TimersInv, Rhythm, Armed
  <2> QED BY <2>3, <2>4, <2>6 DEF TimersInv
<1> QED BY <1>1, <1>2, <1>3, <1>4, <1>5, <1>6, <1>7, <1>8, <1>9, <1>10, <1>11, <1>12
        DEF Next, Quiet

-----------------------------------------------------------------------------
(* The theorems.                                                           *)

\* The types, the two lists, the handles, the phases of a test and the rhythm of the
\* stats and the reporter timer, for any duration, omit period, interval and clock.
THEOREM TimersInvariant == Spec => []TimersInv
BY InitStep, NextStep, PTL DEF Spec

\* tmr_timeout and tmr_run may look at the first timer only: the active list is sorted
\* at every iteration, whatever the timer procs have moved.
THEOREM ListIsSorted == Spec => []ListSorted
<1>1. TimersInv => ListSorted
  <2> SUFFICES ASSUME TimersInv, NEW n \in 2 .. Len(timers)
               PROVE  time[timers[n - 1]] <= time[timers[n]]
    BY DEF ListSorted
  <2>1. timers \in Seq(Slots) /\ Sorted(timers, time)
    BY DEF TimersInv, TypeOK, ListsSound
  <2>2. n - 1 \in 1 .. Len(timers) /\ n \in 1 .. Len(timers) /\ n - 1 < n
    BY <2>1
  <2>3. timers[n - 1] \in Slots /\ timers[n] \in Slots
    BY <2>1, <2>2
  <2>4. Before(timers, timers[n - 1], timers[n])
    BY <2>2 DEF Before
  <2> QED BY <2>1, <2>3, <2>4 DEF Sorted
<1> QED BY <1>1, TimersInvariant, PTL

\* Two lists without a common timer, one after the other, hold none twice.
LEMMA ListsAreInjective ==
  ASSUME NEW L, NEW F, IsList(L), IsList(F), \A x \in Slots : ~(Has(L, x) /\ Has(F, x))
  PROVE  IsInjective(L \o F)
<1> DEFINE M == L \o F
<1>1. /\ L \in Seq(Slots) /\ Len(L) \in Nat /\ F \in Seq(Slots) /\ Len(F) \in Nat
      /\ \A i, j \in 1 .. Len(L) : L[i] = L[j] => i = j
      /\ \A i, j \in 1 .. Len(F) : F[i] = F[j] => i = j
  BY DEF IsList
<1>2. \A i \in 1 .. Len(L), j \in 1 .. Len(F) : L[i] # F[j]
  BY <1>1 DEF Has
<1>3. /\ DOMAIN M = 1 .. (Len(L) + Len(F))
      /\ \A i \in 1 .. Len(L) : M[i] = L[i]
      /\ \A i \in (Len(L) + 1) .. (Len(L) + Len(F)) : M[i] = F[i - Len(L)]
  BY <1>1
<1> HIDE DEF M
<1>4. \A i \in DOMAIN M :
        \/ i \in 1 .. Len(L) /\ M[i] = L[i]
        \/ i - Len(L) \in 1 .. Len(F) /\ M[i] = F[i - Len(L)]
  BY <1>1, <1>3
<1>5. ASSUME NEW i \in DOMAIN M, NEW j \in DOMAIN M, M[i] = M[j] PROVE i = j
  <2>1. i \in Nat /\ j \in Nat
    BY <1>1, <1>3
  <2>2. CASE i \in 1 .. Len(L) /\ M[i] = L[i]
    <3>1. j \in 1 .. Len(L) /\ M[j] = L[j]
      BY <1>2, <1>4, <1>5, <2>2
    <3> QED BY <1>1, <1>5, <2>2, <3>1
  <2>3. CASE i - Len(L) \in 1 .. Len(F) /\ M[i] = F[i - Len(L)]
    <3>1. j - Len(L) \in 1 .. Len(F) /\ M[j] = F[j - Len(L)]
      BY <1>2, <1>4, <1>5, <2>3
    <3>2. i - Len(L) = j - Len(L)
      BY <1>1, <1>5, <2>3, <3>1
    <3> QED BY <1>1, <2>1, <3>2
  <2> QED BY <1>4, <2>2, <2>3
<1> QED BY <1>5 DEF IsInjective, M

\* The handles of the test name exactly the active timers, each of its own kind, and no
\* Timer struct is listed twice: no cancellation hits another test's timer.
THEOREM HandlesAreLive == Spec => []HandlesLive
<1>1. TimersInv => HandlesLive
  <2> SUFFICES ASSUME TimersInv PROVE HandlesLive
    OBVIOUS
  <2>1. TypeOK /\ ListsSound /\ HandlesSound
    BY DEF TimersInv
  <2>2. IsInjective(timers \o free_timers)
    BY <2>1, ListsAreInjective DEF ListsSound
  <2>3. \A x : x \in ToSet(timers) <=> Has(timers, x)
    <3>1. DOMAIN timers = 1 .. Len(timers)
      BY <2>1 DEF TypeOK
    <3> QED BY <3>1 DEF ToSet, Has
  <2>4. \A x : Has(timers, x) => x \in Slots
    BY <2>1, OrderIs DEF ListsSound
  <2> QED BY <2>1, <2>2, <2>3, <2>4 DEF HandlesLive, HandlesSound, Armed
<1> QED BY <1>1, TimersInvariant, PTL

\* The reporter callback follows the stats callback of its interval, however late
\* tmr_run is called, whenever the omit timer resets both and whenever the user stops.
THEOREM ReporterKeepsUp == Spec => []ReporterFollowsStats
<1>1. TimersInv => ReporterFollowsStats
  BY DEF TimersInv, Rhythm, ReporterFollowsStats
<1> QED BY <1>1, TimersInvariant, PTL
=============================================================================

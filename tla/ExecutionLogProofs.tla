-------------------------- MODULE ExecutionLogProofs --------------------------
(***************************************************************************)
(* Proofs that, until an upgrade, the event log of the canister host is    *)
(* the newest of the events the scheduler reported, in their order, and    *)
(* that the outcome of the last call is in it always.                      *)
(***************************************************************************)
EXTENDS ExecutionLog, FiniteSetTheorems, SequenceTheorems, WellFoundedInduction, TLAPS

-----------------------------------------------------------------------------
(* What the log is made of.                                                *)

Entries == [seq : Int, name : Nat]
Logs    == Seq(Entries)

LEMMA LogTypes ==
    ASSUME NEW log \in Logs
    PROVE  /\ Len(log) \in Nat /\ DOMAIN log = 1..Len(log)
           /\ \A i \in 1..Len(log) : log[i] \in Entries
BY DEF Logs

\* The scheduler's report of a call.
LEMMA ReportIs ==
    ASSUME reported \in Nat, NEW first \in Int, NEW n \in Nat
    PROVE  /\ Report(first, n) \in Logs /\ Len(Report(first, n)) = n
           /\ \A i \in 1..n : Report(first, n)[i].name = reported + i
<1>1. \A i \in 1..n : [seq |-> first + i - 1, name |-> reported + i] \in Entries
  BY DEF Entries
<1>2. /\ DOMAIN Report(first, n) = 1..n
      /\ \A i \in 1..n : Report(first, n)[i] = [seq |-> first + i - 1, name |-> reported + i]
  BY DEF Report
<1>3. Report(first, n) \in [1..n -> Entries]
  BY <1>1 DEF Report
<1>4. Report(first, n) \in Logs /\ Len(Report(first, n)) = n
  BY <1>2, <1>3 DEF Logs
<1>5. \A i \in 1..n : Report(first, n)[i].name = reported + i
  BY <1>2
<1> QED
  BY <1>4, <1>5

\* How many the cap drops of n events.
Dropped(n) == IF n > Cap THEN n - Cap ELSE 0

LEMMA DroppedIs ==
    ASSUME NEW n \in Nat
    PROVE  Cap \in Nat /\ Dropped(n) \in 0..n /\ n - Dropped(n) = IF n > Cap THEN Cap ELSE n
BY LogAssumption DEF Dropped

\* The cap drops the oldest events.
LEMMA CappedIs ==
    ASSUME NEW log \in Logs
    PROVE  /\ Capped(log) \in Logs /\ Len(Capped(log)) = Len(log) - Dropped(Len(log))
           /\ \A i \in 1..Len(Capped(log)) : Capped(log)[i] = log[i + Dropped(Len(log))]
<1>1. Len(log) \in Nat /\ Dropped(Len(log)) \in 0..Len(log)
  BY LogTypes, DroppedIs
<1> DEFINE d == Dropped(Len(log))
           kept == Capped(log)
<1>2. Len(log) \in Nat /\ d \in 0..Len(log)
  BY <1>1
<1>3. kept = SubSeq(log, d + 1, Len(log))
  BY <1>2, LogAssumption DEF Capped, Dropped
<1>4. \A i \in (d + 1)..Len(log) : log[i] \in Entries
  <2>1. \A i \in (d + 1)..Len(log) : i \in 1..Len(log)
    BY <1>2
  <2> QED
    BY <2>1, LogTypes
<1> HIDE DEF d, kept
<1>5. d \in Int /\ 0 <= d /\ d <= Len(log) /\ d + 1 \in Int /\ Len(log) \in Int
  BY <1>2
<1>6. /\ SubSeq(log, d + 1, Len(log)) \in Seq(Entries)
      /\ Len(SubSeq(log, d + 1, Len(log))) =
           IF d + 1 <= Len(log) THEN Len(log) - (d + 1) + 1 ELSE 0
      /\ \A i \in 1..Len(log) - (d + 1) + 1 : SubSeq(log, d + 1, Len(log))[i] = log[d + 1 + i - 1]
  BY <1>4, <1>5, SubSeqProperties
<1>7. Len(kept) = Len(log) - d
  BY <1>3, <1>5, <1>6
<1>8. ASSUME NEW i \in 1..Len(kept)
      PROVE  kept[i] = log[i + d]
  <2>1. i \in 1..Len(log) - (d + 1) + 1 /\ d + 1 + i - 1 = i + d
    BY <1>5, <1>7
  <2> QED
    BY <1>3, <1>6, <2>1
<1>9. kept \in Logs
  BY <1>3, <1>6 DEF Logs
<1> QED
  BY <1>7, <1>8, <1>9 DEF d, kept

\* What a report adds to the log comes behind it, under its own names.
LEMMA MergedIs ==
    ASSUME NEW log \in Logs, NEW new \in Logs
    PROVE  /\ Merged(log, new) \in Logs /\ Len(Merged(log, new)) = Len(log) + Len(new)
           /\ \A i \in 1..Len(log) : Merged(log, new)[i] = log[i]
           /\ \A i \in 1..Len(new) : Merged(log, new)[Len(log) + i].name = new[i].name
<1>1. PICK base \in Int : base = IF log = <<>> THEN 0 ELSE Last(log).seq
  <2>1. CASE log = <<>>
    BY <2>1
  <2>2. CASE log # <<>>
    <3>1. Len(log) \in 1..Len(log)
      BY <2>2 DEF Logs
    <3>2. PICK e \in Entries : e = log[Len(log)]
      BY <3>1, LogTypes
    <3>3. Last(log).seq = e.seq /\ e.seq \in Int
      BY <3>2 DEF Last, Entries
    <3> QED
      BY <2>2, <3>3
  <2> QED
    BY <2>1, <2>2
<1>2. PICK moved : moved = [i \in 1..Len(new) |-> IF new[i].seq <= base
                                                  THEN [new[i] EXCEPT !.seq = base + new[i].seq + 1] ELSE new[i]]
  OBVIOUS
<1>3. Len(new) \in Nat /\ Len(log) \in Nat
  BY LogTypes
<1>4. ASSUME NEW i \in 1..Len(new)
      PROVE  moved[i] \in Entries /\ moved[i].name = new[i].name
  <2>1. PICK e \in Entries : e = new[i]
    BY LogTypes
  <2>2. moved[i] = IF e.seq <= base THEN [e EXCEPT !.seq = base + e.seq + 1] ELSE e
    BY <1>2, <2>1
  <2>3. [e EXCEPT !.seq = base + e.seq + 1] \in Entries
    BY DEF Entries
  <2>4. [e EXCEPT !.seq = base + e.seq + 1].name = e.name
    BY DEF Entries
  <2> QED
    BY <2>1, <2>2, <2>3, <2>4
<1>5. moved \in Logs /\ Len(moved) = Len(new)
  <2>1. DOMAIN moved = 1..Len(new)
    BY <1>2
  <2>2. moved \in [1..Len(new) -> Entries]
    <3>1. \A i \in 1..Len(new) : moved[i] \in Entries
      BY <1>4
    <3> QED
      BY <1>2, <3>1
  <2> QED
    BY <1>3, <2>1, <2>2 DEF Logs
<1>6. Merged(log, new) = log \o moved
  BY <1>1, <1>2 DEF Merged
<1>7. /\ log \o moved \in Logs /\ Len(log \o moved) = Len(log) + Len(moved)
      /\ \A i \in 1..Len(log) : (log \o moved)[i] = log[i]
      /\ \A i \in 1..Len(moved) : (log \o moved)[Len(log) + i] = moved[i]
  <2>1. /\ log \o moved \in Seq(Entries) /\ Len(log \o moved) = Len(log) + Len(moved)
        /\ \A i \in 1 .. Len(log) + Len(moved) :
              (log \o moved)[i] = IF i <= Len(log) THEN log[i] ELSE moved[i - Len(log)]
    BY <1>5, ConcatProperties DEF Logs
  <2>2. \A i \in 1..Len(log) : i \in 1 .. Len(log) + Len(moved) /\ i <= Len(log)
    BY <1>3, <1>5
  <2>3. \A i \in 1..Len(moved) : /\ Len(log) + i \in 1 .. Len(log) + Len(moved)
                                 /\ ~ (Len(log) + i <= Len(log)) /\ Len(log) + i - Len(log) = i
    BY <1>3, <1>5
  <2> QED
    BY <2>1, <2>2, <2>3 DEF Logs
<1> QED
  BY <1>4, <1>5, <1>6, <1>7

-----------------------------------------------------------------------------
(* What an upgrade makes of the log: one event per number, in their order. *)

\* Any naturals have a least one, by the well-foundedness of their order.
Below == {p \in Nat \X Nat : p[1] < p[2]}

LEMMA LeastNat ==
    ASSUME NEW S \in SUBSET Nat, S # {}
    PROVE  \E x \in S : \A y \in S : x <= y
<1>1. Below = OpToRel(<, Nat)
  BY Zenon DEF OpToRel, Below
<1>2. IsWellFoundedOn(Below, Nat)
  BY <1>1, NatLessThanWellFounded, Zenon
<1>3. PICK x \in S : \A y \in S : ~ (<<y, x>> \in Below)
  BY <1>2, WFMin
<1>4. ASSUME NEW y \in S
      PROVE  x <= y
  <2>1. x \in Nat /\ y \in Nat /\ (y < x => <<y, x>> \in Below)
    BY DEF Below
  <2> QED
    BY <1>3, <2>1
<1> QED
  BY <1>4

\* ... and a greatest one, if they are bounded.
LEMMA GreatestNat ==
    ASSUME NEW S \in SUBSET Nat, S # {}, NEW b \in Nat, \A x \in S : x <= b
    PROVE  \E x \in S : \A y \in S : y <= x
<1> DEFINE T == {b - x : x \in S}
<1>1. T \in SUBSET Nat /\ T # {} /\ \A x \in S : b - x \in T
  <2>1. \A x \in S : b - x \in Nat
    OBVIOUS
  <2> QED
    BY <2>1
<1>2. PICK t \in T : \A u \in T : t <= u
  <2> HIDE DEF T
  <2> QED
    BY <1>1, LeastNat
<1>3. PICK x \in S : t = b - x
  OBVIOUS
<1>4. ASSUME NEW y \in S
      PROVE  y <= x
  <2>1. b - y \in T
    BY <1>1
  <2>2. b - x <= b - y
    BY <1>2, <1>3, <2>1
  <2> QED
    BY <2>2
<1> QED
  BY <1>4

\* The largest of a bounded set is what Max says it is.
LEMMA MaxIs ==
    ASSUME NEW S \in SUBSET Nat, S # {}, NEW b \in Nat, \A x \in S : x <= b
    PROVE  Max(S) \in S /\ \A y \in S : y <= Max(S)
<1>1. \E x \in S : \A y \in S : x >= y
  BY GreatestNat
<1> QED
  BY <1>1 DEF Max

\* How many of `numbers` n is not below: its place among them.
Place(numbers, n) == Cardinality({m \in numbers : m <= n})

\* A larger number has a later place, and every place is within their count.
LEMMA PlaceGrows ==
    ASSUME NEW numbers \in SUBSET Int, IsFiniteSet(numbers), NEW m \in numbers, NEW n \in numbers
    PROVE  /\ Place(numbers, n) \in 1..Cardinality(numbers)
           /\ m < n => Place(numbers, m) < Place(numbers, n)
<1> DEFINE Upto(x) == {y \in numbers : y <= x}
<1>1. \A x \in numbers : /\ IsFiniteSet(Upto(x)) /\ Cardinality(Upto(x)) \in Nat
                         /\ Cardinality(Upto(x)) <= Cardinality(numbers)
  BY FS_Subset, FS_CardinalityType
<1>2. Cardinality(Upto(n)) # 0
  BY <1>1, FS_EmptySet
<1>3. ASSUME m < n
      PROVE  Cardinality(Upto(m)) < Cardinality(Upto(n))
  <2>1. Upto(m) \in SUBSET Upto(n) /\ n \in Upto(n) /\ n \notin Upto(m)
    <3>1. m \in Int /\ n \in Int /\ \A y \in numbers : y \in Int
      OBVIOUS
    <3>2. \A y \in numbers : y <= m => y <= n
      BY <1>3, <3>1
    <3>3. n <= n /\ ~ (n <= m)
      BY <1>3, <3>1
    <3> QED
      BY <3>2, <3>3
  <2>2. /\ Cardinality(Upto(m)) <= Cardinality(Upto(n))
        /\ Cardinality(Upto(m)) = Cardinality(Upto(n)) => Upto(m) = Upto(n)
    BY <1>1, <2>1, FS_Subset
  <2>3. Upto(m) # Upto(n)
    BY <2>1
  <2> HIDE DEF Upto
  <2> QED
    BY <1>1, <2>2, <2>3
<1>4. Cardinality(numbers) \in Nat
  BY FS_CardinalityType
<1> QED
  BY <1>1, <1>2, <1>3, <1>4 DEF Place

\* Every place is somebody's: the numbers above place i go down to i + 1, and
\* what is below those is as many as i.
LEMMA PlaceTaken ==
    ASSUME NEW numbers \in SUBSET Int, IsFiniteSet(numbers), NEW i \in 1..Cardinality(numbers)
    PROVE  \E n \in numbers : Place(numbers, n) = i
<1> SUFFICES ASSUME \A n \in numbers : Place(numbers, n) # i
             PROVE  FALSE
  OBVIOUS
<1>1. PICK k \in Nat : k = Cardinality(numbers) /\ i \in 1..k
  BY FS_CardinalityType
<1>2. \A n \in numbers : Place(numbers, n) \in 1..k
  BY <1>1, PlaceGrows
<1>3. \A m, n \in numbers : m < n => Place(numbers, m) < Place(numbers, n)
  BY PlaceGrows
<1>4. \A n \in numbers : n \in Int /\ Place(numbers, n) \in Nat
  BY <1>1, <1>2
<1> DEFINE Low == {n \in numbers : Place(numbers, n) < i}
           High == {n \in numbers : Place(numbers, n) > i}
\* The low ones are fewer than i.
<1>5. IsFiniteSet(Low) /\ Cardinality(Low) \in Nat /\ Cardinality(Low) < i
  <2>1. IsFiniteSet(Low) /\ Cardinality(Low) \in Nat
    BY FS_Subset, FS_CardinalityType
  <2>2. CASE Low = {}
    BY <2>1, <2>2, FS_EmptySet
  <2>3. CASE Low # {}
    <3> DEFINE places == {Place(numbers, n) : n \in Low}
    <3>1. places \in SUBSET Nat /\ places # {}
      <4>1. \A n \in Low : Place(numbers, n) \in Nat
        BY <1>4
      <4>2. PICK n \in Low : TRUE
        BY <2>3
      <4>3. Place(numbers, n) \in places
        BY <4>2
      <4> HIDE DEF Low
      <4> QED
        BY <4>1, <4>3
    <3>2. i \in Nat /\ \A p \in places : p <= i
      BY <1>1, <1>2
    <3>3. PICK p \in places : \A q \in places : q <= p
      <4> HIDE DEF places
      <4> QED
        BY <3>1, <3>2, GreatestNat
    <3>4. PICK n \in Low : p = Place(numbers, n)
      OBVIOUS
    <3>5. Low \in SUBSET {m \in numbers : m <= n}
      <4>1. ASSUME NEW m \in Low
            PROVE  m <= n
        <5>1. Place(numbers, m) <= Place(numbers, n)
          BY <3>3, <3>4
        <5>2. n < m => Place(numbers, n) < Place(numbers, m)
          BY <1>3
        <5>3. Place(numbers, n) \in Nat /\ Place(numbers, m) \in Nat /\ m \in Int /\ n \in Int
          <6> HIDE DEF places
          <6> QED
            BY <1>4
        <5> HIDE DEF Low, places
        <5> QED
          BY <5>1, <5>2, <5>3
      <4> QED
        BY <4>1
    <3>6. IsFiniteSet({m \in numbers : m <= n})
      BY FS_Subset
    <3>7. Cardinality(Low) <= Place(numbers, n)
      BY <3>5, <3>6, FS_Subset DEF Place
    <3>8. Place(numbers, n) < i /\ Place(numbers, n) \in Nat
      BY <1>2, <3>4
    <3> HIDE DEF Low
    <3> QED
      BY <2>1, <3>7, <3>8
  <2> QED
    BY <2>2, <2>3
\* So some are high, and the least of them has only the low ones below it.
<1>6. High # {}
  <2>1. \A n \in numbers : n \in Low \/ n \in High
    BY <1>1, <1>2
  <2>2. High = {} => Low = numbers
    BY <2>1
  <2> HIDE DEF Low, High
  <2> QED
    BY <1>1, <1>5, <2>2
<1>7. PICK h \in High : \A n \in High : h <= n
  <2> DEFINE places == {Place(numbers, n) : n \in High}
  <2>1. places \in SUBSET Nat /\ places # {}
    <3>1. \A n \in High : Place(numbers, n) \in Nat
      BY <1>4
    <3>2. PICK n \in High : TRUE
      BY <1>6
    <3>3. Place(numbers, n) \in places
      BY <3>2
    <3> HIDE DEF High
    <3> QED
      BY <3>1, <3>3
  <2>2. PICK p \in places : \A q \in places : p <= q
    <3> HIDE DEF places
    <3> QED
      BY <2>1, LeastNat
  <2>3. PICK n \in High : p = Place(numbers, n)
    OBVIOUS
  <2>4. ASSUME NEW m \in High
        PROVE  n <= m
    <3>1. Place(numbers, n) <= Place(numbers, m)
      BY <2>2, <2>3
    <3>2. m < n => Place(numbers, m) < Place(numbers, n)
      BY <1>3
    <3>3. Place(numbers, n) \in Nat /\ Place(numbers, m) \in Nat /\ m \in Int /\ n \in Int
      BY <1>2
    <3> HIDE DEF High, places
    <3> QED
      BY <3>1, <3>2, <3>3
  <2> QED
    BY <2>4
<1>8. {m \in numbers : m <= h} = Low \cup {h}
  <2>1. ASSUME NEW m \in numbers, m <= h
        PROVE  m \in Low \cup {h}
    <3>1. m # h => m \notin High
      BY <1>7, <2>1
    <3>2. m \notin High => m \in Low
      BY <1>1, <1>2
    <3> QED
      BY <3>1, <3>2
  <2>2. ASSUME NEW m \in Low
        PROVE  m <= h
    <3>1. Place(numbers, m) < i /\ Place(numbers, h) > i
      OBVIOUS
    <3>2. h < m => Place(numbers, h) < Place(numbers, m)
      BY <1>3
    <3>3. Place(numbers, h) \in Nat /\ Place(numbers, m) \in Nat /\ i \in Nat /\ m \in Int /\ h \in Int
      BY <1>1, <1>2
    <3> HIDE DEF Low, High
    <3> QED
      BY <3>1, <3>2, <3>3
  <2>3. h \in numbers /\ h <= h /\ Low \subseteq numbers
    OBVIOUS
  <2> HIDE DEF Low, High
  <2> QED
    BY <2>1, <2>2, <2>3
<1>9. Place(numbers, h) <= Cardinality(Low) + 1
  <2> HIDE DEF Low, High
  <2>1. Cardinality(Low \cup {h}) = IF h \in Low THEN Cardinality(Low) ELSE Cardinality(Low) + 1
    BY <1>5, FS_AddElement
  <2>2. Place(numbers, h) = Cardinality(Low \cup {h})
    BY <1>8 DEF Place
  <2> QED
    BY <1>5, <2>1, <2>2
<1>10. Place(numbers, h) > i /\ Place(numbers, h) \in Nat
  BY <1>2
<1> HIDE DEF Low, High
<1> QED
  BY <1>1, <1>5, <1>9, <1>10

\* Nth is the inverse of the place.
LEMMA NthIs ==
    ASSUME NEW numbers \in SUBSET Int, IsFiniteSet(numbers), NEW i \in 1..Cardinality(numbers)
    PROVE  Nth(numbers, i) \in numbers /\ Place(numbers, Nth(numbers, i)) = i
<1>1. \E n \in numbers : Cardinality({m \in numbers : m <= n}) = i
  BY PlaceTaken DEF Place
<1> QED
  BY <1>1 DEF Nth, Place

Numbers(log) == {log[i].seq : i \in 1..Len(log)}
Reloaded(log) == [i \in 1..Cardinality(Numbers(log)) |-> LastWritten(log, Nth(Numbers(log), i))]

\* The numbers of a log are finitely many integers.
LEMMA NumbersFinite ==
    ASSUME NEW log \in Logs
    PROVE  Numbers(log) \in SUBSET Int /\ IsFiniteSet(Numbers(log)) /\ Cardinality(Numbers(log)) \in Nat
<1>1. Numbers(log) \in SUBSET Int
  BY LogTypes DEF Numbers, Entries
<1>2. PICK number : number = [i \in 1..Len(log) |-> log[i].seq]
  OBVIOUS
<1>3. number \in Surjection(1..Len(log), Numbers(log))
  BY <1>2 DEF Surjection, Numbers
<1>4. IsFiniteSet(1..Len(log))
  BY LogTypes, FS_Interval
<1>5. IsFiniteSet(Numbers(log))
  BY <1>3, <1>4, FS_Surjection
<1> QED
  BY <1>1, <1>5, FS_CardinalityType

\* What stands last under a number is an event of that number, and none that has
\* it comes after.
LEMMA LastWrittenIs ==
    ASSUME NEW log \in Logs, NEW seq \in Numbers(log)
    PROVE  \E p \in 1..Len(log) : /\ LastWritten(log, seq) = log[p] /\ log[p].seq = seq
                                 /\ \A j \in 1..Len(log) : log[j].seq = seq => j <= p
<1>1. /\ With(log, seq) \in SUBSET Nat /\ With(log, seq) # {} /\ Len(log) \in Nat
      /\ \A j \in With(log, seq) : j <= Len(log)
  BY LogTypes DEF With, Numbers
<1>2. Max(With(log, seq)) \in With(log, seq) /\ \A j \in With(log, seq) : j <= Max(With(log, seq))
  BY <1>1, MaxIs
<1>3. PICK p \in 1..Len(log) : p = Max(With(log, seq)) /\ p \in With(log, seq)
  BY <1>2 DEF With
<1>4. \A j \in 1..Len(log) : log[j].seq = seq => j <= p
  BY <1>2, <1>3 DEF With
<1>5. log[p].seq = seq
  BY <1>3 DEF With
<1> QED
  BY <1>3, <1>4, <1>5 DEF LastWritten

\* The outcome of the last call is in the log, and no later event has its number.
Outcome(log, count) ==
    \E i \in 1..Len(log) : /\ log[i].name = count
                           /\ \A j \in 1..Len(log) : j > i => log[j].seq # log[i].seq

\* An upgrade keeps the outcome: its number stands for no later event.
LEMMA ReloadedIs ==
    ASSUME NEW log \in Logs, NEW count, Outcome(log, count)
    PROVE  Reloaded(log) \in Logs /\ Outcome(Reloaded(log), count)
<1>1. PICK numbers \in SUBSET Int : numbers = Numbers(log) /\ IsFiniteSet(numbers)
  BY NumbersFinite
<1>2. PICK size \in Nat : size = Cardinality(numbers)
  BY <1>1, FS_CardinalityType
<1>3. \A i \in 1..size : Nth(numbers, i) \in numbers /\ Place(numbers, Nth(numbers, i)) = i
  BY <1>1, <1>2, NthIs
<1>4. PICK read : read = [i \in 1..size |-> LastWritten(log, Nth(numbers, i))] /\ read = Reloaded(log)
  BY <1>1, <1>2 DEF Reloaded
<1>5. ASSUME NEW i \in 1..size
      PROVE  /\ read[i] \in Entries /\ read[i].seq = Nth(numbers, i)
             /\ read[i] = LastWritten(log, Nth(numbers, i))
  <2>1. PICK p \in 1..Len(log) : LastWritten(log, Nth(numbers, i)) = log[p] /\ log[p].seq = Nth(numbers, i)
    BY <1>1, <1>3, LastWrittenIs
  <2>2. read[i] = log[p]
    BY <1>4, <2>1
  <2> QED
    BY <1>4, <2>1, <2>2, LogTypes
<1>6. read \in [1..size -> Entries]
  BY <1>4, <1>5
<1>7. read \in Logs /\ Len(read) = size
  BY <1>6 DEF Logs
<1>8. PICK p \in 1..Len(log) : /\ log[p].name = count
                              /\ \A j \in 1..Len(log) : j > p => log[j].seq # log[p].seq
  BY DEF Outcome
<1>9. PICK n \in numbers : n = log[p].seq
  BY <1>1 DEF Numbers
<1>10. LastWritten(log, n) = log[p]
  <2>1. PICK q \in 1..Len(log) : /\ LastWritten(log, n) = log[q] /\ log[q].seq = n
                                /\ \A j \in 1..Len(log) : log[j].seq = n => j <= q
    BY <1>1, LastWrittenIs
  <2>2. p <= q /\ ~ (q > p)
    BY <1>8, <1>9, <2>1
  <2>3. p \in Int /\ q \in Int
    OBVIOUS
  <2>4. p = q
    BY <2>2, <2>3
  <2> QED
    BY <2>1, <2>4
<1>11. PICK i \in 1..size : i = Place(numbers, n)
  BY <1>1, <1>2, PlaceGrows
<1>12. \A m \in numbers : Place(numbers, m) = i => m = n
  <2>1. ASSUME NEW m \in numbers, Place(numbers, m) = i
        PROVE  m = n
    <3>1. (m < n => Place(numbers, m) < Place(numbers, n)) /\ (n < m => Place(numbers, n) < Place(numbers, m))
      BY <1>1, PlaceGrows
    <3>2. m \in Int /\ n \in Int /\ i \in Int
      BY <1>1
    <3> QED
      BY <1>11, <2>1, <3>1, <3>2
  <2> QED
    BY <2>1
<1>13. Nth(numbers, i) = n
  BY <1>3, <1>12
<1>14. read[i] = log[p] /\ read[i].name = count
  BY <1>5, <1>8, <1>10, <1>13
<1>15. ASSUME NEW j \in 1..size, j > i
       PROVE  read[j].seq # read[i].seq
  <2>1. Place(numbers, read[j].seq) = j /\ Place(numbers, read[i].seq) = i
    BY <1>3, <1>5
  <2>2. j # i
    BY <1>15
  <2> QED
    BY <2>1, <2>2
<1>16. Outcome(read, count)
  BY <1>7, <1>14, <1>15 DEF Outcome
<1> QED
  BY <1>4, <1>7, <1>16

-----------------------------------------------------------------------------
(* The invariant.                                                          *)

\* What was reported last of `count` events, under their names, up to the cap.
Newest(log, count) ==
    /\ log \in Logs /\ Len(log) = IF count > Cap THEN Cap ELSE count
    /\ \A i \in 1..Len(log) : log[i].name = count - Len(log) + i

LogInv ==
    /\ reports \in Nat /\ reported \in Nat /\ cursor \in Nat /\ reloads \in Nat
    /\ reports = 0 <=> reported = 0
    /\ events \in Logs
    /\ reported > 0 => Outcome(events, reported)
    /\ reloads = 0 => Newest(events, reported)

LEMMA LogStart == Init => LogInv
<1> SUFFICES ASSUME Init
             PROVE  LogInv
  OBVIOUS
<1>1. events = <<>> /\ cursor = 0 /\ reported = 0 /\ reports = 0 /\ reloads = 0
  BY DEF Init
<1>2. Newest(<<>>, 0)
  BY LogAssumption DEF Newest, Logs
<1>3. events \in Logs /\ ~ (reported > 0)
  BY <1>1 DEF Logs
<1> QED
  BY <1>1, <1>2, <1>3 DEF LogInv

\* The newest of more events are the newest of those kept and of the added ones.
LEMMA NewestOfMore ==
    ASSUME NEW log \in Logs, NEW count \in Nat, Newest(log, count),
           NEW longer \in Logs, NEW n \in Nat, Len(longer) = Len(log) + n,
           \A i \in 1..Len(log) : longer[i].name = log[i].name,
           \A i \in 1..n : longer[Len(log) + i].name = count + i
    PROVE  Newest(Capped(longer), count + n)
<1>1. /\ Len(log) \in Nat /\ Len(longer) \in Nat /\ Cap \in Nat
      /\ Len(log) = IF count > Cap THEN Cap ELSE count
  BY LogTypes, DroppedIs DEF Newest
<1>2. PICK d \in Nat : /\ d = Dropped(Len(longer)) /\ d <= Len(longer)
                      /\ Len(longer) - d = IF Len(longer) > Cap THEN Cap ELSE Len(longer)
  <2>1. PICK size \in Nat : size = Len(longer)
    BY <1>1
  <2>2. Dropped(size) \in 0..size /\ size - Dropped(size) = IF size > Cap THEN Cap ELSE size
    BY DroppedIs
  <2>3. PICK d \in 0..size : d = Dropped(size)
    BY <2>2
  <2>4. d \in Nat /\ d <= size
    BY <2>3
  <2> QED
    BY <2>1, <2>2, <2>3, <2>4
<1>3. /\ Capped(longer) \in Logs /\ Len(Capped(longer)) = Len(longer) - d
      /\ \A i \in 1..Len(Capped(longer)) : Capped(longer)[i] = longer[i + d]
  BY <1>2, CappedIs
<1>4. Len(Capped(longer)) = IF count + n > Cap THEN Cap ELSE count + n
  <2>1. Len(longer) = Len(log) + n
    OBVIOUS
  <2> QED
    BY <1>1, <1>2, <1>3, <2>1
<1>5. ASSUME NEW j \in 1..Len(longer)
      PROVE  longer[j].name = count - Len(log) + j
  <2>1. CASE j <= Len(log)
    <3>1. j \in 1..Len(log)
      BY <1>1, <2>1
    <3>2. log[j].name = count - Len(log) + j
      BY <3>1 DEF Newest
    <3> QED
      BY <3>1, <3>2
  <2>2. CASE j > Len(log)
    <3>1. PICK i \in 1..n : j = Len(log) + i
      <4>1. j - Len(log) \in 1..n /\ j = Len(log) + (j - Len(log))
        BY <1>1, <2>2
      <4> QED
        BY <4>1
    <3>2. longer[j].name = count + i
      BY <3>1
    <3>3. count + i = count - Len(log) + j
      BY <1>1, <3>1
    <3> QED
      BY <3>2, <3>3
  <2> QED
    BY <1>1, <2>1, <2>2
<1>6. ASSUME NEW i \in 1..Len(Capped(longer))
      PROVE  Capped(longer)[i].name = count + n - Len(Capped(longer)) + i
  <2>1. i \in Nat /\ i + d \in 1..Len(longer)
    BY <1>1, <1>2, <1>3
  <2>2. Capped(longer)[i] = longer[i + d]
    BY <1>3, <2>1
  <2>3. longer[i + d].name = count - Len(log) + (i + d)
    BY <1>5, <2>1
  <2>4. count - Len(log) + (i + d) = count + n - Len(Capped(longer)) + i
    <3>1. Len(longer) = Len(log) + n /\ Len(Capped(longer)) = Len(longer) - d
      BY <1>3
    <3> QED
      BY <1>1, <2>1, <3>1
  <2> QED
    BY <2>2, <2>3, <2>4
<1>7. PICK kept : kept = Capped(longer)
  OBVIOUS
<1>8. PICK sum \in Nat : sum = count + n
  OBVIOUS
<1>9. Newest(kept, sum)
  <2>1. kept \in Logs
    BY <1>3, <1>7
  <2>2. Len(kept) = IF sum > Cap THEN Cap ELSE sum
    BY <1>4, <1>7, <1>8
  <2>3. \A i \in 1..Len(kept) : kept[i].name = sum - Len(kept) + i
    BY <1>6, <1>7, <1>8
  <2> QED
    BY <2>1, <2>2, <2>3 DEF Newest
<1> QED
  BY <1>7, <1>8, <1>9

\* The event reported last survives the cap, and no event comes after it.
LEMMA CappedOutcome ==
    ASSUME NEW log \in Logs, NEW count, Len(log) > 0, log[Len(log)].name = count
    PROVE  Capped(log) \in Logs /\ Outcome(Capped(log), count)
<1>1. PICK size \in Nat : size = Len(log) /\ size > 0
  BY LogTypes
<1>2. PICK d \in 0..size : d = Dropped(size) /\ size - d > 0
  <2>1. Dropped(size) \in 0..size /\ size - Dropped(size) = IF size > Cap THEN Cap ELSE size
    BY DroppedIs
  <2> QED
    BY <1>1, <2>1, LogAssumption
<1>3. PICK kept \in Logs : /\ kept = Capped(log) /\ Len(kept) = size - d
                          /\ \A i \in 1..Len(kept) : kept[i] = log[i + d]
  BY <1>1, <1>2, CappedIs
<1>4. PICK i \in 1..Len(kept) : i = size - d
  BY <1>2, <1>3
<1>5. kept[i] = log[size]
  <2>1. i + d = size
    BY <1>2, <1>4
  <2> QED
    BY <1>3, <2>1
<1>6. \A j \in 1..Len(kept) : ~ (j > i)
  BY <1>2, <1>3, <1>4
<1>7. Outcome(kept, count)
  BY <1>1, <1>5, <1>6 DEF Outcome
<1> QED
  BY <1>3, <1>7

LEMMA StartStep ==
    ASSUME LogInv, NEW k \in 0..MaxPassed, Start(k)
    PROVE  LogInv'
<1>1. PICK n \in Nat : n = 1 + Passing * k + Ending
  BY LogAssumption DEF Passing, Ending
<1>2. /\ reports = 0 /\ reports' = 1 /\ reported' = n /\ reloads' = reloads
      /\ events' = Capped(Report(1, n))
      /\ cursor' = IF k > 0 THEN CursorAfter(2, k) ELSE n + 1
  BY <1>1 DEF Start
<1>3. cursor' \in Nat
  BY <1>2, LogAssumption DEF CursorAfter, Passing
<1>4. reported = 0
  BY <1>2 DEF LogInv
<1>5. /\ Report(1, n) \in Logs /\ Len(Report(1, n)) = n
      /\ \A i \in 1..n : Report(1, n)[i].name = 0 + i
  BY <1>4, ReportIs
<1>6. PICK log \in Logs : log = <<>> /\ Len(log) = 0
  <2>1. <<>> \in Logs /\ Len(<<>>) = 0
    BY DEF Logs
  <2> QED
    BY <2>1
<1>7. Newest(log, 0)
  BY <1>6, LogAssumption DEF Newest
<1>8. Newest(Capped(Report(1, n)), 0 + n)
  <2>1. PICK longer \in Logs : longer = Report(1, n)
    BY <1>5
  <2>2. /\ Len(longer) = Len(log) + n
        /\ \A i \in 1..Len(log) : longer[i].name = log[i].name
        /\ \A i \in 1..n : longer[Len(log) + i].name = 0 + i
    BY <1>5, <1>6, <2>1
  <2> QED
    BY <1>7, <2>1, <2>2, NewestOfMore
<1>9. Newest(events', reported')
  BY <1>2, <1>8
<1>10. n > 0
  BY <1>1, LogAssumption DEF Passing, Ending
<1>11. events' \in Logs /\ Outcome(events', n)
  <2>1. PICK longer \in Logs : longer = Report(1, n) /\ Len(longer) = n /\ longer[n].name = n
    BY <1>5, <1>10
  <2> QED
    BY <1>2, <1>10, <2>1, CappedOutcome
<1> QED
  BY <1>2, <1>3, <1>9, <1>10, <1>11 DEF LogInv

LEMMA ResumeStep ==
    ASSUME LogInv, NEW k \in 0..MaxPassed, Resume(k)
    PROVE  LogInv'
<1>1. PICK n \in Nat : n = Passing * k + Ending
  BY LogAssumption DEF Passing, Ending
<1>2. /\ reports \in Nat \ {0} /\ reports' = reports + 1 /\ reported' = reported + n /\ reloads' = reloads
      /\ events' = Capped(Merged(events, Report(cursor + 1, n)))
      /\ cursor' = CursorAfter(cursor + 1, k)
  BY <1>1, LogAssumption DEF Resume
<1>3. /\ cursor \in Nat /\ reported \in Nat
  BY DEF LogInv
<1>4. cursor' \in Nat
  BY <1>2, <1>3, LogAssumption DEF CursorAfter, Passing
<1>5. n > 0 /\ events \in Logs
  BY <1>1, LogAssumption DEF Passing, Ending, LogInv
<1>6. PICK new \in Logs : /\ new = Report(cursor + 1, n) /\ Len(new) = n
                          /\ \A i \in 1..n : new[i].name = reported + i
  BY <1>3, ReportIs
<1>7. PICK longer \in Logs : /\ longer = Merged(events, new) /\ Len(longer) = Len(events) + n
                             /\ \A i \in 1..Len(events) : longer[i] = events[i]
                             /\ \A i \in 1..n : longer[Len(events) + i].name = new[i].name
  <2>1. PICK longer : longer = Merged(events, new)
    OBVIOUS
  <2>2. /\ longer \in Logs /\ Len(longer) = Len(events) + Len(new)
        /\ \A i \in 1..Len(events) : longer[i] = events[i]
        /\ \A i \in 1..Len(new) : longer[Len(events) + i].name = new[i].name
    BY <1>5, <1>6, <2>1, MergedIs
  <2>3. Len(new) = n
    BY <1>6
  <2> QED
    BY <2>1, <2>2, <2>3, Zenon
<1>8. events' = Capped(longer)
  BY <1>2, <1>6, <1>7
<1>9. events' \in Logs /\ Outcome(events', reported')
  <2>1. Len(events) \in Nat
    BY <1>5, LogTypes
  <2>2. longer[Len(events) + n].name = reported + n
    BY <1>5, <1>6, <1>7
  <2>3. Len(longer) > 0 /\ longer[Len(longer)].name = reported'
    BY <1>2, <1>5, <1>7, <2>1, <2>2
  <2> QED
    BY <1>8, <2>3, CappedOutcome
<1>10. ASSUME reloads = 0
       PROVE  Newest(events', reported')
  <2>1. Newest(events, reported)
    BY <1>10 DEF LogInv
  <2>2. Newest(Capped(longer), reported + n)
    <3>1. \A i \in 1..n : longer[Len(events) + i].name = reported + i
      BY <1>6, <1>7
    <3>2. \A i \in 1..Len(events) : longer[i].name = events[i].name
      BY <1>7
    <3> QED
      BY <1>3, <1>5, <1>7, <2>1, <3>1, <3>2, NewestOfMore
  <2> QED
    BY <1>2, <1>8, <2>2
<1>11. reported' \in Nat /\ reported' > 0 /\ reports' \in Nat /\ reports' > 0
  BY <1>2, <1>3, <1>5
<1> QED
  BY <1>2, <1>4, <1>9, <1>10, <1>11 DEF LogInv

LEMMA LogStep == LogInv /\ [Next]_vars => LogInv'
<1>1. ASSUME LogInv, Reload
      PROVE  LogInv'
  <2>1. UNCHANGED <<cursor, reported, reports>> /\ reloads' = reloads + 1
    BY <1>1 DEF Reload
  <2>2. reloads \in Nat
    BY <1>1 DEF LogInv
  <2>3. reloads' \in Nat /\ reloads' # 0
    BY <2>1, <2>2
  <2>4. events' = Reloaded(events)
    BY <1>1 DEF Reload, Reloaded, Numbers
  <2>5. events \in Logs /\ Outcome(events, reported)
    BY <1>1 DEF Reload, LogInv
  <2>6. events' \in Logs /\ Outcome(events', reported)
    BY <2>4, <2>5, ReloadedIs
  <2> QED
    BY <1>1, <2>1, <2>3, <2>6 DEF LogInv
<1>2. ASSUME LogInv, UNCHANGED vars
      PROVE  LogInv'
  BY <1>2 DEF LogInv, Newest, Outcome, vars
<1> QED
  BY <1>1, <1>2, StartStep, ResumeStep DEF Next

\* Whatever calls a run takes and however many events they report, until an upgrade
\* the log is the newest of them in the order they were reported: the cap drops only
\* the oldest, and merge_step_report neither loses nor reorders one
\* (crates/knolo-agent-icp/src/engine.rs, limits.rs).
THEOREM LogIsNewest == Spec => []NewestInOrder
<1>1. LogInv => NewestInOrder
  BY DEF LogInv, Newest, NewestInOrder
<1> QED
  BY <1>1, LogStart, LogStep, PTL DEF Spec

\* Whatever an upgrade drops and however often the canister is upgraded, the event
\* that says how the last call ended is in the log: it is the newest when it is
\* appended, so the cap spares it and it is the last one written under its number,
\* which is the one the event map keeps (engine.rs, limits.rs, stable_store.rs).
THEOREM OutcomeIsKept == Spec => []OutcomeKept
<1>1. LogInv => OutcomeKept
  BY DEF LogInv, Outcome, OutcomeKept
<1> QED
  BY <1>1, LogStart, LogStep, PTL DEF Spec
=============================================================================

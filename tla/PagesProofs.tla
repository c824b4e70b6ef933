----------------------------- MODULE PagesProofs -----------------------------
(***************************************************************************)
(* Proofs about the pages, for any day, history, reading and ledger: the   *)
(* hint of the projection comes true, an accepted snooze defers, the two   *)
(* spending summaries agree and cap once, and a warranty that has ended    *)
(* has ended.  They rest on the calendar and on sums by induction.         *)
(***************************************************************************)
EXTENDS Pages, FiniteSetTheorems, WellFoundedInduction, SequenceTheorems, TLAPS

-----------------------------------------------------------------------------
(* The calendar.                                                            *)

(* The days of a year before a month, as January is 0. *)
Table(i, leapDay) ==
  IF i = 0 THEN 0 ELSE IF i = 1 THEN 31 ELSE leapDay +
    (IF i = 2 THEN 59 ELSE IF i = 3 THEN 90 ELSE IF i = 4 THEN 120 ELSE IF i = 5 THEN 151 ELSE
     IF i = 6 THEN 181 ELSE IF i = 7 THEN 212 ELSE IF i = 8 THEN 243 ELSE IF i = 9 THEN 273 ELSE
     IF i = 10 THEN 304 ELSE IF i = 11 THEN 334 ELSE 365)

YearFirst(y) == 365 * y + LeapDaysBefore(y)
Leap(y) == IF y % 4 = 1 THEN 1 ELSE 0

LEMMA MonthInYear ==
  ASSUME NEW m \in Int
  PROVE  /\ Year(m) \in Int /\ m % 12 \in 0 .. 11 /\ m = 12 * Year(m) + (m % 12)
         /\ FirstOf(m) = YearFirst(Year(m)) + Table(m % 12, Leap(Year(m)))
<1>1. Year(m) \in Int /\ m % 12 \in 0 .. 11 /\ m = 12 * Year(m) + (m % 12)
  BY DEF Year
<1> DEFINE i == m % 12
<1>2. i \in 0 .. 11
  BY <1>1
<1>3. FirstOf(m) = 365 * Year(m) + LeapDaysBefore(Year(m)) + DaysBefore[i + 1] + (IF Year(m) % 4 = 1 /\ i > 1 THEN 1 ELSE 0)
  BY DEF FirstOf
<1>4. LeapDaysBefore(Year(m)) \in Int
  BY <1>1 DEF LeapDaysBefore
<1> HIDE DEF i
<1>5. DaysBefore[i + 1] + (IF Year(m) % 4 = 1 /\ i > 1 THEN 1 ELSE 0) = Table(i, Leap(Year(m)))
        /\ Table(i, Leap(Year(m))) \in Int /\ DaysBefore[i + 1] \in Int
  <2>1. CASE i \in 0 .. 1
    BY <2>1 DEF DaysBefore, Table
  <2>2. CASE i \in 2 .. 11
    <3>1. (IF Year(m) % 4 = 1 /\ i > 1 THEN 1 ELSE 0) = Leap(Year(m)) /\ Leap(Year(m)) \in {0, 1}
      BY <2>2 DEF Leap
    <3> QED BY <2>2, <3>1 DEF DaysBefore, Table
  <2> QED BY <1>2, <2>1, <2>2
<1>6. FirstOf(m) = YearFirst(Year(m)) + Table(i, Leap(Year(m)))
  BY <1>1, <1>3, <1>4, <1>5 DEF YearFirst
<1> QED BY <1>1, <1>6 DEF i

LEMMA Years ==
  ASSUME NEW y \in Int
  PROVE  /\ YearFirst(y) \in Int /\ Leap(y) \in {0, 1}
         /\ YearFirst(y + 1) = YearFirst(y) + 365 + Leap(y)
         /\ 4 * YearFirst(y) <= 1461 * y + 2 /\ 1461 * y <= 4 * YearFirst(y) + 1
  BY DEF YearFirst, LeapDaysBefore, Leap

LEMMA LaterYear ==
  ASSUME NEW y \in Int, NEW z \in Int, y < z
  PROVE  YearFirst(y + 1) <= YearFirst(z)
  BY DEF YearFirst, LeapDaysBefore

LEMMA FirstAt ==
  ASSUME NEW y \in Int, NEW i \in 0 .. 11
  PROVE  /\ FirstOf(12 * y + i) = YearFirst(y) + Table(i, Leap(y))
         /\ FirstOf(12 * y + i + 1) = YearFirst(y) + Table(i + 1, Leap(y))
<1>1. ASSUME NEW z \in Int, NEW j \in 0 .. 11 PROVE FirstOf(12 * z + j) = YearFirst(z) + Table(j, Leap(z))
  <2>1. 12 * z + j \in Int /\ (12 * z + j) \div 12 = z /\ (12 * z + j) % 12 = j
    OBVIOUS
  <2> QED BY <2>1, MonthInYear DEF Year
<1>2. CASE i < 11
  <2>1. i + 1 \in 0 .. 11 /\ 12 * y + i + 1 = 12 * y + (i + 1)
    BY <1>2
  <2> QED BY <1>1, <2>1
<1>3. CASE i = 11
  <2>1. 12 * y + i + 1 = 12 * (y + 1) + 0 /\ y + 1 \in Int
    BY <1>3
  <2>2. FirstOf(12 * y + i + 1) = YearFirst(y + 1) + Table(0, Leap(y + 1))
    BY <1>1, <2>1
  <2>3. YearFirst(y + 1) = YearFirst(y) + 365 + Leap(y) /\ YearFirst(y) \in Int /\ Leap(y) \in {0, 1}
    BY Years
  <2>4. Table(0, Leap(y + 1)) = 0 /\ Table(12, Leap(y)) = 365 + Leap(y)
    BY <2>3 DEF Table
  <2>5. YearFirst(y + 1) + 0 = YearFirst(y) + (365 + Leap(y))
    BY <2>3
  <2>6. i + 1 = 12
    BY <1>3
  <2> QED BY <1>1, <2>2, <2>4, <2>5, <2>6
<1> QED BY <1>1, <1>2, <1>3

LEMMA TableIn ==
  ASSUME NEW l \in {0, 1}, NEW i \in 0 .. 12
  PROVE  Table(i, l) \in 0 .. 366
  BY DEF Table

LEMMA TableNext ==
  ASSUME NEW l \in {0, 1}, NEW i \in 0 .. 11
  PROVE  Table(i, l) \in Int /\ Table(i + 1, l) \in Int /\ Table(i + 1, l) - Table(i, l) \in 28 .. 31
  BY DEF Table

LEMMA TableLater ==
  ASSUME NEW l \in {0, 1}, NEW i \in 0 .. 11, NEW j \in 0 .. 11, i < j
  PROVE  Table(i + 1, l) <= Table(j, l)
  BY DEF Table

LEMMA TableMean ==
  ASSUME NEW l \in {0, 1}, NEW i \in 0 .. 11
  PROVE  487 * i <= 16 * Table(i, l) + 483 /\ 16 * Table(i + 1, l) < 487 * i + 982
  BY DEF Table

LEMMA TableFinds ==
  ASSUME NEW l \in {0, 1}, NEW r \in Int, 0 <= r, r < 365 + l
  PROVE  \E i \in 0 .. 11 : Table(i, l) <= r /\ r < Table(i + 1, l)
<1> SUFFICES ASSUME \A i \in 0 .. 11 : Table(i, l) <= r => ~(r < Table(i + 1, l)) PROVE FALSE
  OBVIOUS
<1>1. \A i \in 0 .. 11 : Table(i, l) <= r => Table(i + 1, l) <= r
  BY TableNext
<1>2. Table(0, l) <= r
  BY DEF Table
<1>3. Table(1, l) <= r /\ Table(2, l) <= r /\ Table(3, l) <= r /\ Table(4, l) <= r
  BY <1>1, <1>2
<1>4. Table(5, l) <= r /\ Table(6, l) <= r /\ Table(7, l) <= r /\ Table(8, l) <= r
  BY <1>1, <1>3
<1>5. Table(9, l) <= r /\ Table(10, l) <= r /\ Table(11, l) <= r /\ Table(12, l) <= r
  BY <1>1, <1>4
<1> QED BY <1>5 DEF Table

(* Months follow one another. *)
LEMMA MonthsFollow ==
  ASSUME NEW m \in Int
  PROVE  /\ FirstOf(m) \in Int
         /\ FirstOf(m + 1) - FirstOf(m) \in 28 .. 31
         /\ \A n \in Int : m < n => FirstOf(m + 1) <= FirstOf(n)
<1> DEFINE y == Year(m)
           i == m % 12
<1>1. y \in Int /\ i \in 0 .. 11 /\ m = 12 * y + i /\ m + 1 = 12 * y + i + 1
  BY MonthInYear
<1> HIDE DEF y, i
<1>2. /\ FirstOf(m) = YearFirst(y) + Table(i, Leap(y))
      /\ FirstOf(m + 1) = YearFirst(y) + Table(i + 1, Leap(y))
  BY <1>1, FirstAt
<1>3. YearFirst(y) \in Int /\ Leap(y) \in {0, 1} /\ YearFirst(y + 1) = YearFirst(y) + 365 + Leap(y)
  BY <1>1, Years
<1>4. Table(i, Leap(y)) \in Int /\ Table(i + 1, Leap(y)) - Table(i, Leap(y)) \in 28 .. 31
      /\ Table(i + 1, Leap(y)) \in Int
  BY <1>1, <1>3, TableNext
<1>5. ASSUME NEW n \in Int, m < n PROVE FirstOf(m + 1) <= FirstOf(n)
  <2> DEFINE z == Year(n)
             j == n % 12
  <2>1. z \in Int /\ j \in 0 .. 11 /\ n = 12 * z + j
    BY MonthInYear
  <2> HIDE DEF z, j
  <2>2. FirstOf(n) = YearFirst(z) + Table(j, Leap(z))
    BY <2>1, FirstAt
  <2>3. YearFirst(z) \in Int /\ Leap(z) \in {0, 1} /\ Table(j, Leap(z)) \in 0 .. 366
    <3>1. YearFirst(z) \in Int /\ Leap(z) \in {0, 1}
      BY <2>1, Years
    <3>2. j \in 0 .. 12
      BY <2>1
    <3> QED BY <3>1, <3>2, TableIn
  <2>4. CASE z = y
    <3>1. i < j
      BY <1>1, <1>5, <2>1, <2>4
    <3>2. Table(i + 1, Leap(y)) <= Table(j, Leap(y))
      BY <1>1, <1>3, <2>1, <3>1, TableLater
    <3> QED BY <1>2, <1>3, <1>4, <2>2, <2>3, <2>4, <3>2
  <2>5. CASE y < z
    <3>1. YearFirst(y + 1) <= YearFirst(z)
      BY <1>1, <2>1, <2>5, LaterYear
    <3>2. Table(i + 1, Leap(y)) <= 365 + Leap(y)
      BY <1>1, <1>3 DEF Table
    <3> QED BY <1>2, <1>3, <1>4, <2>2, <2>3, <3>1, <3>2
  <2>6. CASE z < y
    BY <1>1, <1>5, <2>1, <2>6
  <2> QED BY <1>1, <2>1, <2>4, <2>5, <2>6
<1> QED BY <1>2, <1>3, <1>4, <1>5

(* Every day is in one month, and MonthOf finds it. *)
LEMMA MonthFound ==
  ASSUME NEW d \in Int
  PROVE  /\ MonthOf(d) \in Int
         /\ FirstOf(MonthOf(d)) <= d /\ d < FirstOf(MonthOf(d) + 1)
<1>1. \E y \in Int : YearFirst(y) <= d /\ d < YearFirst(y + 1)
  <2> DEFINE y == (4 * d) \div 1461
  <2>1. y \in Int /\ 1461 * y <= 4 * d /\ 4 * d < 1461 * y + 1461
    OBVIOUS
  <2> HIDE DEF y
  <2>2. y - 1 \in Int /\ y + 1 \in Int /\ y + 2 \in Int /\ (y - 1) + 1 = y /\ (y + 1) + 1 = y + 2
    BY <2>1
  <2>3. YearFirst(y - 1) \in Int /\ YearFirst(y) \in Int /\ YearFirst(y + 1) \in Int /\ YearFirst(y + 2) \in Int
    BY <2>1, <2>2, Years
  <2>4. YearFirst(y - 1) <= d
    <3>1. 4 * YearFirst(y - 1) <= 1461 * (y - 1) + 2
      BY <2>2, Years
    <3> QED BY <2>1, <2>3, <3>1
  <2>5. d < YearFirst(y + 2)
    <3>1. 1461 * (y + 2) <= 4 * YearFirst(y + 2) + 1
      BY <2>2, Years
    <3> QED BY <2>1, <2>3, <3>1
  <2>6. CASE d < YearFirst(y)
    BY <2>2, <2>4, <2>6
  <2>7. CASE YearFirst(y) <= d /\ d < YearFirst(y + 1)
    BY <2>1, <2>7
  <2>8. CASE YearFirst(y + 1) <= d
    BY <2>2, <2>5, <2>8
  <2> QED BY <2>3, <2>6, <2>7, <2>8
<1>2. PICK y \in Int : YearFirst(y) <= d /\ d < YearFirst(y + 1)
  BY <1>1
<1>3. /\ YearFirst(y) \in Int /\ Leap(y) \in {0, 1} /\ YearFirst(y + 1) = YearFirst(y) + 365 + Leap(y)
      /\ 4 * YearFirst(y) <= 1461 * y + 2 /\ 1461 * y <= 4 * YearFirst(y) + 1
  BY Years
<1>4. PICK i \in 0 .. 11 : Table(i, Leap(y)) <= d - YearFirst(y) /\ d - YearFirst(y) < Table(i + 1, Leap(y))
  <2>1. d - YearFirst(y) \in Int /\ 0 <= d - YearFirst(y) /\ d - YearFirst(y) < 365 + Leap(y)
    BY <1>2, <1>3
  <2> QED BY <1>3, <2>1, TableFinds
<1> DEFINE m == 12 * y + i
           about == (16 * d) \div 487
<1>5. Table(i, Leap(y)) \in Int /\ Table(i + 1, Leap(y)) \in Int
  BY <1>3, TableNext
<1>6. m \in Int /\ FirstOf(m) <= d /\ d < FirstOf(m + 1)
  <2>1. m \in Int
    OBVIOUS
  <2>2. FirstOf(m) = YearFirst(y) + Table(i, Leap(y)) /\ FirstOf(m + 1) = YearFirst(y) + Table(i + 1, Leap(y))
    BY FirstAt
  <2> HIDE DEF m
  <2> QED BY <1>3, <1>4, <1>5, <2>1, <2>2
<1>7. m \in (about - 1) .. (about + 1)
  <2>1. 487 * i <= 16 * Table(i, Leap(y)) + 483 /\ 16 * Table(i + 1, Leap(y)) < 487 * i + 982
    BY <1>3, TableMean
  <2>2. 487 * (m - 1) <= 16 * d /\ 16 * d < 487 * (m + 2)
    BY <1>3, <1>4, <1>5, <2>1
  <2>3. about \in Int /\ 487 * about <= 16 * d /\ 16 * d < 487 * about + 487
    OBVIOUS
  <2> HIDE DEF m, about
  <2> QED BY <1>6, <2>2, <2>3
<1>8. MonthOf(d) = CHOOSE n \in (about - 1) .. (about + 1) : FirstOf(n) <= d /\ d < FirstOf(n + 1)
  BY DEF MonthOf
<1>9. about \in Int
  OBVIOUS
<1> HIDE DEF m, about
<1>10. \E n \in (about - 1) .. (about + 1) : FirstOf(n) <= d /\ d < FirstOf(n + 1)
  BY <1>6, <1>7
<1>11. /\ MonthOf(d) \in (about - 1) .. (about + 1)
       /\ FirstOf(MonthOf(d)) <= d /\ d < FirstOf(MonthOf(d) + 1)
  BY <1>8, <1>10
<1> QED BY <1>9, <1>11

LEMMA OneMonth ==
  ASSUME NEW d \in Int, NEW m \in Int, FirstOf(m) <= d, d < FirstOf(m + 1)
  PROVE  MonthOf(d) = m
<1> DEFINE n == MonthOf(d)
<1>1. n \in Int /\ FirstOf(n) <= d /\ d < FirstOf(n + 1)
  BY MonthFound
<1> HIDE DEF n
<1>2. /\ FirstOf(m) \in Int /\ FirstOf(n) \in Int /\ FirstOf(m + 1) \in Int /\ FirstOf(n + 1) \in Int
  BY <1>1, MonthsFollow
<1>3. ~(m < n)
  BY <1>1, <1>2, MonthsFollow
<1>4. ~(n < m)
  BY <1>1, <1>2, MonthsFollow
<1> QED BY <1>1, <1>3, <1>4 DEF n

(* The two parts of a date. *)
LEMMA DayInMonth ==
  ASSUME NEW d \in Int
  PROVE  /\ MonthOf(d) \in Int /\ DayOf(d) \in 0 .. 30 /\ FirstOf(MonthOf(d)) \in Int
         /\ d = FirstOf(MonthOf(d)) + DayOf(d)
         /\ \A m \in Int : FirstOf(m) \in Int /\ (FirstOf(m) <= d <=> m <= MonthOf(d))
<1> DEFINE n == MonthOf(d)
<1>1. n \in Int /\ FirstOf(n) <= d /\ d < FirstOf(n + 1)
  BY MonthFound
<1>2. /\ FirstOf(n) \in Int /\ FirstOf(n + 1) - FirstOf(n) \in 28 .. 31
      /\ n + 1 \in Int /\ FirstOf(n + 1) \in Int
  BY <1>1, MonthsFollow
<1>3. DayOf(d) = d - FirstOf(n)
  BY DEF DayOf
<1> HIDE DEF n
<1>4. DayOf(d) \in 0 .. 30 /\ d = FirstOf(n) + DayOf(d)
  BY <1>1, <1>2, <1>3
<1>5. ASSUME NEW m \in Int PROVE FirstOf(m) \in Int /\ (FirstOf(m) <= d <=> m <= n)
  <2>1. FirstOf(m) \in Int /\ FirstOf(m + 1) \in Int /\ FirstOf(m + 1) - FirstOf(m) \in 28 .. 31
    BY MonthsFollow
  <2>2. CASE m = n
    BY <1>1, <2>1, <2>2
  <2>3. CASE m < n
    <3>1. FirstOf(m + 1) <= FirstOf(n)
      BY <1>1, <2>3, MonthsFollow
    <3> QED BY <1>1, <1>2, <2>1, <2>3, <3>1
  <2>4. CASE n < m
    <3>1. FirstOf(n + 1) <= FirstOf(m)
      BY <1>1, <2>4, MonthsFollow
    <3> QED BY <1>1, <1>2, <2>1, <2>4, <3>1
  <2> QED BY <1>1, <2>1, <2>2, <2>3, <2>4
<1> QED BY <1>1, <1>2, <1>4, <1>5 DEF n

(* "One month" lands in the next month. *)
LEMMA NextMonth ==
  ASSUME NEW d \in Int
  PROVE  AddOneMonth(d) \in Int /\ MonthOf(AddOneMonth(d)) = MonthOf(d) + 1 /\ d < AddOneMonth(d)
<1> DEFINE target == MonthOf(d) + 1
           day == IF DayOf(d) < MonthLength(target) THEN DayOf(d) ELSE MonthLength(target) - 1
<1>1. /\ MonthOf(d) \in Int /\ DayOf(d) \in 0 .. 30 /\ target \in Int
      /\ FirstOf(target) \in Int /\ (FirstOf(target) <= d <=> target <= MonthOf(d))
  BY DayInMonth
<1>2. FirstOf(target + 1) - FirstOf(target) \in 28 .. 31 /\ FirstOf(target + 1) \in Int
  BY <1>1, MonthsFollow
<1>3. AddOneMonth(d) = FirstOf(target) + day
  BY DEF AddOneMonth
<1>4. MonthLength(target) = FirstOf(target + 1) - FirstOf(target)
  BY DEF MonthLength
<1>5. d < FirstOf(target)
  BY <1>1
<1>6. MonthLength(target) \in 28 .. 31
  BY <1>2, <1>4
<1>7. day \in 0 .. 30 /\ day < MonthLength(target)
  BY <1>1, <1>6
<1> HIDE DEF target, day
<1>8. AddOneMonth(d) \in Int /\ FirstOf(target) <= AddOneMonth(d) /\ AddOneMonth(d) < FirstOf(target + 1)
  BY <1>1, <1>2, <1>3, <1>4, <1>7
<1>9. MonthOf(AddOneMonth(d)) = target
  BY <1>1, <1>8, OneMonth
<1>10. d < AddOneMonth(d)
  BY <1>1, <1>5, <1>8
<1> QED BY <1>8, <1>9, <1>10 DEF target

-----------------------------------------------------------------------------
(* Snoozes: what the choices resolve to.                                    *)

Resolution(s, preset, on, miles, d, latest) ==
  \/ preset = "2w" /\ s = [on |-> {d + 14}, miles |-> {}]
  \/ preset = "1m" /\ s = [on |-> {AddOneMonth(d)}, miles |-> {}]
  \/ preset = "500mi" /\ \E l \in latest : s = [on |-> {}, miles |-> {Wrap(l + SnoozeMileStep)}]
  \/ preset = "clear" /\ s = NotSnoozed
  \/ /\ preset = "custom" /\ s = [on |-> on, miles |-> miles] /\ (on # {} \/ miles # {})
     /\ \A e \in on : e > d
     /\ \A m \in miles : latest # {} /\ \A l \in latest : m > l

LEMMA Resolved ==
  ASSUME NEW preset, NEW on, NEW miles, NEW d, NEW latest, NEW s \in ResolveSnooze(preset, on, miles, d, latest)
  PROVE  Resolution(s, preset, on, miles, d, latest)
<1> USE DEF ResolveSnooze, Resolution, None
<1>1. CASE preset = "2w"
  BY <1>1
<1>2. CASE preset = "1m"
  BY <1>2
<1>3. CASE preset = "500mi"
  BY <1>3
<1>4. CASE preset = "clear"
  BY <1>4
<1>5. CASE preset = "custom"
  BY <1>5 DEF CustomSnoozes
<1> QED BY <1>1, <1>2, <1>3, <1>4, <1>5

Snooze == [on : SUBSET Int, miles : SUBSET Int]

LEMMA SnoozeTyped ==
  ASSUME NEW preset, NEW on, on \subseteq Int, NEW miles, miles \subseteq Int, NEW d \in Int,
         NEW latest, latest \subseteq Nat,
         NEW s \in ResolveSnooze(preset, on, miles, d, latest)
  PROVE  s \in Snooze
<1>1. d + 14 \in Int /\ AddOneMonth(d) \in Int
  BY NextMonth
<1>2. \A l \in latest : Wrap(l + SnoozeMileStep) \in Int
  BY DueConstants DEF Wrap, SnoozeMileStep
<1> USE DEF Snooze
<1>3. CASE s = [on |-> {d + 14}, miles |-> {}]
  BY <1>1, <1>3
<1>4. CASE s = [on |-> {AddOneMonth(d)}, miles |-> {}]
  BY <1>1, <1>4
<1>5. CASE \E l \in latest : s = [on |-> {}, miles |-> {Wrap(l + SnoozeMileStep)}]
  BY <1>2, <1>5
<1>6. CASE s = NotSnoozed
  BY <1>6 DEF NotSnoozed, None
<1>7. CASE s = [on |-> on, miles |-> miles]
  BY <1>7
<1>8. \/ s = [on |-> {d + 14}, miles |-> {}] \/ s = [on |-> {AddOneMonth(d)}, miles |-> {}]
      \/ \E l \in latest : s = [on |-> {}, miles |-> {Wrap(l + SnoozeMileStep)}]
      \/ s = NotSnoozed \/ s = [on |-> on, miles |-> miles]
  <2>1. Resolution(s, preset, on, miles, d, latest)
    BY Resolved
  <2> QED BY <2>1 DEF Resolution
<1> QED BY <1>3, <1>4, <1>5, <1>6, <1>7, <1>8

-----------------------------------------------------------------------------
(* Induction, and sums.                                                     *)

(* A set that holds 0, and with a number the next, holds them all. *)
LEMMA NatSet ==
  ASSUME NEW S, 0 \in S, \A n \in Nat : n \in S => n + 1 \in S
  PROVE  \A n \in Nat : n \in S
<1> SUFFICES ASSUME NEW m \in Nat, m \notin S PROVE FALSE
  OBVIOUS
<1> DEFINE missing == {n \in Nat : n \notin S}
           less == OpToRel(<, Nat)
<1>1. missing \subseteq Nat /\ missing # {}
  OBVIOUS
<1>2. IsWellFoundedOn(less, Nat)
  BY NatLessThanWellFounded, Zenon
<1>3. \A y \in Nat, x \in Nat : y < x => <<y, x>> \in less
  BY DEF OpToRel
<1> HIDE DEF less
<1>4. \E x \in missing : \A y \in missing : ~(<<y, x>> \in less)
  <2> HIDE DEF missing
  <2> QED BY <1>1, <1>2, WFMin
<1>5. PICK n \in missing : \A y \in missing : ~(<<y, n>> \in less)
  BY <1>4
<1>6. n \in Nat /\ n \notin S /\ n # 0
  OBVIOUS
<1>7. n - 1 \in Nat /\ (n - 1) + 1 = n /\ n - 1 < n
  BY <1>6
<1>8. n - 1 \in missing
  BY <1>6, <1>7
<1> QED BY <1>3, <1>5, <1>6, <1>7, <1>8

(* A function on 1 .. n is a sequence of length n. *)
LEMMA IsSequence ==
  ASSUME NEW n \in Nat, NEW S, NEW f \in [1 .. n -> S]
  PROVE  f \in Seq(S) /\ Len(f) = n /\ DOMAIN f = 1 .. n
<1>1. f \in Seq(S)
  OBVIOUS
<1>2. DOMAIN f = 1 .. n
  OBVIOUS
<1>3. Len(f) \in Nat /\ DOMAIN f = 1 .. Len(f)
  BY <1>1, LenProperties
<1> QED BY <1>1, <1>2, <1>3

(* What a sum by recursion over the places of a sequence is. *)
IsSums(f, n, a) ==
  /\ f \in [0 .. n -> Int]
  /\ f[0] = 0
  /\ \A k \in 1 .. n : f[k] = f[k - 1] + a[k]

LEMMA SumsExist ==
  ASSUME NEW n \in Nat, NEW a \in [1 .. n -> Int]
  PROVE  \E f : IsSums(f, n, a)
<1> DEFINE S == {k \in Nat : k <= n => \E f : IsSums(f, k, a)}
<1>1. 0 \in S
  <2>1. IsSums([k \in 0 .. 0 |-> 0], 0, a)
    BY DEF IsSums
  <2> QED BY <2>1
<1>2. ASSUME NEW k \in Nat, k \in S, k + 1 <= n PROVE \E f : IsSums(f, k + 1, a)
  <2>1. PICK f : IsSums(f, k, a)
    BY <1>2
  <2> DEFINE g == [j \in 0 .. k + 1 |-> IF j = k + 1 THEN f[k] + a[k + 1] ELSE f[j]]
  <2>2. f \in [0 .. k -> Int] /\ f[0] = 0 /\ \A j \in 1 .. k : f[j] = f[j - 1] + a[j]
    BY <2>1 DEF IsSums
  <2>3. k + 1 \in 1 .. n /\ a[k + 1] \in Int
    BY <1>2
  <2>4. g \in [0 .. k + 1 -> Int]
    BY <2>2, <2>3
  <2>5. g[0] = 0
    BY <2>2
  <2>6. ASSUME NEW j \in 1 .. k + 1 PROVE g[j] = g[j - 1] + a[j]
    <3>1. j - 1 \in 0 .. k + 1 /\ j - 1 # k + 1 /\ j \in 0 .. k + 1
      OBVIOUS
    <3>2. g[j - 1] = f[j - 1]
      BY <3>1
    <3>3. CASE j = k + 1
      BY <3>1, <3>2, <3>3
    <3>4. CASE j # k + 1
      <4>1. j \in 1 .. k
        BY <3>4
      <4> QED BY <2>2, <3>1, <3>2, <3>4, <4>1
    <3> QED BY <3>3, <3>4
  <2>7. IsSums(g, k + 1, a)
    <3> HIDE DEF g
    <3> QED BY <2>4, <2>5, <2>6 DEF IsSums
  <2> QED BY <2>7
<1>3. \A k \in Nat : k \in S => k + 1 \in S
  BY <1>2
<1>4. n \in S
  <2> HIDE DEF S
  <2> QED BY <1>1, <1>3, NatSet
<1> QED BY <1>4

(* Sums gives the running totals. *)
LEMMA SumsAre ==
  ASSUME NEW n \in Nat, NEW a \in [1 .. n -> Int]
  PROVE  IsSums(Sums(a), n, a) /\ Total(a) = Sums(a)[n]
<1>1. Len(a) = n
  BY IsSequence
<1> DEFINE Rule(f) == f = [k \in 0 .. n |-> IF k = 0 THEN 0 ELSE f[k - 1] + a[k]]
<1>2. Sums(a) = CHOOSE f : Rule(f)
  BY <1>1 DEF Sums
<1>3. PICK g : IsSums(g, n, a)
  BY SumsExist
<1>4. Rule(g)
  BY <1>3 DEF IsSums
<1>5. Rule(Sums(a))
  <2> HIDE DEF Rule
  <2> QED BY <1>2, <1>4
<1> DEFINE f == Sums(a)
           S == {k \in Nat : k <= n => f[k] \in Int}
<1>6. f = [k \in 0 .. n |-> IF k = 0 THEN 0 ELSE f[k - 1] + a[k]]
  BY <1>5
<1> HIDE DEF f
<1>7. f[0] = 0
  BY <1>6
<1>8. \A k \in 1 .. n : f[k] = f[k - 1] + a[k]
  BY <1>6
<1>9. \A k \in Nat : k \in S
  <2>1. 0 \in S
    BY <1>7
  <2>2. ASSUME NEW k \in Nat, k \in S PROVE k + 1 \in S
    <3> SUFFICES ASSUME k + 1 <= n PROVE f[k + 1] \in Int
      OBVIOUS
    <3>1. k + 1 \in 1 .. n /\ (k + 1) - 1 = k /\ f[k] \in Int
      BY <2>2
    <3>2. f[k + 1] = f[k] + a[k + 1] /\ a[k + 1] \in Int
      BY <1>8, <3>1
    <3> QED BY <3>1, <3>2
  <2> HIDE DEF S
  <2> QED BY <2>1, <2>2, NatSet
<1>10. f \in [0 .. n -> Int]
  <2>1. \A k \in 0 .. n : f[k] \in Int
    BY <1>9
  <2>2. f = [k \in 0 .. n |-> f[k]]
    BY <1>6
  <2> QED BY <2>1, <2>2
<1>11. IsSums(f, n, a)
  BY <1>7, <1>8, <1>10 DEF IsSums
<1> QED BY <1>1, <1>11 DEF f, Total

LEMMA SumsOrdered ==
  ASSUME NEW n \in Nat, NEW a \in [1 .. n -> Int], NEW b \in [1 .. n -> Int],
         \A i \in 1 .. n : a[i] <= b[i]
  PROVE  Total(a) \in Int /\ Total(b) \in Int /\ Total(a) <= Total(b)
<1> DEFINE f == Sums(a)
           g == Sums(b)
           S == {k \in Nat : k <= n => f[k] <= g[k]}
<1>1. IsSums(f, n, a) /\ IsSums(g, n, b) /\ Total(a) = f[n] /\ Total(b) = g[n]
  BY SumsAre
<1> HIDE DEF f, g
<1>2. 0 \in S
  BY <1>1 DEF IsSums
<1>3. ASSUME NEW k \in Nat, k \in S PROVE k + 1 \in S
  <2> SUFFICES ASSUME k + 1 <= n PROVE f[k + 1] <= g[k + 1]
    OBVIOUS
  <2>1. k + 1 \in 1 .. n /\ (k + 1) - 1 = k /\ k \in 0 .. n /\ f[k] <= g[k]
    BY <1>3
  <2>2. f[k + 1] = f[k] + a[k + 1] /\ g[k + 1] = g[k] + b[k + 1] /\ f[k] \in Int /\ g[k] \in Int
    BY <1>1, <2>1 DEF IsSums
  <2>3. a[k + 1] \in Int /\ b[k + 1] \in Int /\ a[k + 1] <= b[k + 1]
    BY <2>1
  <2> QED BY <2>1, <2>2, <2>3
<1>4. n \in S
  <2> HIDE DEF S
  <2> QED BY <1>2, <1>3, NatSet
<1> QED BY <1>1, <1>4 DEF IsSums

LEMMA SumsNatural ==
  ASSUME NEW n \in Nat, NEW a \in [1 .. n -> Nat]
  PROVE  Sums(a) \in [0 .. n -> Nat] /\ Total(a) \in Nat
<1> DEFINE f == Sums(a)
           S == {k \in Nat : k <= n => f[k] \in Nat}
<1>1. IsSums(f, n, a) /\ Total(a) = f[n]
  <2>1. a \in [1 .. n -> Int]
    OBVIOUS
  <2> QED BY <2>1, SumsAre
<1> HIDE DEF f
<1>2. 0 \in S
  BY <1>1 DEF IsSums
<1>3. ASSUME NEW k \in Nat, k \in S PROVE k + 1 \in S
  <2> SUFFICES ASSUME k + 1 <= n PROVE f[k + 1] \in Nat
    OBVIOUS
  <2>1. k + 1 \in 1 .. n /\ (k + 1) - 1 = k /\ f[k] \in Nat
    BY <1>3
  <2> QED BY <1>1, <2>1 DEF IsSums
<1>4. \A k \in Nat : k \in S
  <2> HIDE DEF S
  <2> QED BY <1>2, <1>3, NatSet
<1>5. f \in [0 .. n -> Nat]
  BY <1>1, <1>4 DEF IsSums
<1> QED BY <1>1, <1>5 DEF f

LEMMA SumsAdd ==
  ASSUME NEW n \in Nat, NEW a \in [1 .. n -> Int], NEW b \in [1 .. n -> Int]
  PROVE  Total([i \in 1 .. n |-> a[i] + b[i]]) = Total(a) + Total(b)
<1> DEFINE c == [i \in 1 .. n |-> a[i] + b[i]]
           f == Sums(a)
           g == Sums(b)
           h == Sums(c)
           S == {k \in Nat : k <= n => h[k] = f[k] + g[k]}
<1>1. c \in [1 .. n -> Int]
  OBVIOUS
<1>2. \A k \in 1 .. n : c[k] = a[k] + b[k]
  OBVIOUS
<1> HIDE DEF c
<1>3. /\ IsSums(f, n, a) /\ IsSums(g, n, b) /\ IsSums(h, n, c)
      /\ Total(a) = f[n] /\ Total(b) = g[n] /\ Total(c) = h[n]
  BY <1>1, SumsAre
<1> HIDE DEF f, g, h
<1>4. 0 \in S
  BY <1>3 DEF IsSums
<1>5. ASSUME NEW k \in Nat, k \in S PROVE k + 1 \in S
  <2> SUFFICES ASSUME k + 1 <= n PROVE h[k + 1] = f[k + 1] + g[k + 1]
    OBVIOUS
  <2>1. k + 1 \in 1 .. n /\ (k + 1) - 1 = k /\ k \in 0 .. n /\ h[k] = f[k] + g[k]
    BY <1>5
  <2>2. /\ f[k + 1] = f[k] + a[k + 1] /\ g[k + 1] = g[k] + b[k + 1] /\ h[k + 1] = h[k] + c[k + 1]
        /\ f[k] \in Int /\ g[k] \in Int
    BY <1>3, <2>1 DEF IsSums
  <2>3. a[k + 1] \in Int /\ b[k + 1] \in Int /\ c[k + 1] = a[k + 1] + b[k + 1]
    BY <1>2, <2>1
  <2> QED BY <2>1, <2>2, <2>3
<1>6. n \in S
  <2> HIDE DEF S
  <2> QED BY <1>4, <1>5, NatSet
<1>7. Total(c) = Total(a) + Total(b)
  BY <1>3, <1>6
<1> QED BY <1>7 DEF c

(* Of numbers that are 0 but for one, or but for none. *)
LEMMA SumOfOne ==
  ASSUME NEW n \in Nat, NEW a \in [1 .. n -> Int], NEW j \in 1 .. n,
         \A i \in 1 .. n : i # j => a[i] = 0
  PROVE  Total(a) = a[j]
<1> DEFINE f == Sums(a)
           S == {k \in Nat : k <= n => f[k] = IF j <= k THEN a[j] ELSE 0}
<1>1. IsSums(f, n, a) /\ Total(a) = f[n]
  BY SumsAre
<1> HIDE DEF f
<1>2. 0 \in S
  BY <1>1 DEF IsSums
<1>3. ASSUME NEW k \in Nat, k \in S PROVE k + 1 \in S
  <2> SUFFICES ASSUME k + 1 <= n PROVE f[k + 1] = IF j <= k + 1 THEN a[j] ELSE 0
    OBVIOUS
  <2>1. k + 1 \in 1 .. n /\ (k + 1) - 1 = k /\ k \in 0 .. n
    OBVIOUS
  <2>2. f[k] = IF j <= k THEN a[j] ELSE 0
    BY <1>3, <2>1
  <2>3. f[k + 1] = f[k] + a[k + 1] /\ f[k] \in Int /\ a[k + 1] \in Int
    BY <1>1, <2>1 DEF IsSums
  <2>4. CASE j = k + 1
    <3>1. f[k] = 0
      BY <2>2, <2>4
    <3> QED BY <2>3, <2>4, <3>1
  <2>5. CASE j # k + 1
    <3>1. j <= k + 1 <=> j <= k
      BY <2>5
    <3>2. a[k + 1] = 0
      BY <2>1, <2>5
    <3> QED BY <2>2, <2>3, <3>1, <3>2
  <2> QED BY <2>4, <2>5
<1>4. n \in S
  <2> HIDE DEF S
  <2> QED BY <1>2, <1>3, NatSet
<1> QED BY <1>1, <1>4

LEMMA SumOfNone ==
  ASSUME NEW n \in Nat, NEW a \in [1 .. n -> Int], \A i \in 1 .. n : a[i] = 0
  PROVE  Total(a) = 0
<1>1. CASE n = 0
  BY <1>1, SumsAre DEF IsSums
<1>2. CASE n # 0
  <2>1. n \in 1 .. n
    BY <1>2
  <2>2. Total(a) = a[n]
    BY <2>1, SumOfOne
  <2> QED BY <2>1, <2>2
<1> QED BY <1>1, <1>2

Column(rows, n, k) == [i \in 1 .. n |-> rows[i][k]]
RowTotals(rows, n) == [i \in 1 .. n |-> Total(rows[i])]
IsFoot(foot, rows, n, m) == \A k \in 1 .. m : Total(Column(rows, n, k)) = foot[k]

(* A table summed by its rows is the table summed by its columns. *)
LEMMA SumsOfRows ==
  ASSUME NEW n \in Nat, NEW m \in Nat, NEW rows \in [1 .. n -> [1 .. m -> Int]],
         NEW foot \in [1 .. m -> Int],
         IsFoot(foot, rows, n, m)
  PROVE  Total(RowTotals(rows, n)) = Total(foot)
<1> USE DEF Column, RowTotals, IsFoot
<1> DEFINE f == Sums(foot)
           upTo(k) == [i \in 1 .. n |-> Sums(rows[i])[k]]
           column(k) == Column(rows, n, k)
           S == {k \in Nat : k <= m => Total(upTo(k)) = f[k]}
<1>1. IsSums(f, m, foot) /\ Total(foot) = f[m]
  BY SumsAre
<1>2. ASSUME NEW i \in 1 .. n PROVE IsSums(Sums(rows[i]), m, rows[i]) /\ Total(rows[i]) = Sums(rows[i])[m]
  <2>1. rows[i] \in [1 .. m -> Int]
    OBVIOUS
  <2> QED BY <2>1, SumsAre
<1> HIDE DEF f
<1>3. \A k \in 0 .. m : upTo(k) \in [1 .. n -> Int]
  BY <1>2 DEF IsSums
<1>4. 0 \in S
  <2>1. \A i \in 1 .. n : upTo(0)[i] = 0
    BY <1>2 DEF IsSums
  <2>2. upTo(0) \in [1 .. n -> Int]
    BY <1>3
  <2> HIDE DEF upTo
  <2>3. Total(upTo(0)) = 0
    BY <2>1, <2>2, SumOfNone
  <2>4. f[0] = 0
    BY <1>1 DEF IsSums
  <2> QED BY <2>3, <2>4
<1>5. ASSUME NEW k \in Nat, k \in S PROVE k + 1 \in S
  <2> SUFFICES ASSUME k + 1 <= m PROVE Total(upTo(k + 1)) = f[k + 1]
    OBVIOUS
  <2>1. k + 1 \in 1 .. m /\ (k + 1) - 1 = k /\ k \in 0 .. m /\ Total(upTo(k)) = f[k]
    BY <1>5
  <2>2. column(k + 1) \in [1 .. n -> Int] /\ Total(column(k + 1)) = foot[k + 1]
    BY <2>1
  <2>3. upTo(k + 1) = [i \in 1 .. n |-> upTo(k)[i] + column(k + 1)[i]]
    <3>1. \A i \in 1 .. n : Sums(rows[i])[k + 1] = Sums(rows[i])[k] + rows[i][k + 1]
      BY <1>2, <2>1 DEF IsSums
    <3> QED BY <3>1
  <2>4. upTo(k) \in [1 .. n -> Int]
    BY <1>3, <2>1
  <2> HIDE DEF upTo, column
  <2>5. Total(upTo(k + 1)) = Total(upTo(k)) + Total(column(k + 1))
    <3> DEFINE a == upTo(k)
               b == column(k + 1)
    <3>1. a \in [1 .. n -> Int] /\ b \in [1 .. n -> Int]
      BY <2>2, <2>4
    <3>2. upTo(k + 1) = [i \in 1 .. n |-> a[i] + b[i]]
      BY <2>3
    <3> HIDE DEF a, b
    <3>3. Total([i \in 1 .. n |-> a[i] + b[i]]) = Total(a) + Total(b)
      BY ONLY n \in Nat, <3>1, SumsAdd
    <3> QED BY <3>2, <3>3 DEF a, b
  <2>6. f[k + 1] = f[k] + foot[k + 1]
    BY <1>1, <2>1 DEF IsSums
  <2> QED BY <2>1, <2>2, <2>5, <2>6
<1>6. m \in S
  <2> HIDE DEF S
  <2> QED BY <1>4, <1>5, NatSet
<1>7. upTo(m) = [i \in 1 .. n |-> Total(rows[i])]
  BY <1>2
<1>8. Total(upTo(m)) = f[m]
  BY <1>6
<1> HIDE DEF upTo
<1> QED BY <1>1, <1>7, <1>8

(* A set of places has as many members as its marks add up to. *)
LEMMA CountIsSum ==
  ASSUME NEW n \in Nat, NEW some, some \subseteq 1 .. n
  PROVE  /\ IsFiniteSet(some) /\ Cardinality(some) \in Nat
         /\ Cardinality(some) = Total([i \in 1 .. n |-> IF i \in some THEN 1 ELSE 0])
<1> DEFINE a == [i \in 1 .. n |-> IF i \in some THEN 1 ELSE 0]
           f == Sums(a)
           upTo(k) == some \cap (1 .. k)
           S == {k \in Nat : k <= n => IsFiniteSet(upTo(k)) /\ Cardinality(upTo(k)) = f[k]}
<1>1. IsSums(f, n, a) /\ Total(a) = f[n]
  <2>1. a \in [1 .. n -> Int]
    OBVIOUS
  <2> QED BY <2>1, SumsAre
<1>2. \A k \in 1 .. n : a[k] = IF k \in some THEN 1 ELSE 0
  OBVIOUS
<1> HIDE DEF a, f
<1>3. 0 \in S
  <2>1. upTo(0) = {}
    OBVIOUS
  <2>2. f[0] = 0
    BY <1>1 DEF IsSums
  <2> QED BY <2>1, <2>2, FS_EmptySet
<1>4. ASSUME NEW k \in Nat, k \in S PROVE k + 1 \in S
  <2> SUFFICES ASSUME k + 1 <= n PROVE IsFiniteSet(upTo(k + 1)) /\ Cardinality(upTo(k + 1)) = f[k + 1]
    OBVIOUS
  <2>1. k + 1 \in 1 .. n /\ (k + 1) - 1 = k /\ k \in 0 .. n
        /\ IsFiniteSet(upTo(k)) /\ Cardinality(upTo(k)) = f[k]
    BY <1>4
  <2>2. f[k + 1] = f[k] + a[k + 1] /\ f[k] \in Int
    BY <1>1, <2>1 DEF IsSums
  <2>3. CASE k + 1 \in some
    <3>1. upTo(k + 1) = upTo(k) \cup {k + 1}
      <4>1. 1 .. k + 1 = (1 .. k) \cup {k + 1}
        OBVIOUS
      <4> QED BY <2>3, <4>1
    <3>2. k + 1 \notin upTo(k)
      OBVIOUS
    <3> HIDE DEF upTo
    <3>3. IsFiniteSet(upTo(k + 1)) /\ Cardinality(upTo(k + 1)) = Cardinality(upTo(k)) + 1
      BY <2>1, <3>1, <3>2, FS_AddElement
    <3> QED BY <1>2, <2>1, <2>2, <2>3, <3>3
  <2>4. CASE k + 1 \notin some
    <3>1. upTo(k + 1) = upTo(k)
      <4>1. 1 .. k + 1 = (1 .. k) \cup {k + 1}
        OBVIOUS
      <4> QED BY <2>4, <4>1
    <3> HIDE DEF upTo
    <3> QED BY <1>2, <2>1, <2>2, <2>4, <3>1
  <2> QED BY <2>3, <2>4
<1>5. n \in S
  <2> HIDE DEF S
  <2> QED BY <1>3, <1>4, NatSet
<1>6. some \cap (1 .. n) = some
  OBVIOUS
<1>7. IsFiniteSet(some) /\ Cardinality(some) = f[n]
  BY <1>5, <1>6
<1> QED BY <1>1, <1>7, FS_CardinalityType DEF a

Part(type, foot, m, t) == [k \in 1 .. m |-> IF type[k] = t THEN foot[k] ELSE 0]
PartTotals(type, foot, m, order, n) == [i \in 1 .. n |-> Total(Part(type, foot, m, order[i]))]

(* Every member once. *)
Enumerates(order, n, T) ==
  /\ order \in [1 .. n -> T]
  /\ \A i, j \in 1 .. n : i # j => order[i] # order[j]
  /\ \A t \in T : \E i \in 1 .. n : order[i] = t

HasTypes(foot, m, type, T) == \A k \in 1 .. m : foot[k] # 0 => type[k] \in T

(* Parts of a sum, each number in the part of its type: the parts, in any   *)
(* order of the types, add up to the whole.                                 *)
LEMMA SumOfParts ==
  ASSUME NEW n \in Nat, NEW m \in Nat, NEW foot \in [1 .. m -> Int], NEW T, NEW type,
         NEW order, Enumerates(order, n, T), HasTypes(foot, m, type, T)
  PROVE  Total(PartTotals(type, foot, m, order, n)) = Total(foot)
<1> DEFINE row(i) == [k \in 1 .. m |-> IF type[k] = order[i] THEN foot[k] ELSE 0]
           rows == [i \in 1 .. n |-> row(i)]
           column(k) == Column(rows, n, k)
<1> USE DEF Enumerates, HasTypes
<1>1. \A i \in 1 .. n : row(i) \in [1 .. m -> Int]
  OBVIOUS
<1>2. rows \in [1 .. n -> [1 .. m -> Int]]
  <2> HIDE DEF row
  <2> QED BY <1>1
<1>3. ASSUME NEW k \in 1 .. m PROVE Total(column(k)) = foot[k]
  <2>1. \A i \in 1 .. n : column(k)[i] = IF type[k] = order[i] THEN foot[k] ELSE 0
    BY DEF Column
  <2>2. foot[k] \in Int
    OBVIOUS
  <2>3. column(k) = [i \in 1 .. n |-> column(k)[i]]
    BY DEF Column
  <2> HIDE DEF column
  <2>4. column(k) \in [1 .. n -> Int]
    BY <2>1, <2>2, <2>3
  <2>5. CASE foot[k] = 0
    <3>1. \A i \in 1 .. n : column(k)[i] = 0
      BY <2>1, <2>5
    <3> QED BY <2>4, <2>5, <3>1, SumOfNone
  <2>6. CASE foot[k] # 0
    <3>1. PICK j \in 1 .. n : order[j] = type[k]
      BY <2>6
    <3>2. \A i \in 1 .. n : i # j => column(k)[i] = 0
      BY <2>1, <3>1
    <3> DEFINE c == column(k)
    <3> HIDE DEF c
    <3>3. c \in [1 .. n -> Int] /\ \A i \in 1 .. n : i # j => c[i] = 0
      BY <2>4, <3>2 DEF c
    <3>4. Total(c) = c[j]
      BY ONLY n \in Nat, j \in 1 .. n, <3>3, SumOfOne
    <3> QED BY <2>1, <3>1, <3>4 DEF c
  <2> QED BY <2>5, <2>6
<1>4. Total(RowTotals(rows, n)) = Total(foot)
  <2>1. IsFoot(foot, rows, n, m)
    BY <1>3 DEF IsFoot
  <2> HIDE DEF rows, row, column
  <2> QED BY ONLY n \in Nat, m \in Nat, foot \in [1 .. m -> Int], <1>2, <2>1, SumsOfRows
<1>5. RowTotals(rows, n) = PartTotals(type, foot, m, order, n)
  BY DEF RowTotals, PartTotals, Part
<1> HIDE DEF rows
<1> QED BY <1>4, <1>5

-----------------------------------------------------------------------------
(* Capping.                                                                 *)

LEMMA LeastIs ==
  ASSUME NEW x \in Nat, NEW y \in Nat
  PROVE  /\ Least(x) \in 0 .. MaxInt
         /\ x <= MaxInt => Least(x) = x
         /\ x <= y => Least(x) <= Least(y)
         /\ AddCents(Least(x), Least(y)) = Least(x + y)
  BY DueConstants DEF Least, AddCents, Wrap

(* A total capped at every step, of amounts that were capped before, is the *)
(* whole capped once.                                                       *)
LEMMA CappedIsLeast ==
  ASSUME NEW n \in Nat, NEW a \in [1 .. n -> Nat], NEW b \in [1 .. n -> Int],
         \A i \in 1 .. n : b[i] = Least(a[i])
  PROVE  CappedSum(b) = Least(Total(a))
<1> DEFINE f == Sums(a)
           Rule(h) == h = [k \in 0 .. n |-> IF k = 0 THEN 0 ELSE AddCents(h[k - 1], b[k])]
           g == [k \in 0 .. n |-> Least(f[k])]
<1>1. IsSums(f, n, a) /\ Total(a) = f[n] /\ f \in [0 .. n -> Nat]
  <2>1. a \in [1 .. n -> Int]
    OBVIOUS
  <2> QED BY <2>1, SumsAre, SumsNatural
<1>2. Len(b) = n
  BY IsSequence
<1>3. CappedSums(b) = CHOOSE h : Rule(h)
  BY <1>2 DEF CappedSums
<1> HIDE DEF f
<1>4. ASSUME NEW k \in 1 .. n PROVE Least(f[k]) = AddCents(Least(f[k - 1]), b[k])
  <2>1. f[k] = f[k - 1] + a[k] /\ f[k - 1] \in Nat /\ a[k] \in Nat
    BY <1>1 DEF IsSums
  <2> QED BY <2>1, LeastIs
<1>5. Least(f[0]) = 0
  BY <1>1, DueConstants DEF IsSums, Least
<1>6. Rule(g)
  BY <1>4, <1>5
<1>7. Rule(CappedSums(b))
  <2> HIDE DEF Rule, g
  <2> QED BY <1>3, <1>6
<1> DEFINE h == CappedSums(b)
           S == {k \in Nat : k <= n => h[k] = Least(f[k])}
<1>8. h[0] = 0 /\ \A k \in 1 .. n : h[k] = AddCents(h[k - 1], b[k])
  <2> HIDE DEF h
  <2>1. h = [k \in 0 .. n |-> IF k = 0 THEN 0 ELSE AddCents(h[k - 1], b[k])]
    BY <1>7 DEF h
  <2> QED BY <2>1
<1> HIDE DEF h
<1>9. 0 \in S
  BY <1>5, <1>8
<1>10. ASSUME NEW k \in Nat, k \in S PROVE k + 1 \in S
  <2> SUFFICES ASSUME k + 1 <= n PROVE h[k + 1] = Least(f[k + 1])
    OBVIOUS
  <2>1. k + 1 \in 1 .. n /\ (k + 1) - 1 = k /\ h[k] = Least(f[k])
    BY <1>10
  <2> QED BY <1>4, <1>8, <2>1
<1>11. n \in S
  <2> HIDE DEF S
  <2> QED BY <1>9, <1>10, NatSet
<1> QED BY <1>1, <1>2, <1>11 DEF CappedSum, h

-----------------------------------------------------------------------------
(* Sorting numbers by a weight, the heavier first and the smaller number of *)
(* two with the same weight.                                                *)

Sooner(w, a, b) == w[a] > w[b] \/ (w[a] = w[b] /\ a < b)

InOrder(T, w) ==
  {order \in SetToSeqs(T) : \A i, j \in DOMAIN order : i < j => Sooner(w, order[i], order[j])}

LEMMA SoonerIsOrder ==
  ASSUME NEW U, U \subseteq Int, NEW w \in [U -> Int], NEW a \in U, NEW b \in U, NEW c \in U
  PROVE  /\ a # b => Sooner(w, a, b) \/ Sooner(w, b, a)
         /\ ~(Sooner(w, a, b) /\ Sooner(w, b, a))
         /\ Sooner(w, a, b) /\ Sooner(w, b, c) => Sooner(w, a, c)
<1>1. a \in Int /\ b \in Int /\ c \in Int /\ w[a] \in Int /\ w[b] \in Int /\ w[c] \in Int
  OBVIOUS
<1> QED BY <1>1 DEF Sooner

(* There is a last one. *)
IsLast(w, T, m) == m \in T /\ \A t \in T : t # m => Sooner(w, t, m)

LEMMA OneIsLast ==
  ASSUME NEW U, U \subseteq Int, NEW w \in [U -> Int],
         NEW T, T \subseteq U, IsFiniteSet(T), T # {}
  PROVE  \E m : IsLast(w, T, m)
<1> DEFINE HasLast(V) == V # {} => \E m : IsLast(w, V, m)
           S == {n \in Nat : \A V \in SUBSET U : IsFiniteSet(V) /\ Cardinality(V) = n => HasLast(V)}
<1>1. 0 \in S
  BY FS_EmptySet
<1>2. ASSUME NEW n \in Nat, n \in S, NEW V \in SUBSET U, IsFiniteSet(V), Cardinality(V) = n + 1
      PROVE  HasLast(V)
  <2> SUFFICES ASSUME V # {} PROVE \E m : IsLast(w, V, m)
    OBVIOUS
  <2>1. PICK x : x \in V
    OBVIOUS
  <2> DEFINE W == V \ {x}
  <2>2. W \in SUBSET U /\ IsFiniteSet(W) /\ Cardinality(W) = n
    <3>1. /\ IsFiniteSet(V \ {x})
          /\ Cardinality(V \ {x}) = IF x \in V THEN Cardinality(V) - 1 ELSE Cardinality(V)
      BY <1>2, FS_RemoveElement
    <3>2. Cardinality(W) = (n + 1) - 1
      BY <1>2, <2>1, <3>1
    <3>3. (n + 1) - 1 = n
      OBVIOUS
    <3>4. W \subseteq U
      OBVIOUS
    <3> QED BY <3>1, <3>2, <3>3, <3>4
  <2>3. HasLast(W)
    BY <1>2, <2>2
  <2>4. CASE W = {}
    <3>1. IsLast(w, V, x)
      BY <2>1, <2>4 DEF IsLast
    <3> QED BY <3>1
  <2>5. CASE W # {}
    <3>1. PICK m : IsLast(w, W, m)
      BY <2>3, <2>5
    <3>2. m \in W /\ \A t \in W : t # m => Sooner(w, t, m)
      BY <3>1 DEF IsLast
    <3>3. m \in U /\ x \in U /\ m # x /\ \A t \in V : t \in U
      BY <1>2, <2>1, <3>2
    <3>4. CASE Sooner(w, x, m)
      <4>1. IsLast(w, V, m)
        BY <3>2, <3>4 DEF IsLast
      <4> QED BY <4>1
    <3>5. CASE Sooner(w, m, x)
      <4>1. ASSUME NEW t \in V, t # x PROVE Sooner(w, t, x)
        <5>1. t \in W /\ t \in U
          BY <3>3, <4>1
        <5>2. CASE t = m
          BY <3>5, <5>2
        <5>3. CASE t # m
          BY <3>2, <3>3, <3>5, <5>1, <5>3, SoonerIsOrder
        <5> QED BY <5>2, <5>3
      <4>2. IsLast(w, V, x)
        BY <2>1, <4>1 DEF IsLast
      <4> QED BY <4>2
    <3> QED BY <3>3, <3>4, <3>5, SoonerIsOrder
  <2> QED BY <2>4, <2>5
<1>3. ASSUME NEW n \in Nat, n \in S PROVE n + 1 \in S
  <2> HIDE DEF HasLast
  <2>1. \A V \in SUBSET U : IsFiniteSet(V) /\ Cardinality(V) = n + 1 => HasLast(V)
    BY <1>2, <1>3
  <2> QED BY <2>1
<1>4. Cardinality(T) \in Nat
  BY FS_CardinalityType
<1>5. Cardinality(T) \in S
  <2> HIDE DEF S
  <2> QED BY <1>1, <1>3, <1>4, NatSet
<1>6. HasLast(T)
  BY <1>5
<1> QED BY <1>6

(* There is an order. *)
LEMMA OrderExists ==
  ASSUME NEW U, U \subseteq Int, NEW w \in [U -> Int], NEW T, T \subseteq U, IsFiniteSet(T)
  PROVE  InOrder(T, w) # {}
<1> DEFINE S == {n \in Nat : \A V \in SUBSET U : IsFiniteSet(V) /\ Cardinality(V) = n => InOrder(V, w) # {}}
<1>1. 0 \in S
  <2> SUFFICES ASSUME NEW V \in SUBSET U, IsFiniteSet(V), Cardinality(V) = 0 PROVE InOrder(V, w) # {}
    OBVIOUS
  <2> DEFINE p == [i \in 1 .. 0 |-> 0]
  <2>1. p \in [1 .. 0 -> V] /\ DOMAIN p = 1 .. 0 /\ \A i : i \notin 1 .. 0
    OBVIOUS
  <2> HIDE DEF p
  <2>2. p \in InOrder(V, w)
    BY <2>1 DEF InOrder, SetToSeqs
  <2> QED BY <2>2
<1>2. ASSUME NEW n \in Nat, n \in S, NEW V \in SUBSET U, IsFiniteSet(V), Cardinality(V) = n + 1
      PROVE  InOrder(V, w) # {}
  <2>1. V # {}
    BY <1>2, FS_EmptySet
  <2>2. PICK m : IsLast(w, V, m)
    BY <1>2, <2>1, OneIsLast
  <2>3. m \in V /\ \A t \in V : t # m => Sooner(w, t, m)
    BY <2>2 DEF IsLast
  <2> DEFINE W == V \ {m}
  <2>4. W \in SUBSET U /\ IsFiniteSet(W) /\ Cardinality(W) = n
    <3>1. /\ IsFiniteSet(V \ {m})
          /\ Cardinality(V \ {m}) = IF m \in V THEN Cardinality(V) - 1 ELSE Cardinality(V)
      BY <1>2, FS_RemoveElement
    <3>2. Cardinality(W) = (n + 1) - 1
      BY <1>2, <2>3, <3>1
    <3>3. (n + 1) - 1 = n
      OBVIOUS
    <3>4. W \subseteq U
      OBVIOUS
    <3> QED BY <3>1, <3>2, <3>3, <3>4
  <2>5. PICK p : p \in InOrder(W, w)
    BY <1>2, <2>4
  <2>6. /\ p \in [1 .. n -> W] /\ DOMAIN p = 1 .. n
        /\ \A i, j \in 1 .. n : i # j => p[i] # p[j]
        /\ \A i, j \in 1 .. n : i < j => Sooner(w, p[i], p[j])
    BY <2>4, <2>5 DEF InOrder, SetToSeqs
  <2> DEFINE q == [i \in 1 .. n + 1 |-> IF i = n + 1 THEN m ELSE p[i]]
  <2>7. \A i \in 1 .. n : i \in 1 .. n + 1 /\ q[i] = p[i] /\ q[i] \in W
    BY <2>6
  <2>8. q[n + 1] = m /\ DOMAIN q = 1 .. n + 1
    OBVIOUS
  <2>9. \A i \in 1 .. n + 1 : i \in 1 .. n \/ i = n + 1
    OBVIOUS
  <2>10. q \in [1 .. n + 1 -> V]
    BY <2>3, <2>6
  <2> HIDE DEF q
  <2>11. \A i, j \in 1 .. n + 1 : i # j => q[i] # q[j]
    BY <2>6, <2>7, <2>8, <2>9
  <2>12. ASSUME NEW i \in 1 .. n + 1, NEW j \in 1 .. n + 1, i < j PROVE Sooner(w, q[i], q[j])
    <3>1. i \in 1 .. n
      BY <2>12
    <3>2. CASE j = n + 1
      BY <2>3, <2>7, <2>8, <3>1, <3>2
    <3>3. CASE j # n + 1
      BY <2>6, <2>7, <2>9, <2>12, <3>1, <3>3
    <3> QED BY <3>2, <3>3
  <2>13. q \in InOrder(V, w)
    BY <1>2, <2>8, <2>10, <2>11, <2>12 DEF InOrder, SetToSeqs
  <2> QED BY <2>13
<1>3. ASSUME NEW n \in Nat, n \in S PROVE n + 1 \in S
  BY <1>2, <1>3
<1>4. Cardinality(T) \in Nat
  BY FS_CardinalityType
<1>5. Cardinality(T) \in S
  <2> HIDE DEF S
  <2> QED BY <1>1, <1>3, <1>4, NatSet
<1> QED BY <1>5

(* It has all of them once. *)
LEMMA OrderIsBijection ==
  ASSUME NEW T, IsFiniteSet(T), NEW order \in SetToSeqs(T)
  PROVE  Cardinality(T) \in Nat /\ Enumerates(order, Cardinality(T), T)
<1> DEFINE n == Cardinality(T)
<1>1. n \in Nat
  BY FS_CardinalityType
<1>2. order \in [1 .. n -> T] /\ \A i, j \in 1 .. n : i # j => order[i] # order[j]
  BY DEF SetToSeqs
<1> HIDE DEF n
<1>3. order \in Injection(1 .. n, T)
  BY <1>2 DEF Injection, IsInjective
<1>4. Cardinality(1 .. n) = n
  BY <1>1, FS_Interval
<1>5. order \in Surjection(1 .. n, T)
  BY <1>3, <1>4, FS_Injection DEF n
<1>6. \A t \in T : \E i \in 1 .. n : order[i] = t
  BY <1>5 DEF Surjection
<1> QED BY <1>1, <1>2, <1>6 DEF n, Enumerates

(* And there is no other. *)
LEMMA OrderIsUnique ==
  ASSUME NEW T, T \subseteq Int, IsFiniteSet(T), NEW w \in [T -> Int],
         NEW p \in InOrder(T, w), NEW q \in InOrder(T, w)
  PROVE  p = q
<1> DEFINE n == Cardinality(T)
           S == {k \in Nat : \A i \in 1 .. n : i <= k => p[i] = q[i]}
<1>1. p \in SetToSeqs(T) /\ q \in SetToSeqs(T)
  BY DEF InOrder
<1>2. /\ n \in Nat /\ p \in [1 .. n -> T] /\ q \in [1 .. n -> T]
      /\ \A i, j \in 1 .. n : i # j => p[i] # p[j]
      /\ \A i, j \in 1 .. n : i # j => q[i] # q[j]
      /\ \A t \in T : \E i \in 1 .. n : p[i] = t
      /\ \A t \in T : \E i \in 1 .. n : q[i] = t
  BY <1>1, OrderIsBijection DEF Enumerates
<1> HIDE DEF n
<1>3. /\ \A i, j \in 1 .. n : i < j => Sooner(w, p[i], p[j])
      /\ \A i, j \in 1 .. n : i < j => Sooner(w, q[i], q[j])
  BY <1>2 DEF InOrder
<1>4. 0 \in S
  OBVIOUS
<1>5. ASSUME NEW k \in Nat, k \in S PROVE k + 1 \in S
  <2>1. \A i \in 1 .. n : i <= k => p[i] = q[i]
    BY <1>5
  <2>2. ASSUME k + 1 \in 1 .. n, p[k + 1] # q[k + 1] PROVE FALSE
    <3>1. p[k + 1] \in T /\ q[k + 1] \in T
      BY <1>2, <2>2
    <3>2. PICK i \in 1 .. n : q[i] = p[k + 1]
      BY <1>2, <3>1
    <3>3. PICK j \in 1 .. n : p[j] = q[k + 1]
      BY <1>2, <3>1
    <3>4. ~(i <= k) /\ i # k + 1
      BY <1>2, <2>1, <2>2, <3>2
    <3>5. ~(j <= k) /\ j # k + 1
      BY <1>2, <2>1, <2>2, <3>3
    <3>6. k + 1 < i /\ k + 1 < j
      BY <3>4, <3>5
    <3>7. Sooner(w, q[k + 1], p[k + 1])
      BY <1>3, <2>2, <3>2, <3>6
    <3>8. Sooner(w, p[k + 1], q[k + 1])
      BY <1>3, <2>2, <3>3, <3>6
    <3>9. p[k + 1] \in Int /\ q[k + 1] \in Int /\ w[p[k + 1]] \in Int /\ w[q[k + 1]] \in Int
      BY <3>1
    <3> QED BY <3>7, <3>8, <3>9 DEF Sooner
  <2>3. \A i \in 1 .. n : i <= k + 1 => i <= k \/ i = k + 1
    OBVIOUS
  <2> QED BY <2>1, <2>2, <2>3
<1>6. n \in S
  <2> HIDE DEF S
  <2> QED BY <1>2, <1>4, <1>5, NatSet
<1>7. \A i \in 1 .. n : p[i] = q[i]
  BY <1>2, <1>6
<1> QED BY <1>2, <1>7

-----------------------------------------------------------------------------
(* Spending.                                                                *)

LEMMA LedgerIs ==
  ASSUME NEW recs \in Ledgers
  PROVE  /\ Len(recs) \in Nat /\ DOMAIN recs = 1 .. Len(recs)
         /\ \A i \in 1 .. Len(recs) :
              /\ recs[i].type \in Int /\ recs[i].cost \subseteq 0 .. MaxInt
         /\ Priced(recs) \subseteq 1 .. Len(recs) /\ IsFiniteSet(Priced(recs))
         /\ PricedTypes(recs) \subseteq Int /\ IsFiniteSet(PricedTypes(recs))
<1> DEFINE Row == [type : Int, on : Int, cost : SUBSET (0 .. MaxInt)]
           T == PricedTypes(recs)
           P == Priced(recs)
           f == [i \in P |-> recs[i].type]
<1>1. recs \in Seq(Row)
  BY PagesConstants
<1>2. Len(recs) \in Nat /\ DOMAIN recs = 1 .. Len(recs) /\ \A i \in 1 .. Len(recs) : recs[i] \in Row
  <2> HIDE DEF Row
  <2> QED BY <1>1, LenProperties
<1>3. \A i \in 1 .. Len(recs) : recs[i].type \in Int /\ recs[i].cost \subseteq 0 .. MaxInt
  BY <1>2
<1>4. P \subseteq 1 .. Len(recs)
  BY <1>2 DEF Priced
<1>5. IsFiniteSet(P)
  BY <1>2, <1>4, CountIsSum
<1>6. T \subseteq Int
  BY <1>3, <1>4 DEF PricedTypes
<1>7. f \in Surjection(P, T)
  <2>1. f \in [P -> T]
    BY DEF PricedTypes
  <2>2. \A t \in T : \E i \in P : f[i] = t
    BY DEF PricedTypes
  <2> HIDE DEF f, P, T
  <2> QED BY <2>1, <2>2 DEF Surjection
<1>8. IsFiniteSet(T)
  <2> HIDE DEF f, P, T
  <2> QED BY <1>5, <1>7, FS_Surjection
<1> QED BY <1>2, <1>3, <1>4, <1>5, <1>6, <1>8

(* Costs are amounts of cents, and a total of them is capped alike at every *)
(* step and at the end.                                                     *)
LEMMA CostsAre ==
  ASSUME NEW recs \in Ledgers, NEW some, some \subseteq Priced(recs)
  PROVE  /\ Costs(recs, some) \in [1 .. Len(recs) -> 0 .. MaxInt]
         /\ Total(Costs(recs, some)) \in Nat
         /\ CappedSum(Costs(recs, some)) = LeastSum(Costs(recs, some))
<1> DEFINE a == Costs(recs, some)
           n == Len(recs)
<1>1. n \in Nat /\ DOMAIN recs = 1 .. n /\ some \subseteq 1 .. n
  BY LedgerIs
<1>2. ASSUME NEW i \in 1 .. n PROVE (IF i \in some THEN CHOOSE c \in recs[i].cost : TRUE ELSE 0) \in 0 .. MaxInt
  <2>1. CASE i \in some
    <3>1. recs[i].cost # {} /\ recs[i].cost \subseteq 0 .. MaxInt
      BY <2>1, LedgerIs DEF Priced, None
    <3>2. (CHOOSE c \in recs[i].cost : TRUE) \in recs[i].cost
      BY <3>1
    <3> QED BY <2>1, <3>1, <3>2
  <2>2. CASE i \notin some
    BY <2>2, DueConstants
  <2> QED BY <2>1, <2>2
<1>3. a \in [1 .. n -> 0 .. MaxInt]
  BY <1>1, <1>2 DEF Costs
<1> HIDE DEF a, n
<1>4. a \in [1 .. n -> Nat] /\ a \in [1 .. n -> Int] /\ \A i \in 1 .. n : a[i] \in Nat /\ a[i] <= MaxInt
  BY <1>3, DueConstants
<1>5. Total(a) \in Nat
  BY <1>1, <1>4, SumsNatural
<1>6. \A i \in 1 .. n : a[i] = Least(a[i])
  BY <1>4, DueConstants DEF Least
<1>7. CappedSum(a) = Least(Total(a))
  BY <1>1, <1>4, <1>6, CappedIsLeast
<1> QED BY <1>3, <1>5, <1>7 DEF a, n, LeastSum

TypeOf(recs) == [k \in 1 .. Len(recs) |-> recs[k].type]
Those(recs, some, t) == {k \in some : recs[k].type = t}

(* The records of a type are a part of them. *)
LEMMA PartOfCosts ==
  ASSUME NEW recs \in Ledgers, NEW some, some \subseteq Priced(recs), NEW t
  PROVE  Costs(recs, Those(recs, some, t)) = Part(TypeOf(recs), Costs(recs, some), Len(recs), t)
<1>1. DOMAIN recs = 1 .. Len(recs)
  BY LedgerIs
<1> QED BY <1>1 DEF Costs, Part, TypeOf, Those

LEMMA OrderOfTypes ==
  ASSUME NEW recs \in Ledgers, NEW order \in SetToSeqs(PricedTypes(recs)),
         NEW n, n = Cardinality(PricedTypes(recs))
  PROVE  n \in Nat /\ Enumerates(order, n, PricedTypes(recs))
<1>1. IsFiniteSet(PricedTypes(recs))
  BY LedgerIs
<1> QED BY <1>1, OrderIsBijection

(* The lines, each capped, add up to the whole, capped once. *)
LEMMA LinesAdd ==
  ASSUME NEW recs \in Ledgers, NEW order \in SetToSeqs(PricedTypes(recs)),
         NEW n, n = Cardinality(PricedTypes(recs)), NEW some, some \subseteq Priced(recs)
  PROVE  CappedSum([i \in 1 .. n |-> LeastSum(Costs(recs, Those(recs, some, order[i])))])
           = LeastSum(Costs(recs, some))
<1> DEFINE T == PricedTypes(recs)
           m == Len(recs)
           foot == Costs(recs, some)
           type == TypeOf(recs)
           mine(i) == Costs(recs, Those(recs, some, order[i]))
           a == [i \in 1 .. n |-> Total(mine(i))]
           b == [i \in 1 .. n |-> LeastSum(mine(i))]
<1>1. n \in Nat /\ Enumerates(order, n, T)
  BY OrderOfTypes
<1>2. m \in Nat /\ DOMAIN recs = 1 .. m
  BY LedgerIs
<1>3. foot \in [1 .. m -> Int]
  <2>1. foot \in [1 .. m -> 0 .. MaxInt]
    BY CostsAre
  <2> HIDE DEF foot
  <2> QED BY <2>1, DueConstants
<1>4. HasTypes(foot, m, type, T)
  <2> SUFFICES ASSUME NEW k \in 1 .. m, foot[k] # 0 PROVE type[k] \in T
    BY DEF HasTypes
  <2>1. k \in some
    BY <1>2 DEF Costs
  <2>2. recs[k].type \in T
    BY <2>1 DEF PricedTypes
  <2> QED BY <2>2 DEF TypeOf
<1>5. \A i \in 1 .. n : mine(i) = Part(type, foot, m, order[i])
  BY PartOfCosts
<1>6. Total(PartTotals(type, foot, m, order, n)) = Total(foot)
  <2> HIDE DEF T, m, foot, type
  <2> QED BY <1>1, <1>2, <1>3, <1>4, SumOfParts
<1>7. \A i \in 1 .. n : Total(mine(i)) \in Nat
  <2> SUFFICES ASSUME NEW i \in 1 .. n PROVE Total(mine(i)) \in Nat
    OBVIOUS
  <2>1. Those(recs, some, order[i]) \subseteq Priced(recs)
    BY DEF Those
  <2> QED BY <2>1, CostsAre
<1> HIDE DEF mine, foot, m, type, T
<1>8. a = PartTotals(type, foot, m, order, n)
  BY <1>5 DEF PartTotals
<1>9. a \in [1 .. n -> Nat]
  BY <1>7
<1>10. \A i \in 1 .. n : b[i] = Least(a[i])
  BY DEF LeastSum
<1>11. b \in [1 .. n -> Int]
  <2>1. \A i \in 1 .. n : LeastSum(mine(i)) \in Int
    BY <1>7, DueConstants DEF LeastSum, Least
  <2> QED BY <2>1
<1>12. Total(a) = Total(foot)
  BY <1>6, <1>8
<1> HIDE DEF a, b
<1>13. CappedSum(b) = Least(Total(a))
  BY <1>1, <1>9, <1>10, <1>11, CappedIsLeast
<1> QED BY <1>12, <1>13 DEF b, mine, foot, LeastSum

(* And so do their numbers of records. *)
LEMMA LinesCount ==
  ASSUME NEW recs \in Ledgers, NEW order \in SetToSeqs(PricedTypes(recs)),
         NEW n, n = Cardinality(PricedTypes(recs))
  PROVE  Total([i \in 1 .. n |-> Cardinality(OfType(recs, order[i]))]) = Cardinality(Priced(recs))
<1> DEFINE T == PricedTypes(recs)
           m == Len(recs)
           foot == [k \in 1 .. m |-> IF k \in Priced(recs) THEN 1 ELSE 0]
           type == TypeOf(recs)
<1>1. n \in Nat /\ Enumerates(order, n, T)
  BY OrderOfTypes
<1>2. m \in Nat /\ Priced(recs) \subseteq 1 .. m
  BY LedgerIs
<1>3. foot \in [1 .. m -> Int] /\ HasTypes(foot, m, type, T)
  BY DEF PricedTypes, TypeOf, HasTypes
<1>4. Total(PartTotals(type, foot, m, order, n)) = Total(foot)
  <2> HIDE DEF T, m, foot, type
  <2> QED BY <1>1, <1>2, <1>3, SumOfParts
<1>5. Cardinality(Priced(recs)) = Total(foot)
  BY <1>2, CountIsSum
<1>6. ASSUME NEW i \in 1 .. n
      PROVE  Cardinality(OfType(recs, order[i])) = Total(Part(type, foot, m, order[i]))
  <2> DEFINE some == OfType(recs, order[i])
             marks == [k \in 1 .. m |-> IF k \in some THEN 1 ELSE 0]
  <2>1. some \subseteq 1 .. m
    BY <1>2 DEF OfType
  <2>2. marks = Part(type, foot, m, order[i])
    BY DEF OfType, Part, TypeOf
  <2> HIDE DEF some, foot, m, type
  <2>3. Cardinality(some) = Total(marks)
    BY <1>2, <2>1, CountIsSum
  <2> QED BY <2>2, <2>3 DEF some
<1> HIDE DEF foot, m, type
<1>7. [i \in 1 .. n |-> Cardinality(OfType(recs, order[i]))] = PartTotals(type, foot, m, order, n)
  BY <1>6 DEF PartTotals
<1> QED BY <1>4, <1>5, <1>7

(* Both sorts put the types in the one order by their uncapped totals. *)
Weight(recs) == [t \in PricedTypes(recs) |-> TypeTotal(recs, t)]

LEMMA SortsAgree ==
  ASSUME NEW recs \in Ledgers
  PROVE  /\ Sorted(recs) = SqlSorted(recs)
         /\ \E order \in SetToSeqs(PricedTypes(recs)) : SqlSorted(recs) = {order}
<1> DEFINE T == PricedTypes(recs)
           w == Weight(recs)
<1>1. T \subseteq Int /\ IsFiniteSet(T)
  BY LedgerIs
<1>2. ASSUME NEW t \in T PROVE w[t] = TypeTotal(recs, t) /\ TypeTotal(recs, t) \in Int
  <2>1. OfType(recs, t) \subseteq Priced(recs)
    BY DEF OfType
  <2> QED BY <2>1, CostsAre DEF Weight, TypeTotal
<1>3. w \in [T -> Int]
  BY <1>2 DEF Weight
<1>4. ASSUME NEW order \in SetToSeqs(T)
      PROVE  /\ order \in Sorted(recs) <=> order \in InOrder(T, w)
             /\ order \in SqlSorted(recs) <=> order \in InOrder(T, w)
  <2> DEFINE n == Cardinality(T)
  <2>1. n \in Nat /\ Enumerates(order, n, T)
    BY <1>1, OrderIsBijection
  <2>2. DOMAIN order = 1 .. n /\ \A i \in 1 .. n : order[i] \in T
    BY <2>1 DEF Enumerates
  <2> HIDE DEF n, w
  <2>3. ASSUME NEW i \in 1 .. n, NEW j \in 1 .. n, i < j
        PROVE  /\ ~Less(recs, order[j], order[i]) <=> Sooner(w, order[i], order[j])
               /\ Sooner(w, order[i], order[j]) <=>
                    \/ TypeTotal(recs, order[i]) > TypeTotal(recs, order[j])
                    \/ TypeTotal(recs, order[i]) = TypeTotal(recs, order[j]) /\ order[i] < order[j]
    <3>1. order[i] # order[j] /\ order[i] \in T /\ order[j] \in T
      BY <2>1, <2>2, <2>3 DEF Enumerates
    <3>2. order[i] \in Int /\ order[j] \in Int
      BY <1>1, <3>1
    <3>3. /\ w[order[i]] = TypeTotal(recs, order[i]) /\ TypeTotal(recs, order[i]) \in Int
          /\ w[order[j]] = TypeTotal(recs, order[j]) /\ TypeTotal(recs, order[j]) \in Int
      BY <1>2, <3>1
    <3> QED BY <3>1, <3>2, <3>3 DEF Less, Sooner
  <2>4. order \in Sorted(recs) <=> \A i, j \in 1 .. n : i < j => ~Less(recs, order[j], order[i])
    BY <2>2 DEF Sorted
  <2>5. order \in InOrder(T, w) <=> \A i, j \in 1 .. n : i < j => Sooner(w, order[i], order[j])
    BY <2>2 DEF InOrder
  <2>6. order \in SqlSorted(recs) <=>
          \A i, j \in 1 .. n : i < j =>
            \/ TypeTotal(recs, order[i]) > TypeTotal(recs, order[j])
            \/ TypeTotal(recs, order[i]) = TypeTotal(recs, order[j]) /\ order[i] < order[j]
    BY <2>2 DEF SqlSorted
  <2>7. order \in Sorted(recs) <=> order \in InOrder(T, w)
    BY <2>3, <2>4, <2>5
  <2>8. order \in SqlSorted(recs) <=> order \in InOrder(T, w)
    BY <2>3, <2>5, <2>6
  <2> QED BY <2>7, <2>8
<1>5. /\ Sorted(recs) \subseteq SetToSeqs(T) /\ SqlSorted(recs) \subseteq SetToSeqs(T)
      /\ InOrder(T, w) \subseteq SetToSeqs(T)
  BY DEF Sorted, SqlSorted, InOrder
<1> HIDE DEF w, T
<1>6. Sorted(recs) = InOrder(T, w) /\ SqlSorted(recs) = InOrder(T, w)
  BY <1>4, <1>5
<1>7. PICK order : order \in InOrder(T, w)
  <2>1. InOrder(T, w) # {}
    BY <1>1, <1>3, OrderExists
  <2> QED BY <2>1
<1>8. \A p \in InOrder(T, w) : p = order
  BY <1>1, <1>3, <1>7, OrderIsUnique
<1> QED BY <1>5, <1>6, <1>7, <1>8 DEF T

(* What a summary of lines in that order is. *)
LEMMA LinesAgree ==
  ASSUME NEW recs \in Ledgers, NEW order, NEW today
  PROVE  LinesOf(order, recs, today, CappedSum) = LinesOf(order, recs, today, LeastSum)
<1>1. ASSUME NEW t PROVE TypeSpend(recs, t, today, CappedSum) = TypeSpend(recs, t, today, LeastSum)
  <2>1. OfType(recs, t) \subseteq Priced(recs)
    BY DEF OfType
  <2>2. ThisYear(recs, OfType(recs, t), today) \subseteq Priced(recs)
    BY <2>1 DEF ThisYear
  <2>3. CappedSum(Costs(recs, OfType(recs, t))) = LeastSum(Costs(recs, OfType(recs, t)))
    BY <2>1, CostsAre
  <2>4. CappedSum(Costs(recs, ThisYear(recs, OfType(recs, t), today)))
          = LeastSum(Costs(recs, ThisYear(recs, OfType(recs, t), today)))
    BY <2>2, CostsAre
  <2> QED BY <2>3, <2>4 DEF TypeSpend
<1> QED BY <1>1 DEF LinesOf

LEMMA SummaryIs ==
  ASSUME NEW recs \in Ledgers, NEW order \in SetToSeqs(PricedTypes(recs)), NEW today,
         NEW spend, spend = Summary(LinesOf(order, recs, today, LeastSum))
  PROVE  /\ spend.priced = Cardinality(Priced(recs))
         /\ spend.lifetime = LeastSum(Costs(recs, Priced(recs)))
         /\ spend.yearToDate = LeastSum(Costs(recs, ThisYear(recs, Priced(recs), today)))
<1> DEFINE n == Cardinality(PricedTypes(recs))
           lines == LinesOf(order, recs, today, LeastSum)
           year == ThisYear(recs, Priced(recs), today)
<1>1. n \in Nat /\ Enumerates(order, n, PricedTypes(recs))
  BY OrderOfTypes
<1>2. DOMAIN order = 1 .. n
  BY <1>1 DEF Enumerates
<1>3. year \subseteq Priced(recs)
  BY DEF ThisYear
<1>4. \A t : /\ OfType(recs, t) = Those(recs, Priced(recs), t)
             /\ ThisYear(recs, OfType(recs, t), today) = Those(recs, year, t)
  BY DEF OfType, Those, ThisYear
<1> HIDE DEF n, year
<1>5. /\ DOMAIN lines = 1 .. n
      /\ \A i \in 1 .. n :
           /\ lines[i].records = Cardinality(OfType(recs, order[i]))
           /\ lines[i].lifetime = LeastSum(Costs(recs, Those(recs, Priced(recs), order[i])))
           /\ lines[i].yearToDate = LeastSum(Costs(recs, Those(recs, year, order[i])))
  BY <1>2, <1>4 DEF LinesOf, TypeSpend
<1> HIDE DEF lines
<1>6. /\ spend.priced = Total([i \in DOMAIN lines |-> lines[i].records])
      /\ spend.lifetime = CappedSum([i \in DOMAIN lines |-> lines[i].lifetime])
      /\ spend.yearToDate = CappedSum([i \in DOMAIN lines |-> lines[i].yearToDate])
  BY DEF Summary, lines
<1>7. /\ [i \in DOMAIN lines |-> lines[i].records] = [i \in 1 .. n |-> Cardinality(OfType(recs, order[i]))]
      /\ [i \in DOMAIN lines |-> lines[i].lifetime]
           = [i \in 1 .. n |-> LeastSum(Costs(recs, Those(recs, Priced(recs), order[i])))]
      /\ [i \in DOMAIN lines |-> lines[i].yearToDate]
           = [i \in 1 .. n |-> LeastSum(Costs(recs, Those(recs, year, order[i])))]
  BY <1>5
<1>8. Total([i \in 1 .. n |-> Cardinality(OfType(recs, order[i]))]) = Cardinality(Priced(recs))
  BY LinesCount DEF n
<1>9. CappedSum([i \in 1 .. n |-> LeastSum(Costs(recs, Those(recs, Priced(recs), order[i])))])
        = LeastSum(Costs(recs, Priced(recs)))
  BY LinesAdd DEF n
<1>10. CappedSum([i \in 1 .. n |-> LeastSum(Costs(recs, Those(recs, year, order[i])))])
         = LeastSum(Costs(recs, year))
  BY <1>3, LinesAdd DEF n
<1> QED BY <1>6, <1>7, <1>8, <1>9, <1>10 DEF year

(* This year's costs are some of them all. *)
LEMMA YearIsPart ==
  ASSUME NEW recs \in Ledgers, NEW some, some \subseteq Priced(recs)
  PROVE  0 <= LeastSum(Costs(recs, some)) /\ LeastSum(Costs(recs, some)) <= LeastSum(Costs(recs, Priced(recs)))
<1> DEFINE a == Costs(recs, some)
           b == Costs(recs, Priced(recs))
           n == Len(recs)
<1>1. n \in Nat /\ DOMAIN recs = 1 .. n
  BY LedgerIs
<1>2. /\ a \in [1 .. n -> 0 .. MaxInt] /\ b \in [1 .. n -> 0 .. MaxInt]
      /\ Total(a) \in Nat /\ Total(b) \in Nat
  BY CostsAre
<1>3. \A i \in 1 .. n : a[i] = b[i] \/ a[i] = 0
  BY <1>1 DEF Costs
<1> HIDE DEF a, b, n
<1>4. a \in [1 .. n -> Int] /\ b \in [1 .. n -> Int] /\ \A i \in 1 .. n : a[i] <= b[i]
  BY <1>2, <1>3, DueConstants
<1>5. Total(a) <= Total(b)
  BY <1>1, <1>4, SumsOrdered
<1>6. Least(Total(a)) \in 0 .. MaxInt /\ Least(Total(a)) <= Least(Total(b))
  BY <1>2, <1>5, LeastIs
<1> QED BY <1>6 DEF a, b, LeastSum

-----------------------------------------------------------------------------
(* The variance of days, two of which differ, is positive.                  *)

Square(a) == a * a

LEMMA SquareIs ==
  ASSUME NEW a \in Int
  PROVE  Square(a) \in Int /\ Square(a) >= 0 /\ (a # 0 => Square(a) >= 1)
<1>1. CASE a = 0
  BY <1>1 DEF Square
<1>2. CASE a > 0
  <2>1. a * a >= a
    BY <1>2
  <2> QED BY <1>2, <2>1 DEF Square
<1>3. CASE a < 0
  <2> DEFINE b == -a
  <2>1. b \in Int /\ b > 0 /\ a * a = b * b
    BY <1>3
  <2> HIDE DEF b
  <2>2. b * b >= b
    BY <2>1
  <2> QED BY <2>1, <2>2 DEF Square
<1> QED BY <1>1, <1>2, <1>3

(* The sum of the squared distances from z, from the sums that the code     *)
(* keeps: one more day adds its own.                                        *)
Spread(c, s, q, z) == q - 2 * (z * s) + Square(z) * c
Variance(c, s, q) == c * q - Square(s)

LEMMA SpreadTyped ==
  ASSUME NEW c \in Int, NEW s \in Int, NEW q \in Int
  PROVE  /\ Variance(c, s, q) \in Int
         /\ \A z \in Int : Spread(c, s, q, z) \in Int
  BY DEF Spread, Variance, Square

Adds(c, s, q, y, d, t, r, z) ==
  /\ Spread(d, t, r, z) = Spread(c, s, q, z) + Square(y - z)
  /\ Variance(d, t, r) = Variance(c, s, q) + Spread(c, s, q, y)

LEMMA SpreadStep ==
  ASSUME NEW c \in Int, NEW s \in Int, NEW q \in Int, NEW y \in Int, NEW z \in Int,
         NEW d, d = c + 1, NEW t, t = s + y, NEW r, r = q + Square(y)
  PROVE  Adds(c, s, q, y, d, t, r, z)
  BY DEF Adds, Spread, Variance, Square

Marks(n, seen) == [i \in 1 .. n |-> IF i \in seen THEN 1 ELSE 0]
Masked(n, x, seen) == [i \in 1 .. n |-> IF i \in seen THEN x[i] ELSE 0]
Squares(n, x) == [i \in 1 .. n |-> x[i] * x[i]]

LEMMA VarianceIsPositive ==
  ASSUME NEW n \in Nat, NEW x \in [1 .. n -> Int], NEW seen, seen \subseteq 1 .. n,
         NEW a \in seen, NEW b \in seen, x[a] # x[b]
  PROVE  Covariance(x, x, seen) \in Int /\ Covariance(x, x, seen) > 0
<1> DEFINE c == Sums(Marks(n, seen))
           s == Sums(Masked(n, x, seen))
           q == Sums(Masked(n, Squares(n, x), seen))
<1>1. /\ IsSums(c, n, Marks(n, seen)) /\ Total(Marks(n, seen)) = c[n]
      /\ IsSums(s, n, Masked(n, x, seen)) /\ Total(Masked(n, x, seen)) = s[n]
      /\ IsSums(q, n, Masked(n, Squares(n, x), seen)) /\ Total(Masked(n, Squares(n, x), seen)) = q[n]
  <2>1. /\ Marks(n, seen) \in [1 .. n -> Int] /\ Masked(n, x, seen) \in [1 .. n -> Int]
        /\ Squares(n, x) \in [1 .. n -> Int]
    BY DEF Marks, Masked, Squares
  <2>2. Masked(n, Squares(n, x), seen) \in [1 .. n -> Int]
    BY <2>1 DEF Masked
  <2> QED BY <2>1, <2>2, SumsAre
<1> HIDE DEF c, s, q
<1>2. /\ c \in [0 .. n -> Int] /\ s \in [0 .. n -> Int] /\ q \in [0 .. n -> Int]
      /\ c[0] = 0 /\ s[0] = 0 /\ q[0] = 0
  BY <1>1 DEF IsSums
<1>3. ASSUME NEW k \in Nat, k + 1 <= n
      PROVE  /\ k \in 0 .. n /\ k + 1 \in 1 .. n /\ x[k + 1] \in Int
             /\ k + 1 \in seen => /\ c[k + 1] = c[k] + 1 /\ s[k + 1] = s[k] + x[k + 1]
                                  /\ q[k + 1] = q[k] + Square(x[k + 1])
             /\ k + 1 \notin seen => c[k + 1] = c[k] /\ s[k + 1] = s[k] /\ q[k + 1] = q[k]
  <2>1. k \in 0 .. n /\ k + 1 \in 1 .. n /\ (k + 1) - 1 = k /\ x[k + 1] \in Int
    BY <1>3
  <2>2. /\ c[k + 1] = c[k] + Marks(n, seen)[k + 1] /\ s[k + 1] = s[k] + Masked(n, x, seen)[k + 1]
        /\ q[k + 1] = q[k] + Masked(n, Squares(n, x), seen)[k + 1]
        /\ c[k] \in Int /\ s[k] \in Int /\ q[k] \in Int
    BY <1>1, <2>1 DEF IsSums
  <2>3. CASE k + 1 \in seen
    <3>1. /\ Marks(n, seen)[k + 1] = 1 /\ Masked(n, x, seen)[k + 1] = x[k + 1]
          /\ Masked(n, Squares(n, x), seen)[k + 1] = Square(x[k + 1])
      BY <2>1, <2>3 DEF Marks, Masked, Squares, Square
    <3> QED BY <2>1, <2>2, <2>3, <3>1
  <2>4. CASE k + 1 \notin seen
    <3>1. /\ Marks(n, seen)[k + 1] = 0 /\ Masked(n, x, seen)[k + 1] = 0
          /\ Masked(n, Squares(n, x), seen)[k + 1] = 0
      BY <2>1, <2>4 DEF Marks, Masked
    <3> QED BY <2>1, <2>2, <2>4, <3>1
  <2> QED BY <2>3, <2>4
<1> DEFINE P(k, z) == Spread(c[k], s[k], q[k], z)
           V(k) == Variance(c[k], s[k], q[k])
<1>4. /\ \A z \in Int : P(0, z) = 0
      /\ V(0) = 0
  BY <1>2 DEF Spread, Variance, Square
<1>5. ASSUME NEW k \in Nat, k + 1 <= n
      PROVE  /\ V(k) \in Int /\ (\A z \in Int : P(k, z) \in Int)
             /\ k + 1 \in seen => /\ \A z \in Int : P(k + 1, z) = P(k, z) + Square(x[k + 1] - z)
                                  /\ V(k + 1) = V(k) + P(k, x[k + 1])
             /\ k + 1 \notin seen => /\ \A z \in Int : P(k + 1, z) = P(k, z)
                                     /\ V(k + 1) = V(k)
  <2>1. c[k] \in Int /\ s[k] \in Int /\ q[k] \in Int
    BY <1>2, <1>3, <1>5
  <2>2. x[k + 1] \in Int
    BY <1>3, <1>5
  <2>3. V(k) \in Int /\ \A z \in Int : P(k, z) \in Int
    BY ONLY <2>1, SpreadTyped
  <2>4. ASSUME k + 1 \in seen
        PROVE  /\ \A z \in Int : P(k + 1, z) = P(k, z) + Square(x[k + 1] - z)
               /\ V(k + 1) = V(k) + P(k, x[k + 1])
    <3>1. /\ c[k + 1] = c[k] + 1 /\ s[k + 1] = s[k] + x[k + 1]
          /\ q[k + 1] = q[k] + Square(x[k + 1])
      BY <1>3, <1>5, <2>4
    <3> DEFINE y == x[k + 1]
               d == c[k + 1]
               t == s[k + 1]
               r == q[k + 1]
    <3>2. y \in Int /\ d = c[k] + 1 /\ t = s[k] + y /\ r = q[k] + Square(y)
      BY <2>2, <3>1
    <3> DEFINE e == c[k]
               f == s[k]
               g == q[k]
    <3>3. V(k + 1) = Variance(d, t, r) /\ V(k) = Variance(e, f, g)
      OBVIOUS
    <3>4. \A z \in Int : P(k + 1, z) = Spread(d, t, r, z) /\ P(k, z) = Spread(e, f, g, z)
      OBVIOUS
    <3>5. e \in Int /\ f \in Int /\ g \in Int /\ d = e + 1 /\ t = f + y /\ r = g + Square(y)
      BY <2>1, <3>2
    <3> HIDE DEF y, d, t, r, e, f, g
    <3>6. ASSUME NEW z \in Int PROVE Adds(e, f, g, y, d, t, r, z)
      BY ONLY z \in Int, <3>2, <3>5, SpreadStep
    <3> HIDE DEF P, V
    <3>7. /\ \A z \in Int : P(k + 1, z) = P(k, z) + Square(y - z)
          /\ V(k + 1) = V(k) + P(k, y)
      BY <3>2, <3>3, <3>4, <3>6 DEF Adds
    <3> QED BY <3>7 DEF y
  <2>5. ASSUME k + 1 \notin seen
        PROVE  /\ \A z \in Int : P(k + 1, z) = P(k, z)
               /\ V(k + 1) = V(k)
    <3>1. c[k + 1] = c[k] /\ s[k + 1] = s[k] /\ q[k + 1] = q[k]
      BY <1>3, <1>5, <2>5
    <3> QED BY <3>1
  <2> QED BY <2>3, <2>4, <2>5
<1> HIDE DEF P, V
<1> DEFINE Near(k) == \A z \in Int : P(k, z) >= 0 /\ \A i \in seen : i <= k => P(k, z) >= Square(x[i] - z)
           Differ(k) == \E i, j \in seen : i <= k /\ j <= k /\ x[i] # x[j]
           S == {k \in Nat : k <= n => Near(k) /\ V(k) >= 0 /\ (Differ(k) => V(k) > 0)}
<1>6. 0 \in S
  <2>1. \A i \in seen : ~(i <= 0)
    OBVIOUS
  <2> QED BY <1>4, <2>1
<1>7. ASSUME NEW k \in Nat, k \in S PROVE k + 1 \in S
  <2> SUFFICES ASSUME k + 1 <= n PROVE Near(k + 1) /\ V(k + 1) >= 0 /\ (Differ(k + 1) => V(k + 1) > 0)
    OBVIOUS
  <2> DEFINE y == x[k + 1]
             p == P(k, y)
             v == V(k)
  <2>1. Near(k) /\ V(k) >= 0 /\ (Differ(k) => V(k) > 0)
    BY <1>7
  <2>2. y \in Int /\ V(k) \in Int /\ \A z \in Int : P(k, z) \in Int
    BY <1>3, <1>5
  <2>3. \A i \in seen : x[i] \in Int /\ (i <= k + 1 => i <= k \/ i = k + 1)
    OBVIOUS
  <2>4. CASE k + 1 \notin seen
    <3>1. V(k + 1) = V(k) /\ \A z \in Int : P(k + 1, z) = P(k, z)
      BY <1>5, <2>4
    <3>2. \A i \in seen : i <= k + 1 => i <= k
      BY <2>3, <2>4
    <3>3. Near(k + 1)
      BY <2>1, <3>1, <3>2
    <3>4. Differ(k + 1) => Differ(k)
      BY <3>2
    <3> QED BY <2>1, <3>1, <3>3, <3>4
  <2>5. CASE k + 1 \in seen
    <3>1. V(k + 1) = V(k) + P(k, y) /\ \A z \in Int : P(k + 1, z) = P(k, z) + Square(y - z)
      BY <1>5, <2>5
    <3>2. Near(k + 1)
      <4> SUFFICES ASSUME NEW z \in Int
                   PROVE  P(k + 1, z) >= 0 /\ \A i \in seen : i <= k + 1 => P(k + 1, z) >= Square(x[i] - z)
        OBVIOUS
      <4>1. P(k + 1, z) = P(k, z) + Square(y - z) /\ P(k, z) \in Int /\ P(k, z) >= 0
        BY <2>1, <2>2, <3>1
      <4>2. y - z \in Int
        BY <2>2
      <4>3. Square(y - z) \in Int /\ Square(y - z) >= 0
        BY <4>2, SquareIs
      <4>4. ASSUME NEW i \in seen, i <= k + 1 PROVE P(k + 1, z) >= Square(x[i] - z)
        <5>1. CASE i = k + 1
          BY <4>1, <4>3, <5>1
        <5>2. CASE i <= k
          <6>1. P(k, z) >= Square(x[i] - z)
            BY <2>1, <5>2
          <6>2. x[i] - z \in Int
            BY <2>3
          <6>3. Square(x[i] - z) \in Int
            BY <6>2, SquareIs
          <6> HIDE DEF y
          <6> QED BY <4>1, <4>3, <6>1, <6>3
        <5> QED BY <2>3, <4>4, <5>1, <5>2
      <4> QED BY <4>1, <4>3, <4>4
    <3>3. /\ V(k + 1) = v + p /\ v \in Int /\ v >= 0 /\ p \in Int /\ p >= 0
          /\ Differ(k) => v > 0
          /\ \A i \in seen : i <= k => p >= Square(x[i] - y)
      BY <2>1, <2>2, <3>1
    <3> HIDE DEF p, v
    <3>4. V(k + 1) >= 0
      BY <3>3
    <3>5. ASSUME NEW i \in seen, i <= k, x[i] # y PROVE V(k + 1) > 0
      <4> HIDE DEF y
      <4>1. x[i] \in Int /\ y \in Int /\ x[i] # y
        BY <2>2, <2>3, <3>5
      <4>2. x[i] - y \in Int /\ x[i] - y # 0
        BY <4>1
      <4>3. Square(x[i] - y) \in Int /\ Square(x[i] - y) >= 1
        BY <4>2, SquareIs
      <4>4. p >= Square(x[i] - y)
        BY <3>3, <3>5
      <4> QED BY <3>3, <4>3, <4>4
    <3>6. ASSUME Differ(k + 1) PROVE V(k + 1) > 0
      <4>1. PICK i \in seen, j \in seen : i <= k + 1 /\ j <= k + 1 /\ x[i] # x[j]
        BY <3>6
      <4>2. CASE i <= k /\ j <= k
        <5>1. v > 0
          BY <3>3, <4>1, <4>2
        <5> QED BY <3>3, <5>1
      <4>3. CASE i = k + 1
        <5>1. j <= k /\ x[j] # y
          BY <2>3, <4>1, <4>3
        <5> QED BY <3>5, <5>1
      <4>4. CASE j = k + 1
        <5>1. i <= k /\ x[i] # y
          BY <2>3, <4>1, <4>4
        <5> QED BY <3>5, <5>1
      <4> QED BY <2>3, <4>1, <4>2, <4>3, <4>4
    <3> QED BY <3>2, <3>4, <3>6
  <2> QED BY <2>4, <2>5
<1>8. n \in S
  <2> HIDE DEF S
  <2> QED BY <1>6, <1>7, NatSet
<1>9. V(n) > 0
  <2>1. a <= n /\ b <= n
    OBVIOUS
  <2> QED BY <1>8, <2>1
<1>10. Covariance(x, x, seen) = V(n)
  <2>1. Cardinality(seen) = c[n]
    BY <1>1, CountIsSum DEF Marks
  <2>2. DOMAIN x = 1 .. n
    OBVIOUS
  <2>3. SumOver(x, seen) = s[n]
    BY <1>1, <2>2 DEF SumOver, Masked
  <2>4. SumOver([i \in DOMAIN x |-> x[i] * x[i]], seen) = q[n]
    <3>1. [i \in DOMAIN x |-> x[i] * x[i]] = Squares(n, x) /\ DOMAIN Squares(n, x) = 1 .. n
      BY <2>2 DEF Squares
    <3>2. SumOver(Squares(n, x), seen) = Total(Masked(n, Squares(n, x), seen))
      BY <3>1 DEF SumOver, Masked
    <3> QED BY <1>1, <3>1, <3>2
  <2>5. Covariance(x, x, seen) = Cardinality(seen) * SumOver([i \in DOMAIN x |-> x[i] * x[i]], seen)
                                   - SumOver(x, seen) * SumOver(x, seen)
    BY DEF Covariance
  <2>6. Covariance(x, x, seen) = c[n] * q[n] - s[n] * s[n]
    BY <2>1, <2>3, <2>4, <2>5
  <2> QED BY <2>6 DEF V, Variance, Square
<1>11. V(n) \in Int
  <2>1. c[n] \in Int /\ s[n] \in Int /\ q[n] \in Int
    BY <1>2
  <2> QED BY ONLY <2>1, SpreadTyped DEF V
<1> QED BY <1>9, <1>10, <1>11

-----------------------------------------------------------------------------
(* The window of the mileage history, which never moves back.               *)

LEMMA TableLeap ==
  ASSUME NEW l \in {0, 1}, NEW k \in {0, 1}, NEW i \in 0 .. 11
  PROVE  Table(i + 1, l) - Table(i, l) <= Table(i + 1, k) - Table(i, k) + 1
  BY DEF Table

LEMMA SameMonthLastYear ==
  ASSUME NEW m \in Int
  PROVE  MonthLength(m) <= MonthLength(m - 12) + 1
<1> DEFINE y == Year(m)
           i == m % 12
<1>1. y \in Int /\ i \in 0 .. 11 /\ m = 12 * y + i
  BY MonthInYear
<1> HIDE DEF y, i
<1>2. y - 1 \in Int /\ m - 12 = 12 * (y - 1) + i /\ m - 12 + 1 = 12 * (y - 1) + i + 1
      /\ m + 1 = 12 * y + i + 1
  BY <1>1
<1>3. /\ FirstOf(m) = YearFirst(y) + Table(i, Leap(y))
      /\ FirstOf(m + 1) = YearFirst(y) + Table(i + 1, Leap(y))
  BY <1>1, <1>2, FirstAt
<1>4. /\ FirstOf(m - 12) = YearFirst(y - 1) + Table(i, Leap(y - 1))
      /\ FirstOf(m - 12 + 1) = YearFirst(y - 1) + Table(i + 1, Leap(y - 1))
  BY <1>1, <1>2, FirstAt
<1>5. YearFirst(y) \in Int /\ Leap(y) \in {0, 1} /\ YearFirst(y - 1) \in Int /\ Leap(y - 1) \in {0, 1}
  BY <1>1, <1>2, Years
<1>6. /\ Table(i, Leap(y)) \in Int /\ Table(i + 1, Leap(y)) \in Int
      /\ Table(i, Leap(y - 1)) \in Int /\ Table(i + 1, Leap(y - 1)) \in Int
  BY <1>1, <1>5, TableNext
<1>7. Table(i + 1, Leap(y)) - Table(i, Leap(y)) <= Table(i + 1, Leap(y - 1)) - Table(i, Leap(y - 1)) + 1
  BY <1>1, <1>5, TableLeap
<1> QED BY <1>3, <1>4, <1>5, <1>6, <1>7 DEF MonthLength

LEMMA WindowFollows ==
  ASSUME NEW d \in Int
  PROVE  /\ WindowStart(d) \in Int /\ WindowStart(d) + 56 <= d
         /\ \A e \in Int : d <= e => WindowStart(d) <= WindowStart(e)
<1> DEFINE m == MonthOf(d)
<1>1. ASSUME NEW e \in Int
      PROVE  /\ MonthOf(e) \in Int /\ DayOf(e) \in 0 .. 30 /\ FirstOf(MonthOf(e)) \in Int
             /\ e = FirstOf(MonthOf(e)) + DayOf(e) /\ MonthOf(e) - 12 \in Int
             /\ FirstOf(MonthOf(e) - 12) \in Int
             /\ WindowStart(e) = FirstOf(MonthOf(e) - 12) + DayOf(e)
  <2>1. /\ MonthOf(e) \in Int /\ DayOf(e) \in 0 .. 30 /\ FirstOf(MonthOf(e)) \in Int
        /\ e = FirstOf(MonthOf(e)) + DayOf(e)
    BY DayInMonth
  <2>2. MonthOf(e) - 12 \in Int /\ MonthOf(e) + (-12) = MonthOf(e) - 12
    BY <2>1
  <2>3. FirstOf(MonthOf(e) - 12) \in Int
    BY <2>2, MonthsFollow
  <2>4. WindowStart(e) = FirstOf(MonthOf(e) - 12) + DayOf(e)
    BY <2>2 DEF WindowStart, AddMonths, EstimateWindowMonths
  <2> QED BY <2>1, <2>2, <2>3, <2>4
<1>2. /\ m \in Int /\ DayOf(d) \in 0 .. 30 /\ FirstOf(m) \in Int /\ d = FirstOf(m) + DayOf(d)
      /\ m - 12 \in Int /\ FirstOf(m - 12) \in Int /\ WindowStart(d) = FirstOf(m - 12) + DayOf(d)
  BY <1>1
<1>3. d < FirstOf(m + 1) /\ FirstOf(m + 1) \in Int
  <2>1. m + 1 \in Int
    BY <1>2
  <2> QED BY <2>1, MonthFound, MonthsFollow
<1> HIDE DEF m
<1>4. /\ m - 12 + 1 \in Int /\ FirstOf(m - 12 + 1) \in Int /\ FirstOf(m - 12) + 28 <= FirstOf(m - 12 + 1)
      /\ FirstOf(m - 12 + 1 + 1) \in Int /\ FirstOf(m - 12 + 1) + 28 <= FirstOf(m - 12 + 1 + 1)
      /\ FirstOf(m - 12 + 1 + 1) <= FirstOf(m)
  <2> DEFINE a == m - 12
             b == a + 1
             c == b + 1
  <2>1. a \in Int /\ b \in Int /\ c \in Int /\ b < m
    BY <1>2
  <2> HIDE DEF a, b, c
  <2>2. FirstOf(a) \in Int /\ FirstOf(a + 1) - FirstOf(a) \in 28 .. 31
    BY <2>1, MonthsFollow
  <2>3. /\ FirstOf(b) \in Int /\ FirstOf(b + 1) - FirstOf(b) \in 28 .. 31
        /\ FirstOf(b + 1) <= FirstOf(m)
    BY <1>2, <2>1, MonthsFollow
  <2>4. FirstOf(c) \in Int
    BY <2>1, MonthsFollow
  <2>5. /\ FirstOf(a) + 28 <= FirstOf(b) /\ FirstOf(b) + 28 <= FirstOf(c) /\ FirstOf(c) <= FirstOf(m)
    BY <2>2, <2>3, <2>4 DEF b, c
  <2> QED BY <2>1, <2>3, <2>4, <2>5 DEF a, b, c
<1>5. WindowStart(d) \in Int /\ WindowStart(d) + 56 <= d
  BY <1>2, <1>4
<1>6. ASSUME NEW e \in Int, d <= e PROVE WindowStart(d) <= WindowStart(e)
  <2> DEFINE n == MonthOf(e)
  <2>1. /\ n \in Int /\ DayOf(e) \in 0 .. 30 /\ FirstOf(n) \in Int /\ e = FirstOf(n) + DayOf(e)
        /\ n - 12 \in Int /\ FirstOf(n - 12) \in Int /\ WindowStart(e) = FirstOf(n - 12) + DayOf(e)
    BY <1>1
  <2>2. m <= n
    <3>1. FirstOf(m) <= e
      BY <1>2, <1>6
    <3> QED BY <1>2, <3>1, DayInMonth
  <2> HIDE DEF n
  <2>3. CASE m = n
    BY <1>2, <1>6, <2>1, <2>3
  <2>4. CASE m < n
    <3>1. FirstOf(m - 12 + 1) <= FirstOf(n - 12)
      <4>1. m - 12 < n - 12
        BY <1>2, <2>1, <2>4
      <4> QED BY <1>2, <2>1, <4>1, MonthsFollow
    <3>2. FirstOf(m + 1) - FirstOf(m) <= FirstOf(m - 12 + 1) - FirstOf(m - 12) + 1
      BY <1>2, SameMonthLastYear DEF MonthLength
    <3>3. DayOf(d) + 1 <= FirstOf(m + 1) - FirstOf(m)
      BY <1>2, <1>3
    <3> QED BY <1>2, <1>3, <1>4, <2>1, <3>1, <3>2, <3>3
  <2> QED BY <1>2, <2>1, <2>2, <2>3, <2>4
<1> QED BY <1>5, <1>6

(* The earliest and the latest of the days seen. *)
LEMMA FirstAndLast ==
  ASSUME NEW n \in Nat, NEW points \in [1 .. n -> [on : Int, miles : Int]],
         NEW seen, seen \subseteq 1 .. n, seen # {}
  PROVE  /\ \E i \in seen : points[i].on = FirstDay(points, seen)
         /\ \A i \in seen : FirstDay(points, seen) <= points[i].on
         /\ \E i \in seen : points[i].on = LastDay(points, seen)
         /\ \A i \in seen : points[i].on <= LastDay(points, seen)
<1> DEFINE U == 1 .. n
           days == [i \in U |-> points[i].on]
           back == [i \in U |-> -points[i].on]
<1>1. U \subseteq Int /\ IsFiniteSet(seen) /\ seen \subseteq U
  <2>1. IsFiniteSet(U)
    BY FS_Interval
  <2>2. IsFiniteSet(seen)
    BY <2>1, FS_Subset
  <2>3. U \subseteq Int
    OBVIOUS
  <2> QED BY <2>2, <2>3
<1>2. /\ days \in [U -> Int] /\ back \in [U -> Int]
      /\ \A i \in U : points[i].on \in Int /\ days[i] = points[i].on /\ back[i] = -points[i].on
  OBVIOUS
<1>3. PICK a : IsLast(days, seen, a)
  <2> HIDE DEF U, days
  <2> QED BY <1>1, <1>2, OneIsLast DEF U
<1>4. PICK b : IsLast(back, seen, b)
  <2> HIDE DEF U, back
  <2> QED BY <1>1, <1>2, OneIsLast DEF U
<1> HIDE DEF U, days, back
<1>5. a \in seen /\ \A i \in seen : points[a].on <= points[i].on
  <2>1. a \in seen /\ \A i \in seen : i # a => Sooner(days, i, a)
    BY <1>3 DEF IsLast
  <2>2. ASSUME NEW i \in seen, i # a PROVE points[a].on <= points[i].on
    <3>1. days[i] > days[a] \/ days[i] = days[a]
      BY <2>1, <2>2 DEF Sooner
    <3> QED BY <1>1, <1>2, <2>1, <3>1
  <2>3. points[a].on <= points[a].on
    BY <1>1, <1>2, <2>1
  <2> QED BY <2>1, <2>2, <2>3
<1>6. b \in seen /\ \A i \in seen : points[b].on >= points[i].on
  <2>1. b \in seen /\ \A i \in seen : i # b => Sooner(back, i, b)
    BY <1>4 DEF IsLast
  <2>2. ASSUME NEW i \in seen, i # b PROVE points[b].on >= points[i].on
    <3>1. back[i] > back[b] \/ back[i] = back[b]
      BY <2>1, <2>2 DEF Sooner
    <3> QED BY <1>1, <1>2, <2>1, <3>1
  <2>3. points[b].on >= points[b].on
    BY <1>1, <1>2, <2>1
  <2> QED BY <2>1, <2>2, <2>3
<1> DEFINE D == {points[i].on : i \in seen}
<1>7. points[a].on \in D /\ points[b].on \in D
  BY <1>5, <1>6
<1>8. /\ FirstDay(points, seen) = CHOOSE d \in D : \A i \in seen : d <= points[i].on
      /\ LastDay(points, seen) = CHOOSE d \in D : \A i \in seen : d >= points[i].on
  BY DEF FirstDay, LastDay
<1>9. \A d \in D : d \in Int /\ \E i \in seen : points[i].on = d
  BY <1>1, <1>2
<1> HIDE DEF D
<1>10. FirstDay(points, seen) \in D /\ \A i \in seen : FirstDay(points, seen) <= points[i].on
  BY <1>5, <1>7, <1>8
<1>11. LastDay(points, seen) \in D /\ \A i \in seen : LastDay(points, seen) >= points[i].on
  BY <1>6, <1>7, <1>8
<1> QED BY <1>9, <1>10, <1>11

-----------------------------------------------------------------------------
(* What the hint of the projection promises.                                *)

Point == [on : Int, miles : Int]

LoggedOn(points, day) == points \o <<[on |-> day, miles |-> 0]>>

Apart(history, day) ==
  \E i, j \in WindowPoints(history, day) : history[j].on - history[i].on >= MinEstimateSpanDays

LEMMA HistoryIs ==
  ASSUME NEW points \in Seq(Point)
  PROVE  /\ Len(points) \in Nat /\ points \in [1 .. Len(points) -> Point] /\ DOMAIN points = 1 .. Len(points)
         /\ \A i \in DOMAIN points : points[i] \in Point /\ points[i].on \in Int
<1>1. /\ Len(points) \in Nat /\ points \in [1 .. Len(points) -> Point] /\ DOMAIN points = 1 .. Len(points)
  BY LenProperties
<1> QED BY <1>1 DEF Point

(* A history one reading longer. *)
OneMore(history, points, n, day) ==
  /\ DOMAIN history = 1 .. n + 1
  /\ \A i \in 1 .. n : history[i] = points[i]
  /\ history[n + 1].on = day

LEMMA LoggedOnIs ==
  ASSUME NEW points \in Seq(Point), NEW day \in Int, NEW n, n = Len(points)
  PROVE  OneMore(LoggedOn(points, day), points, n, day)
<1> DEFINE last == <<[on |-> day, miles |-> 0]>>
<1>1. last \in Seq(Point) /\ Len(last) = 1 /\ last[1].on = day
  BY DEF Point
<1>2. n \in Nat
  BY LenProperties
<1> HIDE DEF last
<1>3. /\ points \o last \in Seq(Point) /\ Len(points \o last) = n + 1
      /\ \A i \in 1 .. n + 1 : (points \o last)[i] = IF i <= n THEN points[i] ELSE last[i - n]
  <2>1. /\ points \o last \in Seq(Point) /\ Len(points \o last) = Len(points) + Len(last)
        /\ \A i \in 1 .. Len(points) + Len(last) :
             (points \o last)[i] = IF i <= Len(points) THEN points[i] ELSE last[i - Len(points)]
    BY <1>1, ConcatProperties
  <2> QED BY <1>1, <2>1
<1>4. DOMAIN (points \o last) = 1 .. n + 1
  BY <1>3, LenProperties
<1>5. (points \o last)[n + 1] = last[1]
  <2>1. n + 1 \in 1 .. n + 1 /\ ~(n + 1 <= n) /\ (n + 1) - n = 1
    BY <1>2
  <2> QED BY <1>3, <2>1
<1>6. \A i \in 1 .. n : (points \o last)[i] = points[i]
  <2>1. \A i \in 1 .. n : i \in 1 .. n + 1 /\ i <= n
    BY <1>2
  <2> QED BY <1>3, <2>1
<1> QED BY <1>1, <1>4, <1>5, <1>6 DEF LoggedOn, OneMore, last

(* A reading on a day gives a span worth fitting exactly when the window    *)
(* of that day still has a reading that is two weeks old.                   *)
LEMMA EnoughIs ==
  ASSUME NEW points \in Seq(Point), NEW day \in Int
  PROVE  Apart(LoggedOn(points, day), day)
           <=> \E i \in DOMAIN points : WindowStart(day) <= points[i].on
                                          /\ points[i].on + MinEstimateSpanDays <= day
<1> DEFINE n == Len(points)
           h == LoggedOn(points, day)
<1>1. /\ n \in Nat /\ DOMAIN points = 1 .. n
      /\ \A i \in 1 .. n : points[i].on \in Int
  BY HistoryIs
<1>2. /\ DOMAIN h = 1 .. n + 1 /\ h[n + 1].on = day
      /\ \A i \in 1 .. n : h[i] = points[i]
  <2> HIDE DEF n
  <2>1. n = Len(points)
    BY DEF n
  <2>2. OneMore(LoggedOn(points, day), points, n, day)
    BY ONLY <2>1, points \in Seq(Point), day \in Int, LoggedOnIs
  <2> QED BY <2>2 DEF OneMore
<1> HIDE DEF n, h
<1>3. WindowStart(day) \in Int /\ WindowStart(day) <= day
  <2>1. WindowStart(day) \in Int /\ WindowStart(day) + 56 <= day
    BY WindowFollows
  <2> QED BY <2>1
<1>4. WindowPoints(h, day) = {i \in 1 .. n + 1 : WindowStart(day) <= h[i].on /\ h[i].on <= day}
  BY <1>2 DEF WindowPoints
<1>5. ASSUME NEW i \in WindowPoints(h, day), NEW j \in WindowPoints(h, day),
             h[j].on - h[i].on >= MinEstimateSpanDays
      PROVE  \E k \in 1 .. n : WindowStart(day) <= points[k].on
                                 /\ points[k].on + MinEstimateSpanDays <= day
  <2>1. /\ i \in 1 .. n + 1 /\ WindowStart(day) <= h[i].on
        /\ j \in 1 .. n + 1 /\ h[j].on <= day
    BY <1>4
  <2>2. \A k \in 1 .. n + 1 : h[k].on \in Int /\ (k = n + 1 \/ k \in 1 .. n)
    BY <1>1, <1>2
  <2>3. h[i].on + MinEstimateSpanDays <= day
    BY <1>5, <2>1, <2>2 DEF MinEstimateSpanDays
  <2>4. i # n + 1
    BY <1>2, <2>3 DEF MinEstimateSpanDays
  <2>5. i \in 1 .. n /\ h[i] = points[i]
    BY <1>2, <2>1, <2>2, <2>4
  <2> QED BY <2>1, <2>3, <2>5
<1>6. ASSUME NEW k \in 1 .. n, WindowStart(day) <= points[k].on, points[k].on + MinEstimateSpanDays <= day
      PROVE  \E i, j \in WindowPoints(h, day) : h[j].on - h[i].on >= MinEstimateSpanDays
  <2>1. k \in 1 .. n + 1 /\ n + 1 \in 1 .. n + 1 /\ h[k].on = points[k].on /\ points[k].on \in Int
    BY <1>1, <1>2
  <2>2. h[k].on <= day /\ h[n + 1].on - h[k].on >= MinEstimateSpanDays
    BY <1>2, <1>6, <2>1 DEF MinEstimateSpanDays
  <2>3. k \in WindowPoints(h, day)
    BY <1>4, <1>6, <2>1, <2>2
  <2>4. n + 1 \in WindowPoints(h, day)
    BY <1>2, <1>3, <1>4, <2>1
  <2> QED BY <2>2, <2>3, <2>4
<1>7. Apart(h, day) <=> \E i, j \in WindowPoints(h, day) : h[j].on - h[i].on >= MinEstimateSpanDays
  BY DEF Apart
<1> QED BY <1>1, <1>5, <1>6, <1>7 DEF h

(* The places of the window are places of the history. *)
LEMMA SeenIs ==
  ASSUME NEW points \in Seq(Point), NEW today \in Int, NEW seen, seen = WindowPoints(points, today),
         seen # {}
  PROVE  /\ FirstDay(points, seen) \in Int /\ LastDay(points, seen) \in Int
         /\ WindowStart(today) <= FirstDay(points, seen) /\ FirstDay(points, seen) <= today
         /\ \E i \in seen : points[i].on = FirstDay(points, seen)
         /\ \A i \in seen : FirstDay(points, seen) <= points[i].on
         /\ \E i \in seen : points[i].on = LastDay(points, seen)
         /\ \A i \in seen : points[i].on <= LastDay(points, seen)
<1> DEFINE n == Len(points)
<1>1. n \in Nat /\ points \in [1 .. n -> [on : Int, miles : Int]] /\ DOMAIN points = 1 .. n
  BY HistoryIs DEF Point
<1>2. seen \subseteq 1 .. n /\ \A i \in seen : WindowStart(today) <= points[i].on /\ points[i].on <= today
  BY <1>1 DEF WindowPoints
<1> HIDE DEF n
<1>3. \A i \in seen : points[i].on \in Int
  BY <1>1, <1>2
<1>4. /\ \E i \in seen : points[i].on = FirstDay(points, seen)
      /\ \A i \in seen : FirstDay(points, seen) <= points[i].on
      /\ \E i \in seen : points[i].on = LastDay(points, seen)
      /\ \A i \in seen : points[i].on <= LastDay(points, seen)
  BY <1>1, <1>2, FirstAndLast
<1> QED BY <1>2, <1>3, <1>4

(* Too short a history: the day the hint names is the first that helps. *)
LEMMA AgainComesTrue ==
  ASSUME NEW points \in Seq(Point), NEW today \in Int, NEW seen, seen = WindowPoints(points, today),
         seen # {}, NEW next, next = FirstDay(points, seen) + MinEstimateSpanDays
  PROVE  /\ next <= today => Apart(LoggedOn(points, today), today)
         /\ next > today => next \in Int /\ \A day \in today .. next + 30 :
                              Apart(LoggedOn(points, day), day) <=> day >= next
<1> DEFINE first == FirstDay(points, seen)
<1>1. /\ first \in Int /\ WindowStart(today) <= first /\ first <= today
      /\ \A i \in seen : first <= points[i].on
  BY SeenIs
<1>2. PICK f \in seen : points[f].on = first
  BY SeenIs
<1>3. /\ f \in DOMAIN points
      /\ \A i \in DOMAIN points : points[i].on \in Int
      /\ \A i \in DOMAIN points : WindowStart(today) <= points[i].on /\ points[i].on <= today => i \in seen
  BY HistoryIs DEF WindowPoints
<1>4. next \in Int /\ next = first + MinEstimateSpanDays
  BY <1>1 DEF MinEstimateSpanDays
<1> HIDE DEF first
<1>5. CASE next <= today
  BY <1>1, <1>2, <1>3, <1>4, <1>5, EnoughIs
<1>6. ASSUME next > today, NEW day \in today .. next + 30
      PROVE  Apart(LoggedOn(points, day), day) <=> day >= next
  <2>1. day \in Int /\ today <= day /\ day <= first + 44
    BY <1>1, <1>4 DEF MinEstimateSpanDays
  <2>2. /\ WindowStart(today) \in Int /\ WindowStart(day) \in Int
        /\ WindowStart(today) <= WindowStart(day) /\ WindowStart(day) + 56 <= day
    BY <2>1, WindowFollows
  <2>3. Apart(LoggedOn(points, day), day)
          <=> \E i \in DOMAIN points : WindowStart(day) <= points[i].on
                                         /\ points[i].on + MinEstimateSpanDays <= day
    BY <2>1, EnoughIs
  <2>4. ASSUME day >= next PROVE WindowStart(day) <= points[f].on /\ points[f].on + MinEstimateSpanDays <= day
    BY <1>1, <1>2, <1>4, <2>1, <2>2, <2>4
  <2>5. ASSUME NEW i \in DOMAIN points, WindowStart(day) <= points[i].on,
               points[i].on + MinEstimateSpanDays <= day
        PROVE  day >= next
    <3>1. points[i].on \in Int
      BY <1>3
    <3>2. first <= points[i].on
      <4>1. CASE points[i].on <= today
        <5>1. i \in seen
          BY <1>3, <2>2, <2>5, <3>1, <4>1
        <5> QED BY <1>1, <5>1
      <4>2. CASE points[i].on > today
        BY <1>1, <3>1, <4>2
      <4> QED BY <3>1, <4>1, <4>2
    <3> QED BY <1>1, <1>4, <2>1, <2>5, <3>1, <3>2 DEF MinEstimateSpanDays
  <2> QED BY <1>3, <2>3, <2>4, <2>5
<1> QED BY <1>1, <1>4, <1>5, <1>6

(* A span: the first and the last reading are far apart. *)
LEMMA SpanIsApart ==
  ASSUME NEW points \in Seq(Point), NEW today \in Int, NEW seen, seen = WindowPoints(points, today),
         seen # {}, Spans(points, seen)
  PROVE  \E i, j \in seen : points[j].on - points[i].on >= MinEstimateSpanDays
<1>1. LastDay(points, seen) - FirstDay(points, seen) >= MinEstimateSpanDays
  BY DEF Spans
<1>2. PICK i \in seen : points[i].on = FirstDay(points, seen)
  BY SeenIs
<1>3. PICK j \in seen : points[j].on = LastDay(points, seen)
  BY SeenIs
<1> QED BY <1>1, <1>2, <1>3

(* The rate is a fraction of two positive numbers. *)
LEMMA RateIsPositive ==
  ASSUME NEW points \in Seq(Point), NEW today \in Int, WindowPoints(points, today) # {},
         NEW rate \in EstimateMilesPerDay(points, today)
  PROVE  rate.miles > 0 /\ rate.days > 0
<1> DEFINE n == Len(points)
           seen == WindowPoints(points, today)
           xs == [i \in DOMAIN points |-> points[i].on - WindowStart(today)]
           ys == [i \in DOMAIN points |-> points[i].miles]
<1>1. /\ Spans(points, seen) /\ Covariance(xs, ys, seen) > 0
      /\ rate = [miles |-> Covariance(xs, ys, seen), days |-> Covariance(xs, xs, seen)]
  BY DEF EstimateMilesPerDay, None
<1>2. n \in Nat /\ DOMAIN points = 1 .. n /\ (\A i \in DOMAIN points : points[i].on \in Int)
      /\ WindowStart(today) \in Int /\ seen \subseteq 1 .. n
  BY HistoryIs, WindowFollows DEF WindowPoints
<1>3. xs \in [1 .. n -> Int]
  <2> HIDE DEF n
  <2> QED BY <1>2
<1>4. PICK a \in seen, b \in seen : points[b].on - points[a].on >= MinEstimateSpanDays
  <2> HIDE DEF seen
  <2>1. seen = WindowPoints(points, today) /\ seen # {}
    BY DEF seen
  <2> QED BY <1>1, <2>1, SpanIsApart
<1>5. xs[a] # xs[b]
  <2> HIDE DEF n, seen
  <2>1. a \in DOMAIN points /\ b \in DOMAIN points
    BY <1>2
  <2>2. xs[a] = points[a].on - WindowStart(today) /\ xs[b] = points[b].on - WindowStart(today)
    BY <2>1
  <2>3. points[a].on # points[b].on
    BY <1>2, <1>4, <2>1 DEF MinEstimateSpanDays
  <2> QED BY <1>2, <2>1, <2>2, <2>3
<1> HIDE DEF n, seen, xs, ys
<1>6. Covariance(xs, xs, seen) > 0
  BY ONLY <1>2, <1>3, <1>4, <1>5, VarianceIsPositive
<1> QED BY <1>1, <1>6

-----------------------------------------------------------------------------
(* The pages.                                                               *)

PageTyped ==
  /\ page.kind = "snooze" =>
       /\ page.field \in CustomFields /\ page.today \in ReadAt /\ page.latest \in Readings
       /\ page.preset \in {"2w", "1m", "500mi", "custom"}
  /\ page.kind = "warranty" =>
       page.warranty \in Warranties /\ page.today \in ReadAt /\ page.odometer \in Readings
  /\ page.kind = "projection" => page.points \in Histories /\ page.today \in ReadAt
  /\ page.kind = "spend" => page.records \in Ledgers

LEMMA PagesTyped == PageSpec => []PageTyped
<1>1. PageInit => PageTyped
  BY DEF PageInit, Closed, PageTyped
<1>2. PageTyped /\ [PageNext]_page => PageTyped'
  BY DEF PageTyped, PageNext, Closed, OpenProjection, OpenSnooze, OpenSpend, OpenWarranty
<1> QED BY <1>1, <1>2, PTL DEF PageSpec

(* A stored deferral holds until every threshold that was set has passed.   *)
LEMMA ActiveUntilPassed ==
  ASSUME NEW s \in Snooze, NEW day \in Int, NEW later \in Readings
  PROVE  ActiveSnooze(s, day, later) <=>
           ~(/\ \A d \in s.on : day >= d
             /\ \A m \in s.miles : later # None /\ \A l \in later : l >= m)
<1>1. later \subseteq Nat /\ \A m, n \in later : m = n
  BY PagesConstants
<1>2. s.on \subseteq Int /\ s.miles \subseteq Int
  BY DEF Snooze
<1>3. (\E d \in s.on : day < d) <=> ~\A d \in s.on : day >= d
  BY <1>2
<1>4. ASSUME NEW m \in s.miles
      PROVE  (\A l \in later : l < m) <=> ~(later # None /\ \A l \in later : l >= m)
  <2>1. CASE later = {}
    BY <2>1 DEF None
  <2>2. ASSUME NEW l \in later PROVE (\A k \in later : k < m) <=> ~(later # None /\ \A k \in later : k >= m)
    BY <1>1, <1>2, <2>2 DEF None
  <2> QED BY <2>1, <2>2
<1> QED BY <1>3, <1>4 DEF ActiveSnooze

(* An accepted choice defers, on the day and with the reading it was made.  *)
LEMMA DefersNow ==
  ASSUME NEW preset, preset # "clear", NEW on, on \subseteq Int, NEW miles, miles \subseteq Int,
         NEW d \in Int, NEW latest \in Readings, \A l \in latest : l + SnoozeMileStep <= MaxInt,
         NEW s, Resolution(s, preset, on, miles, d, latest)
  PROVE  ActiveSnooze(s, d, latest)
<1>1. latest \subseteq Nat /\ \A m, n \in latest : m = n
  BY PagesConstants
<1>2. CASE s = [on |-> {d + 14}, miles |-> {}]
  BY <1>2 DEF ActiveSnooze
<1>3. CASE s = [on |-> {AddOneMonth(d)}, miles |-> {}]
  BY <1>3, NextMonth DEF ActiveSnooze
<1>4. CASE \E l \in latest : s = [on |-> {}, miles |-> {Wrap(l + SnoozeMileStep)}]
  <2>1. PICK l \in latest : s = [on |-> {}, miles |-> {Wrap(l + SnoozeMileStep)}]
    BY <1>4
  <2>2. Wrap(l + SnoozeMileStep) = l + SnoozeMileStep /\ l \in Nat
    BY <1>1, DueConstants DEF Wrap, SnoozeMileStep
  <2>3. \A k \in latest : k < l + SnoozeMileStep
    BY <1>1, <2>2 DEF SnoozeMileStep
  <2> QED BY <2>1, <2>2, <2>3 DEF ActiveSnooze
<1>5. CASE /\ s = [on |-> on, miles |-> miles] /\ (on # {} \/ miles # {})
           /\ \A e \in on : e > d
           /\ \A m \in miles : latest # {} /\ \A l \in latest : m > l
  <2>1. s.on = on /\ s.miles = miles
    BY <1>5
  <2>2. CASE on # {}
    <3>1. PICK e \in on : e > d /\ e \in Int
      BY <1>5, <2>2
    <3> QED BY <2>1, <3>1 DEF ActiveSnooze
  <2>3. CASE miles # {}
    <3>1. PICK m \in miles : m \in Int /\ \A l \in latest : m > l
      BY <1>5, <2>3
    <3> QED BY <1>1, <2>1, <3>1 DEF ActiveSnooze
  <2> QED BY <1>5, <2>2, <2>3
<1> QED BY <1>2, <1>3, <1>4, <1>5 DEF Resolution

(* Of any choice, on any day and with any reading: an accepted snooze       *)
(* defers, returns when every threshold has passed and not before, and one  *)
(* month is the next month.                                                 *)
THEOREM AcceptedSnoozesDefer == PageSpec => []SnoozeDefers
<1>1. PageTyped => SnoozeDefers
  <2> SUFFICES ASSUME PageTyped, page.kind = "snooze",
                      NEW s \in ResolveSnooze(page.preset, page.field.on, page.field.miles, page.today, page.latest),
                      \A l \in page.latest : l + SnoozeMileStep <= MaxInt
               PROVE  /\ ActiveSnooze(s, page.today, page.latest)
                      /\ page.preset = "1m" => \A d \in s.on : MonthOf(d) = MonthOf(page.today) + 1
                      /\ \A day \in page.today .. page.today + 40, later \in Readings :
                           ActiveSnooze(s, day, later) <=>
                             ~(/\ \A d \in s.on : day >= d
                               /\ \A m \in s.miles : later # None /\ \A l \in later : l >= m)
    BY DEF SnoozeDefers
  <2>1. /\ page.field.on \subseteq Int /\ page.field.miles \subseteq Int
        /\ page.today \in Int /\ page.latest \in Readings /\ page.latest \subseteq Nat
        /\ page.preset \in {"2w", "1m", "500mi", "custom"}
    BY PagesConstants DEF PageTyped
  <2>2. Resolution(s, page.preset, page.field.on, page.field.miles, page.today, page.latest)
    BY Resolved
  <2>3. s \in Snooze
    BY <2>1, SnoozeTyped
  <2>4. ActiveSnooze(s, page.today, page.latest)
    BY <2>1, <2>2, DefersNow
  <2>5. ASSUME page.preset = "1m", NEW d \in s.on PROVE MonthOf(d) = MonthOf(page.today) + 1
    <3>1. s = [on |-> {AddOneMonth(page.today)}, miles |-> {}]
      BY <2>2, <2>5 DEF Resolution
    <3>2. d = AddOneMonth(page.today)
      BY <2>5, <3>1
    <3> QED BY <2>1, <3>2, NextMonth
  <2>6. ASSUME NEW day \in page.today .. page.today + 40, NEW later \in Readings
        PROVE  ActiveSnooze(s, day, later) <=>
                 ~(/\ \A d \in s.on : day >= d
                   /\ \A m \in s.miles : later # None /\ \A l \in later : l >= m)
    <3>1. day \in Int
      BY <2>1
    <3> QED BY <2>3, <3>1, ActiveUntilPassed
  <2> QED BY <2>4, <2>5, <2>6
<1> QED BY <1>1, PagesTyped, PTL

(* What the projection's hint says of the next reading comes true, for any  *)
(* history and any day: the day it names is the first that helps, and a     *)
(* history that spans the two weeks has a rate or does not increase.        *)
THEOREM HintsComeTrue == PageSpec => []HintComesTrue
<1>1. PageTyped => HintComesTrue
  <2> DEFINE points == page.points
             today == page.today
             seen == WindowPoints(points, today)
             next == SpanFrom(points, seen) + MinEstimateSpanDays
             hint == EstimateHint(points, today)
             rates == EstimateMilesPerDay(points, today)
             Enough(day) == Apart(LoggedOn(points, day), day)
  <2> SUFFICES ASSUME PageTyped, page.kind = "projection"
               PROVE  /\ hint.kind = "again" =>
                           \A d \in hint.from :
                             IF d = today THEN Enough(today)
                             ELSE \A day \in today .. d + 30 : Enough(day) <=> day >= d
                      /\ hint.kind = "noHistory" => ~Enough(today)
                      /\ hint.kind = "notIncreasing" => Apart(points, today) /\ rates = None
                      /\ hint.kind = "none" => \E rate \in rates : rate.miles > 0 /\ rate.days > 0
    BY DEF HintComesTrue, Apart, LoggedOn
  <2>1. points \in Seq(Point) /\ today \in Int
    BY PagesConstants DEF PageTyped, Point
  <2>2. hint = IF seen = {} THEN Hint("noHistory", None)
               ELSE IF ~Spans(points, seen) THEN Hint("again", IF next <= today THEN {today} ELSE {next})
               ELSE IF rates = None THEN Hint("notIncreasing", None)
               ELSE Hint("none", None)
    BY DEF EstimateHint
  <2> HIDE DEF points, today, hint, rates
  <2>3. CASE seen = {}
    <3>1. hint.kind = "noHistory"
      BY <2>2, <2>3 DEF Hint
    <3>2. ~Enough(today)
      <4>1. \A i \in DOMAIN points : points[i].on \in Int
        BY <2>1, HistoryIs
      <4>2. \A i \in DOMAIN points : ~(WindowStart(today) <= points[i].on /\ points[i].on <= today)
        BY <2>3 DEF WindowPoints
      <4>3. \A i \in DOMAIN points : ~(WindowStart(today) <= points[i].on
                                            /\ points[i].on + MinEstimateSpanDays <= today)
        BY <2>1, <4>1, <4>2 DEF MinEstimateSpanDays
      <4> QED BY <2>1, <4>3, EnoughIs
    <3> HIDE DEF Enough
    <3> QED BY <3>1, <3>2
  <2>4. CASE seen # {} /\ ~Spans(points, seen)
    <3>1. hint.kind = "again" /\ hint.from = IF next <= today THEN {today} ELSE {next}
      BY <2>2, <2>4 DEF Hint
    <3>2. /\ next <= today => Enough(today)
          /\ next > today => next \in Int /\ \A day \in today .. next + 30 : Enough(day) <=> day >= next
      <4> HIDE DEF seen, next
      <4>1. seen = WindowPoints(points, today) /\ next = FirstDay(points, seen) + MinEstimateSpanDays
        BY DEF seen, next, SpanFrom
      <4> QED BY <2>1, <2>4, <4>1, AgainComesTrue
    <3>3. next \in Int
      <4>1. FirstDay(points, seen) \in Int
        <5> HIDE DEF seen
        <5>1. seen = WindowPoints(points, today)
          BY DEF seen
        <5> QED BY <2>1, <2>4, <5>1, SeenIs
      <4> HIDE DEF seen
      <4> QED BY <4>1 DEF SpanFrom, MinEstimateSpanDays
    <3> HIDE DEF Enough, next
    <3>4. CASE next <= today
      BY <3>1, <3>2, <3>4
    <3>5. CASE next > today
      <4>1. hint.from = {next} /\ next # today
        BY <2>1, <3>1, <3>3, <3>5
      <4> QED BY <3>1, <3>2, <3>5, <4>1
    <3> QED BY <2>1, <3>3, <3>4, <3>5
  <2>5. CASE seen # {} /\ Spans(points, seen)
    <3>1. \/ hint.kind = "notIncreasing" /\ rates = None
          \/ hint.kind = "none" /\ rates # None
      BY <2>2, <2>5 DEF Hint
    <3>2. Apart(points, today)
      <4> HIDE DEF seen
      <4>1. seen = WindowPoints(points, today)
        BY DEF seen
      <4>2. \E i, j \in seen : points[j].on - points[i].on >= MinEstimateSpanDays
        BY <2>1, <2>5, <4>1, SpanIsApart
      <4> QED BY <4>1, <4>2 DEF Apart
    <3>3. \A rate \in rates : rate.miles > 0 /\ rate.days > 0
      BY <2>1, <2>5, RateIsPositive DEF rates
    <3>4. rates # None => \E rate \in rates : rate.miles > 0 /\ rate.days > 0
      BY <3>3 DEF None
    <3> HIDE DEF Enough
    <3> QED BY <3>1, <3>2, <3>4
  <2> QED BY <2>3, <2>4, <2>5
<1> QED BY <1>1, PagesTyped, PTL

(* The page's summary and its database-free form are the same, for any      *)
(* ledger: each is the only one its sort allows, and its totals are the     *)
(* true sums, capped once.                                                  *)
THEOREM SpendingIsSummedOnce == PageSpec => []SpendAgrees
<1>1. PageTyped => SpendAgrees
  <2> DEFINE recs == page.records
             today == page.today
             T == PricedTypes(recs)
             sql == VehicleSpend(recs, today)
  <2> SUFFICES ASSUME PageTyped, page.kind = "spend"
               PROVE  /\ AggregateSpend(recs, today) = sql
                      /\ Cardinality(sql) = 1
                      /\ \A spend \in sql :
                           /\ spend.priced = Cardinality(Priced(recs))
                           /\ spend.lifetime = LeastSum(Costs(recs, Priced(recs)))
                           /\ spend.yearToDate = LeastSum(Costs(recs, ThisYear(recs, Priced(recs), today)))
                           /\ 0 <= spend.yearToDate /\ spend.yearToDate <= spend.lifetime
    BY DEF SpendAgrees
  <2>1. recs \in Ledgers
    BY DEF PageTyped
  <2> HIDE DEF recs, today
  <2>2. PICK order \in SetToSeqs(T) : SqlSorted(recs) = {order}
    BY <2>1, SortsAgree
  <2>3. Sorted(recs) = {order}
    BY <2>1, <2>2, SortsAgree
  <2> DEFINE spend == Summary(LinesOf(order, recs, today, LeastSum))
  <2>4. sql = {spend}
    BY <2>2 DEF VehicleSpend
  <2>5. AggregateSpend(recs, today) = {Summary(LinesOf(order, recs, today, CappedSum))}
    BY <2>3 DEF AggregateSpend
  <2>6. LinesOf(order, recs, today, CappedSum) = LinesOf(order, recs, today, LeastSum)
    BY <2>1, LinesAgree
  <2>7. AggregateSpend(recs, today) = {spend}
    BY <2>5, <2>6
  <2>8. /\ spend.priced = Cardinality(Priced(recs))
        /\ spend.lifetime = LeastSum(Costs(recs, Priced(recs)))
        /\ spend.yearToDate = LeastSum(Costs(recs, ThisYear(recs, Priced(recs), today)))
    BY <2>1, SummaryIs
  <2>9. 0 <= spend.yearToDate /\ spend.yearToDate <= spend.lifetime
    <3>1. ThisYear(recs, Priced(recs), today) \subseteq Priced(recs)
      BY DEF ThisYear
    <3> HIDE DEF spend
    <3> QED BY <2>1, <2>8, <3>1, YearIsPart
  <2>10. Cardinality(sql) = 1
    <3> HIDE DEF spend, sql
    <3> QED BY <2>4, FS_Singleton
  <2> HIDE DEF spend, sql
  <2> QED BY <2>4, <2>7, <2>8, <2>9, <2>10
<1> QED BY <1>1, PagesTyped, PTL

(* A warranty that a form accepts covers the day of the work as far as the  *)
(* mileage allows, and neither time nor driving revives one that has ended. *)
THEOREM EndedWarrantiesStayEnded == PageSpec => []WarrantyEndsForGood
<1>1. PageTyped => WarrantyEndsForGood
  <2> DEFINE w == page.warranty
             odometer == page.odometer
  <2> SUFFICES ASSUME PageTyped, page.kind = "warranty"
               PROVE  /\ ValidWarranty(w, page.today) /\ HasWarranty(w) =>
                           (WarrantyActive(w, page.today, odometer)
                              <=> \A m \in w.miles : \A o \in odometer : o <= m)
                      /\ \A day \in ReadAt, later \in Readings :
                           /\ day >= page.today
                           /\ odometer # None => later # None /\ \A o \in odometer, l \in later : l >= o
                           /\ WarrantyActive(w, day, later)
                           => WarrantyActive(w, page.today, odometer)
    BY DEF WarrantyEndsForGood
  <2>1. /\ w.on \subseteq Int /\ w.miles \subseteq Int /\ page.today \in Int /\ odometer \subseteq Nat
    BY PagesConstants DEF PageTyped
  <2> HIDE DEF w, odometer
  <2>2. ValidWarranty(w, page.today) /\ HasWarranty(w) =>
          (WarrantyActive(w, page.today, odometer) <=> \A m \in w.miles : \A o \in odometer : o <= m)
    BY <2>1 DEF ValidWarranty, WarrantyActive
  <2>3. ASSUME NEW day \in ReadAt, NEW later \in Readings, day >= page.today,
               odometer # None => later # None /\ \A o \in odometer, l \in later : l >= o,
               WarrantyActive(w, day, later)
        PROVE  WarrantyActive(w, page.today, odometer)
    <3>1. day \in Int /\ later \subseteq Nat
      BY PagesConstants
    <3>2. HasWarranty(w) /\ \A d \in w.on : page.today <= d
      BY <2>1, <2>3, <3>1 DEF WarrantyActive
    <3>3. ASSUME NEW m \in w.miles, NEW o \in odometer PROVE o <= m
      <4>1. PICK l \in later : l >= o
        BY <2>3 DEF None
      <4>2. l <= m
        BY <2>3, <4>1 DEF WarrantyActive
      <4> QED BY <2>1, <3>1, <4>1, <4>2
    <3> QED BY <3>2, <3>3 DEF WarrantyActive
  <2> QED BY <2>2, <2>3
<1> QED BY <1>1, PagesTyped, PTL

=============================================================================

-------------------------- MODULE RemindersProofs --------------------------
(***************************************************************************)
(* Proofs about Reminders, for any records, reminders, dates and readings: *)
(* a snooze ends when, and only when, its service's newest record is       *)
(* another one because it was logged or edited; overdue means that a whole *)
(* interval has gone by, and stays so overnight.                           *)
(***************************************************************************)
EXTENDS Reminders, PagesProofs

USE RemindersConstants

-----------------------------------------------------------------------------
(* The order of the query and the newest record.                            *)

(* The record that ListReminders takes as the baseline of a service is the  *)
(* newest of that service: by date, then by its creation, then by its id.   *)
LEMMA BaselineIsNewest ==
  ASSUME NEW recs \in [RecordIds -> RecordRow \cup {Nothing}], NEW id \in RecordIds, recs[id] # Nothing,
         NEW type
  PROVE  id \in Latest(recs, type) <=> recs[id].type = type /\ Newest(recs, id)
<1>1. /\ id \in Live(recs)
      /\ \A i \in Live(recs) : i \in Int /\ recs[i].on \in Int /\ recs[i].created \in Int
  <2>1. id \in Live(recs)
    BY DEF Live
  <2>2. \A i \in Live(recs) : i \in RecordIds /\ recs[i] \in RecordRow
    BY DEF Live
  <2>3. \A i \in Live(recs) : recs[i].on \in RecordDays /\ recs[i].created \in Times
    BY <2>2 DEF RecordRow
  <2>4. RecordIds \subseteq Int /\ RecordDays \subseteq Int /\ Times \subseteq Int
    OBVIOUS
  <2> QED BY <2>1, <2>2, <2>3, <2>4
<1>2. ASSUME NEW j \in Live(recs), j # id
      PROVE  Before(recs, id, j) <=>
               \/ recs[j].on < recs[id].on
               \/ /\ recs[j].on = recs[id].on
                  /\ recs[j].created <= recs[id].created /\ (recs[j].created = recs[id].created => j < id)
  BY <1>1, <1>2 DEF Before
<1> QED BY <1>1, <1>2 DEF Latest, Matching, Newest

-----------------------------------------------------------------------------
(* The rows keep their columns. *)
RowsShaped ==
  /\ records \in [RecordIds -> RecordRow \cup {Nothing}]
  /\ DOMAIN reminders = ReminderIds
  /\ \A i \in Live(reminders) : {"type", "snooze", "months", "miles", "enabled"} \subseteq DOMAIN reminders[i]

(* Clearing snoozes touches the snooze of that service's reminders only. *)
LEMMA UnsnoozedRows ==
  ASSUME RowsShaped, NEW type
  PROVE  /\ DOMAIN Unsnoozed(type) = ReminderIds
         /\ \A i \in ReminderIds :
              /\ reminders[i] = Nothing => Unsnoozed(type)[i] = Nothing
              /\ reminders[i] # Nothing =>
                   /\ DOMAIN Unsnoozed(type)[i] = DOMAIN reminders[i]
                   /\ Unsnoozed(type)[i].snooze =
                        IF reminders[i].type = type THEN NotSnoozed ELSE reminders[i].snooze
  BY DEF Unsnoozed, RowsShaped, Live

LEMMA ShapeStep == RowsShaped /\ [Next]_vars => RowsShaped'
<1> SUFFICES ASSUME RowsShaped, [Next]_vars PROVE RowsShaped'
  OBVIOUS
<1> DEFINE Columns == {"type", "snooze", "months", "miles", "enabled"}
<1>1. ASSUME UNCHANGED <<records, reminders>> PROVE RowsShaped'
  BY <1>1 DEF RowsShaped, Live
<1>2. ASSUME records' \in [RecordIds -> RecordRow \cup {Nothing}], NEW type,
             reminders' = reminders \/ reminders' = Unsnoozed(type)
      PROVE  RowsShaped'
  BY <1>2, UnsnoozedRows DEF RowsShaped, Live
<1>3. ASSUME NEW id \in RecordIds, NEW type \in Types, NEW on \in RecordDays, NEW m \in Mileages,
             NEW t \in Times, CreateRecord(id, type, on, m, t)
      PROVE  RowsShaped'
  <2>1. records' \in [RecordIds -> RecordRow \cup {Nothing}]
    BY <1>3 DEF CreateRecord, RowsShaped, RecordRow
  <2>2. reminders' = reminders \/ reminders' = Unsnoozed(records'[id].type)
    BY <1>3 DEF CreateRecord, ClearOnCreate
  <2> QED BY <1>2, <2>1, <2>2
<1>4. ASSUME NEW id \in RecordIds, NEW type \in Types, NEW on \in RecordDays, NEW m \in Mileages,
             EditRecord(id, type, on, m)
      PROVE  RowsShaped'
  <2>1. records' \in [RecordIds -> RecordRow \cup {Nothing}]
    BY <1>4 DEF EditRecord, RowsShaped, RecordRow
  <2>2. reminders' = reminders \/ reminders' = Unsnoozed(records'[id].type)
    BY <1>4 DEF EditRecord, ClearOnEdit
  <2> QED BY <1>2, <2>1, <2>2
<1>5. ASSUME NEW id \in RecordIds, DeleteRecord(id) PROVE RowsShaped'
  BY <1>5 DEF DeleteRecord, RowsShaped, Live
<1>6. ASSUME NEW type \in Reminded, NEW interval \in Intervals, NEW enabled \in BOOLEAN,
             SaveReminder(type, interval, enabled)
      PROVE  RowsShaped'
  <2>1. CASE \E i \in Live(reminders) :
               reminders' = [reminders EXCEPT ![i].months = interval.months, ![i].miles = interval.miles,
                                              ![i].enabled = enabled]
    <3>1. PICK i \in Live(reminders) :
            reminders' = [reminders EXCEPT ![i].months = interval.months, ![i].miles = interval.miles,
                                           ![i].enabled = enabled]
      BY <2>1
    <3>2. /\ i \in ReminderIds
          /\ reminders'[i] = [reminders[i] EXCEPT !.months = interval.months, !.miles = interval.miles,
                                                  !.enabled = enabled]
      BY <3>1 DEF RowsShaped, Live
    <3>3. DOMAIN reminders'[i] = DOMAIN reminders[i]
      BY <3>2
    <3>4. \A j \in ReminderIds \ {i} : reminders'[j] = reminders[j]
      BY <3>1 DEF RowsShaped
    <3>5. DOMAIN reminders' = ReminderIds
      BY <3>1 DEF RowsShaped
    <3>6. records' = records
      BY <1>6 DEF SaveReminder
    <3> QED BY <3>1, <3>3, <3>4, <3>5, <3>6 DEF RowsShaped, Live
  <2>2. CASE \E i \in FreshIds : reminders' = [reminders EXCEPT ![i] = NewRow(type, interval, enabled)]
    <3>1. Columns \subseteq DOMAIN NewRow(type, interval, enabled)
      BY DEF NewRow
    <3>2. PICK i \in FreshIds : reminders' = [reminders EXCEPT ![i] = NewRow(type, interval, enabled)]
      BY <2>2
    <3>3. i \in ReminderIds /\ reminders'[i] = NewRow(type, interval, enabled)
      BY <3>2 DEF FreshIds, RowsShaped
    <3>4. \A j \in ReminderIds \ {i} : reminders'[j] = reminders[j]
      BY <3>2 DEF RowsShaped
    <3>5. DOMAIN reminders' = ReminderIds
      BY <3>2 DEF RowsShaped
    <3>6. records' = records
      BY <1>6 DEF SaveReminder
    <3> HIDE DEF Columns
    <3>7. \A j \in Live(reminders') : Columns \subseteq DOMAIN reminders'[j]
      BY <3>1, <3>3, <3>4, <3>5 DEF RowsShaped, Live, Columns
    <3> QED BY <3>5, <3>6, <3>7 DEF RowsShaped, Columns
  <2> QED BY <1>6, <2>1, <2>2 DEF SaveReminder
<1>7. ASSUME NEW i \in ReminderIds, DeleteReminder(i) PROVE RowsShaped'
  BY <1>7 DEF DeleteReminder, RowsShaped, Live
<1>8. CASE SetSnooze
  BY <1>8 DEF SetSnooze, RowsShaped, Live
<1> QED
  BY <1>1, <1>3, <1>4, <1>5, <1>6, <1>7, <1>8 DEF Next, NextDay, Read, ChooseSnooze, vars

-----------------------------------------------------------------------------
(* A step that leaves the rows of the records alone promotes none.          *)
LEMMA NoPromotion ==
  ASSUME \A id \in RecordIds : records'[id] \in {records[id], Nothing}
  PROVE  ~\E id \in RecordIds : Promoted(id)
  BY DEF Promoted

(* The property, of one step. *)
EndsWithPromotion ==
  \A i \in ReminderIds :
    reminders[i] # Nothing /\ reminders'[i] # Nothing /\ form' = form /\ reminders[i].snooze # NotSnoozed =>
      (reminders'[i].snooze = NotSnoozed
         <=> \E id \in RecordIds : Promoted(id) /\ records'[id].type = reminders[i].type)

(* A step that promotes one record, or none, and clears the snooze of its   *)
(* service, or none, has the property.                                      *)
LEMMA ClearedIfPromoted ==
  ASSUME RowsShaped, NEW id \in RecordIds,
         \A j \in RecordIds \ {id} : records'[j] = records[j],
         reminders' = IF Promoted(id) THEN Unsnoozed(records'[id].type) ELSE reminders
  PROVE  EndsWithPromotion
<1>1. \A j \in RecordIds \ {id} : ~Promoted(j)
  BY DEF Promoted
<1>2. SUFFICES ASSUME NEW i \in ReminderIds, reminders[i] # Nothing, reminders[i].snooze # NotSnoozed
               PROVE  reminders'[i].snooze = NotSnoozed
                        <=> \E j \in RecordIds : Promoted(j) /\ records'[j].type = reminders[i].type
  BY DEF EndsWithPromotion
<1>3. (\E j \in RecordIds : Promoted(j) /\ records'[j].type = reminders[i].type)
        <=> Promoted(id) /\ records'[id].type = reminders[i].type
  BY <1>1
<1>4. CASE Promoted(id)
  <2>1. reminders' = Unsnoozed(records'[id].type)
    BY <1>4
  <2>2. reminders'[i].snooze =
          IF reminders[i].type = records'[id].type THEN NotSnoozed ELSE reminders[i].snooze
    BY <1>2, <2>1, UnsnoozedRows
  <2> QED BY <1>2, <1>3, <1>4, <2>2
<1>5. CASE ~Promoted(id)
  BY <1>2, <1>3, <1>5
<1> QED BY <1>4, <1>5

LEMMA PromotionStep == RowsShaped /\ RowsShaped' /\ [Next]_vars => EndsWithPromotion
<1> SUFFICES ASSUME RowsShaped, RowsShaped', [Next]_vars PROVE EndsWithPromotion
  OBVIOUS
<1>1. ASSUME UNCHANGED <<records, reminders>> PROVE EndsWithPromotion
  BY <1>1, NoPromotion DEF EndsWithPromotion
<1>2. ASSUME NEW id \in RecordIds, NEW type \in Types, NEW on \in RecordDays, NEW m \in Mileages,
             NEW t \in Times, CreateRecord(id, type, on, m, t)
      PROVE  EndsWithPromotion
  <2>1. /\ records[id] = Nothing /\ records'[id] # Nothing
        /\ \A j \in RecordIds \ {id} : records'[j] = records[j]
    BY <1>2 DEF CreateRecord, RowsShaped
  <2>2. Promoted(id) <=> id \in Latest(records', records'[id].type)
    BY <2>1, BaselineIsNewest DEF Promoted, RowsShaped
  <2>3. reminders' = IF Promoted(id) THEN Unsnoozed(records'[id].type) ELSE reminders
    BY <1>2, <2>2 DEF CreateRecord, ClearOnCreate
  <2> QED BY <2>1, <2>3, ClearedIfPromoted
<1>3. ASSUME NEW id \in RecordIds, NEW type \in Types, NEW on \in RecordDays, NEW m \in Mileages,
             EditRecord(id, type, on, m)
      PROVE  EndsWithPromotion
  <2>1. /\ records[id] # Nothing /\ records'[id] # Nothing
        /\ \A j \in RecordIds \ {id} : records'[j] = records[j]
    <3>1. /\ records[id] # Nothing /\ records[id] \in RecordRow
          /\ records' = [records EXCEPT ![id].type = type, ![id].on = on, ![id].miles = m]
      BY <1>3 DEF EditRecord, RowsShaped
    <3>2. records'[id] = [records[id] EXCEPT !.type = type, !.on = on, !.miles = m]
      BY <3>1 DEF RowsShaped
    <3>3. records'[id] \in RecordRow
      <4>1. records'[id] = [type |-> type, on |-> on, miles |-> m, created |-> records[id].created]
        BY <3>1, <3>2 DEF RecordRow
      <4>2. records[id].created \in Times
        BY <3>1 DEF RecordRow
      <4> QED BY <4>1, <4>2 DEF RecordRow
    <3>4. records'[id] # Nothing
      BY <3>3 DEF RecordRow
    <3>5. \A j \in RecordIds \ {id} : records'[j] = records[j]
      BY <3>1 DEF RowsShaped
    <3> QED BY <3>1, <3>4, <3>5
  <2>2. id \in Latest(records', records'[id].type) <=> Newest(records', id)
    BY <2>1, BaselineIsNewest DEF RowsShaped
  <2>3. id \in Latest(records, records'[id].type) <=>
          records[id].type = records'[id].type /\ Newest(records, id)
    BY <2>1, BaselineIsNewest DEF RowsShaped
  <2>4. Promoted(id) <=> id \in Latest(records', records'[id].type) \ Latest(records, records'[id].type)
    <3>1. CASE records'[id] = records[id]
      <4>1. \A j \in RecordIds : records'[j] = records[j]
        BY <2>1, <3>1
      <4>2. Live(records') = Live(records)
        BY <4>1 DEF Live, RowsShaped
      <4>3. Newest(records', id) <=> Newest(records, id)
        BY <4>1, <4>2 DEF Newest, Live, RowsShaped
      <4> QED BY <2>2, <2>3, <3>1, <4>3 DEF Promoted
    <3>2. CASE records'[id] # records[id]
      BY <2>1, <2>2, <2>3, <3>2 DEF Promoted
    <3> QED BY <3>1, <3>2
  <2>5. reminders' = IF Promoted(id) THEN Unsnoozed(records'[id].type) ELSE reminders
    BY <1>3, <2>4 DEF EditRecord, ClearOnEdit
  <2> QED BY <2>1, <2>5, ClearedIfPromoted
<1>4. ASSUME NEW id \in RecordIds, DeleteRecord(id) PROVE EndsWithPromotion
  <2>1. \A j \in RecordIds : records'[j] \in {records[j], Nothing}
    BY <1>4 DEF DeleteRecord, RowsShaped
  <2> QED BY <1>4, <2>1, NoPromotion DEF DeleteRecord, EndsWithPromotion
<1>5. ASSUME NEW type \in Reminded, NEW interval \in Intervals, NEW enabled \in BOOLEAN,
             SaveReminder(type, interval, enabled)
      PROVE  EndsWithPromotion
  <2>1. records' = records
    BY <1>5 DEF SaveReminder
  <2>2. CASE \E i \in Live(reminders) :
               reminders' = [reminders EXCEPT ![i].months = interval.months, ![i].miles = interval.miles,
                                              ![i].enabled = enabled]
    <3>1. PICK i \in Live(reminders) :
            reminders' = [reminders EXCEPT ![i].months = interval.months, ![i].miles = interval.miles,
                                           ![i].enabled = enabled]
      BY <2>2
    <3>2. reminders'[i] = [reminders[i] EXCEPT !.months = interval.months, !.miles = interval.miles,
                                               !.enabled = enabled]
      BY <3>1 DEF RowsShaped, Live
    <3>3. reminders'[i].snooze = reminders[i].snooze
      BY <3>2 DEF RowsShaped
    <3>4. \A j \in ReminderIds \ {i} : reminders'[j] = reminders[j]
      BY <3>1 DEF RowsShaped
    <3> QED BY <2>1, <3>3, <3>4, NoPromotion DEF EndsWithPromotion
  <2>3. CASE \E i \in FreshIds : reminders' = [reminders EXCEPT ![i] = NewRow(type, interval, enabled)]
    <3>1. PICK i \in FreshIds : reminders' = [reminders EXCEPT ![i] = NewRow(type, interval, enabled)]
      BY <2>3
    <3>2. reminders[i] = Nothing /\ \A j \in ReminderIds \ {i} : reminders'[j] = reminders[j]
      BY <3>1 DEF RowsShaped, FreshIds
    <3> QED BY <2>1, <3>2, NoPromotion DEF EndsWithPromotion
  <2> QED BY <1>5, <2>2, <2>3 DEF SaveReminder
<1>6. ASSUME NEW i \in ReminderIds, DeleteReminder(i) PROVE EndsWithPromotion
  <2>1. \A j \in ReminderIds : reminders'[j] \in {reminders[j], Nothing}
    BY <1>6 DEF DeleteReminder, RowsShaped
  <2> QED BY <1>6, <2>1, NoPromotion DEF DeleteReminder, EndsWithPromotion
<1>7. CASE SetSnooze
  BY <1>7 DEF SetSnooze, EndsWithPromotion
<1> QED
  BY <1>1, <1>2, <1>3, <1>4, <1>5, <1>6, <1>7 DEF Next, NextDay, Read, ChooseSnooze, vars

LEMMA ShapeInvariant == Spec => []RowsShaped
<1>1. Init => RowsShaped
  BY DEF Init, RowsShaped, Live
<1> QED BY <1>1, ShapeStep, PTL DEF Spec

(* A snooze is not lost and does not linger: apart from the visitor's own   *)
(* choice it ends with the step that logs or edits a record into the newest *)
(* of its service, and with no other (clearReminderSnoozeSQL,               *)
(* clearReminderSnoozeOnEditSQL).                                           *)
THEOREM SnoozesAreServed == Spec => SnoozeEndsWithPromotion
<1>1. RowsShaped /\ RowsShaped' /\ [Next]_vars => [EndsWithPromotion]_vars
  BY PromotionStep
<1> QED BY <1>1, ShapeInvariant, PTL DEF Spec, SnoozeEndsWithPromotion, EndsWithPromotion

-----------------------------------------------------------------------------
(* Dates and months gone by.                                                *)

(* AddDate and calendar months: a date so many months on is reached when,   *)
(* and at most two days after, that many whole months have gone by.         *)
LEMMA WholeMonths ==
  ASSUME NEW from \in Int, NEW t \in Int, NEW n \in Int
  PROVE  /\ AddMonths(from, n) \in Int /\ MonthsBetween(from, t) \in Int
         /\ AddMonths(from, n) <= t => MonthsBetween(from, t) >= n
         /\ MonthsBetween(from, t - 2) >= n => AddMonths(from, n) <= t
<1> DEFINE M == MonthOf(from)
<1>1. M \in Int /\ DayOf(from) \in 0 .. 30 /\ M + n \in Int /\ M + n + 1 \in Int
  BY DayInMonth
<1>2. AddMonths(from, n) = FirstOf(M + n) + DayOf(from)
  BY DEF AddMonths
<1>3. /\ FirstOf(M + n) \in Int /\ FirstOf(M + n + 1) \in Int
      /\ FirstOf(M + n + 1) - FirstOf(M + n) \in 28 .. 31
  BY <1>1, MonthsFollow
<1> HIDE DEF M
<1>4. ASSUME NEW s \in Int
      PROVE  /\ MonthOf(s) \in Int /\ DayOf(s) \in 0 .. 30 /\ s = FirstOf(MonthOf(s)) + DayOf(s)
             /\ FirstOf(MonthOf(s)) \in Int
             /\ FirstOf(M + n) <= s <=> M + n <= MonthOf(s)
             /\ FirstOf(M + n + 1) <= s <=> M + n + 1 <= MonthOf(s)
  BY <1>1, DayInMonth
<1>5. \A s : MonthsBetween(from, s) = MonthOf(s) - M - (IF DayOf(s) < DayOf(from) THEN 1 ELSE 0)
  BY DEF MonthsBetween, M
<1>6. MonthsBetween(from, t) \in Int
  BY <1>1, <1>4, <1>5
<1>7. ASSUME AddMonths(from, n) <= t PROVE MonthsBetween(from, t) >= n
  <2>1. M + n <= MonthOf(t)
    BY <1>1, <1>2, <1>3, <1>4, <1>7
  <2>2. CASE MonthOf(t) = M + n
    <3>1. t = FirstOf(M + n) + DayOf(t) /\ DayOf(t) \in 0 .. 30
      BY <1>4, <2>2
    <3>2. ~(DayOf(t) < DayOf(from))
      BY <1>1, <1>2, <1>3, <1>7, <3>1
    <3>3. MonthsBetween(from, t) = MonthOf(t) - M - 0
      BY <1>5, <3>2
    <3> QED BY <1>1, <2>2, <3>3
  <2>3. CASE MonthOf(t) > M + n
    BY <1>1, <1>4, <1>5, <2>3
  <2> QED BY <1>1, <1>4, <2>1, <2>2, <2>3
<1>8. ASSUME MonthsBetween(from, t - 2) >= n PROVE AddMonths(from, n) <= t
  <2> DEFINE s == t - 2
  <2>1. s \in Int /\ t = s + 2
    OBVIOUS
  <2> HIDE DEF s
  <2>2. MonthOf(s) - M - (IF DayOf(s) < DayOf(from) THEN 1 ELSE 0) >= n
    BY <1>5, <1>8 DEF s
  <2>3. CASE MonthOf(s) = M + n
    <3>1. s = FirstOf(M + n) + DayOf(s) /\ DayOf(s) \in 0 .. 30
      BY <1>4, <2>1, <2>3
    <3>2. ~(DayOf(s) < DayOf(from))
      BY <1>1, <2>2, <2>3
    <3> QED BY <1>1, <1>2, <1>3, <2>1, <3>1, <3>2
  <2>4. CASE MonthOf(s) > M + n
    <3>1. FirstOf(M + n + 1) <= s
      BY <1>1, <1>4, <2>1, <2>4
    <3> QED BY <1>1, <1>2, <1>3, <2>1, <3>1
  <2>5. CASE MonthOf(s) < M + n
    BY <1>1, <1>4, <2>1, <2>2, <2>5
  <2>6. MonthOf(s) \in Int
    BY <2>1, DayInMonth
  <2> QED BY <1>1, <2>3, <2>4, <2>5, <2>6
<1> QED BY <1>1, <1>2, <1>3, <1>6, <1>7, <1>8

(* The older of two dates is the more months ago. *)
LEMMA EarlierIsLonger ==
  ASSUME NEW from \in Int, NEW later \in Int, from <= later, NEW t \in Int
  PROVE  MonthsBetween(from, t) >= MonthsBetween(later, t)
<1>1. /\ MonthOf(from) \in Int /\ DayOf(from) \in 0 .. 30 /\ from = FirstOf(MonthOf(from)) + DayOf(from)
      /\ FirstOf(MonthOf(from)) \in Int
  BY DayInMonth
<1>2. /\ MonthOf(later) \in Int /\ DayOf(later) \in 0 .. 30
      /\ later = FirstOf(MonthOf(later)) + DayOf(later) /\ FirstOf(MonthOf(later)) \in Int
  BY DayInMonth
<1>3. MonthOf(from) <= MonthOf(later)
  <2>1. FirstOf(MonthOf(from)) <= later
    BY <1>1
  <2> QED BY <1>1, <2>1, DayInMonth
<1>4. MonthOf(from) = MonthOf(later) => DayOf(from) <= DayOf(later)
  BY <1>1, <1>2
<1>5. MonthOf(t) \in Int /\ DayOf(t) \in 0 .. 30
  BY DayInMonth
<1> QED BY <1>1, <1>2, <1>3, <1>4, <1>5 DEF MonthsBetween

-----------------------------------------------------------------------------
(* The baseline of a service: the query's order has one first row.          *)

LEMMA QueryOrder ==
  ASSUME NEW recs \in [RecordIds -> RecordRow \cup {Nothing}],
         NEW i \in Live(recs), NEW j \in Live(recs), NEW k \in Live(recs)
  PROVE  /\ ~Before(recs, i, i)
         /\ i # j => Before(recs, i, j) \/ Before(recs, j, i)
         /\ Before(recs, i, j) => ~Before(recs, j, i)
         /\ Before(recs, i, j) /\ Before(recs, j, k) => Before(recs, i, k)
         /\ Before(recs, i, j) => recs[i].on >= recs[j].on
<1>1. ASSUME NEW h \in Live(recs) PROVE h \in Int /\ recs[h].on \in Int /\ recs[h].created \in Int
  <2>1. h \in RecordIds /\ recs[h] \in RecordRow
    BY DEF Live
  <2>2. recs[h].on \in RecordDays /\ recs[h].created \in Times
    BY <2>1 DEF RecordRow
  <2>3. RecordIds \subseteq Int /\ RecordDays \subseteq Int /\ Times \subseteq Int
    OBVIOUS
  <2> QED BY <2>1, <2>2, <2>3
<1>2. /\ i \in Int /\ recs[i].on \in Int /\ recs[i].created \in Int
      /\ j \in Int /\ recs[j].on \in Int /\ recs[j].created \in Int
      /\ k \in Int /\ recs[k].on \in Int /\ recs[k].created \in Int
  BY <1>1
<1> QED BY <1>2 DEF Before

LEMMA OneBaseline ==
  ASSUME NEW recs \in [RecordIds -> RecordRow \cup {Nothing}], IsFiniteSet(Live(recs)), NEW type
  PROVE  /\ Matching(recs, type) # {} => Latest(recs, type) # {}
         /\ \A b \in Latest(recs, type) : b \in Matching(recs, type)
         /\ \A b \in Latest(recs, type) : \A j \in Matching(recs, type) : recs[j].on <= recs[b].on
<1> DEFINE M == Matching(recs, type)
           up(i) == {j \in M : Before(recs, j, i)}
           ups == {up(i) : i \in M}
<1>1. M \subseteq Live(recs) /\ IsFiniteSet(M)
  BY FS_Subset DEF Matching
<1>2. ASSUME M # {} PROVE Latest(recs, type) # {}
  <2>1. ups \subseteq FiniteSubsetsOf(M) /\ ups # {}
    <3>1. \A i \in M : up(i) \in FiniteSubsetsOf(M)
      BY <1>1, FS_Subset DEF FiniteSubsetsOf
    <3> HIDE DEF M, up
    <3>2. PICK i : i \in M
      BY <1>2
    <3>3. up(i) \in ups
      BY <3>2
    <3>4. ups \subseteq FiniteSubsetsOf(M)
      BY <3>1
    <3> QED BY <3>3, <3>4
  <2>2. IsWellFoundedOn(StrictSubsetOrdering(M), FiniteSubsetsOf(M))
    BY FS_StrictSubsetOrderingWellFounded
  <2>3. \E x \in ups : \A y \in ups : ~(<<y, x>> \in StrictSubsetOrdering(M))
    <3> HIDE DEF ups
    <3> QED BY <2>1, <2>2, WFMin
  <2>4. PICK i \in M : \A j \in M : ~(<<up(j), up(i)>> \in StrictSubsetOrdering(M))
    BY <2>3
  <2>5. ASSUME NEW j \in M, j # i, ~Before(recs, i, j) PROVE FALSE
    <3>1. Before(recs, j, i)
      BY <1>1, <2>5, QueryOrder
    <3>2. j \in up(i) /\ j \notin up(j)
      BY <1>1, <3>1, QueryOrder
    <3>3. \A k \in up(j) : k \in up(i)
      BY <1>1, <3>1, QueryOrder
    <3>4. up(j) \in SUBSET M /\ up(i) \in SUBSET M
      OBVIOUS
    <3>5. <<up(j), up(i)>> \in StrictSubsetOrdering(M)
      <4> HIDE DEF M, up
      <4> QED BY <3>2, <3>3, <3>4 DEF StrictSubsetOrdering
    <3> HIDE DEF M, up
    <3> QED BY <2>4, <2>5, <3>5
  <2>6. i \in Latest(recs, type)
    BY <2>5 DEF Latest
  <2> QED BY <2>6
<1>3. ASSUME NEW b \in Latest(recs, type), NEW j \in M PROVE recs[j].on <= recs[b].on
  <2>1. b \in M /\ b \in Live(recs) /\ j \in Live(recs) /\ (b # j => Before(recs, b, j))
    BY <1>1 DEF Latest
  <2>2. CASE b = j
    <3>1. recs[j] \in RecordRow
      BY <2>1 DEF Live
    <3>2. recs[j].on \in Int
      BY <3>1 DEF RecordRow
    <3> QED BY <2>2, <3>2
  <2>3. CASE b # j
    BY <2>1, <2>3, QueryOrder
  <2> QED BY <2>2, <2>3
<1>4. \A b \in Latest(recs, type) : b \in Matching(recs, type)
  BY DEF Latest
<1> QED BY <1>2, <1>3, <1>4

-----------------------------------------------------------------------------
(* The status: what Evaluate makes of the snooze and the due date.          *)

LEMMA EvaluateIs ==
  ASSUME NEW r, r.enabled \in BOOLEAN, NEW d, NEW rates
  PROVE  /\ Evaluate(r, d, rates) = "overdue"
              <=> r.enabled /\ ~ActiveSnooze(r.snooze, d, r.latest) /\ IsDue(r, d)
         /\ Evaluate(r, d, rates) = "snoozed" <=> r.enabled /\ ActiveSnooze(r.snooze, d, r.latest)
         /\ Evaluate(r, d, rates) \in {"ok", "due-soon"}
              <=> r.enabled /\ ~ActiveSnooze(r.snooze, d, r.latest) /\ ~IsDue(r, d)
<1>1. CASE ~r.enabled
  BY <1>1 DEF Evaluate
<1>2. CASE r.enabled /\ ActiveSnooze(r.snooze, d, r.latest)
  BY <1>2 DEF Evaluate
<1>3. CASE r.enabled /\ ~ActiveSnooze(r.snooze, d, r.latest)
  <2>1. Evaluate(r, d, rates) = IF IsDue(r, d) THEN "overdue"
                                ELSE IF IsSoon(r, d, rates) THEN "due-soon" ELSE "ok"
    BY <1>3 DEF Evaluate
  <2> QED BY <1>3, <2>1
<1> QED BY <1>1, <1>2, <1>3

(* What is shown of a reminder, as far as it decides when it is due. *)
ShownTyped(r) ==
  /\ r.enabled \in BOOLEAN /\ r.snooze \in Snooze
  /\ r.months \subseteq Nat /\ r.miles \subseteq Nat
  /\ BaselineDay(r) \subseteq Int /\ BaselineMiles(r) \subseteq Nat /\ r.latest \subseteq Nat

LEMMA DueTyped ==
  ASSUME NEW r, ShownTyped(r)
  PROVE  DueDate(r) \subseteq Int /\ DueMileage(r) \subseteq Int
<1>1. ASSUME NEW d \in BaselineDay(r), NEW m \in r.months PROVE AddMonths(d, m) \in Int
  <2>1. d \in Int /\ m \in Nat
    BY DEF ShownTyped
  <2> QED BY <2>1, WholeMonths
<1>2. \A b \in BaselineMiles(r), m \in r.miles : Wrap(b + m) \in Int
  BY DueConstants DEF ShownTyped, Wrap
<1> QED BY <1>1, <1>2 DEF DueDate, DueMileage

(* With the days a reminder only becomes due, and only wakes up. *)
LEMMA EvaluateLater ==
  ASSUME NEW r, ShownTyped(r), NEW d \in Int, NEW e \in Int, d <= e, NEW rates, NEW later
  PROVE  /\ Evaluate(r, d, rates) = "overdue" => Evaluate(r, e, later) = "overdue"
         /\ Evaluate(r, d, rates) # "snoozed" => Evaluate(r, e, later) # "snoozed"
<1>1. IsDue(r, d) => IsDue(r, e)
  <2>1. ASSUME NEW t \in DueDate(r), d >= t PROVE e >= t
    BY <2>1, DueTyped
  <2> QED BY <2>1 DEF IsDue
<1>2. ActiveSnooze(r.snooze, e, r.latest) => ActiveSnooze(r.snooze, d, r.latest)
  <2>1. ASSUME NEW t \in r.snooze.on, e < t PROVE d < t
    BY <2>1 DEF ShownTyped, Snooze
  <2> QED BY <2>1 DEF ActiveSnooze
<1>3. r.enabled \in BOOLEAN
  BY DEF ShownTyped
<1> QED BY <1>1, <1>2, <1>3, EvaluateIs

-----------------------------------------------------------------------------
(* What the tables hold.                                                    *)

ReminderRow ==
  [type : Types, months : SUBSET Nat, miles : SUBSET Nat, enabled : BOOLEAN, snooze : Snooze,
   created : Int, starting : SUBSET Nat]

(* A record is logged one at a time, so there are finitely many. *)
RowsTyped ==
  /\ today \in Days /\ reading \in Mileages
  /\ records \in [RecordIds -> RecordRow \cup {Nothing}] /\ IsFiniteSet(Live(records))
  /\ DOMAIN reminders = ReminderIds
  /\ \A i \in Live(reminders) : reminders[i] \in ReminderRow
  /\ form # Nothing => form.id \in ReminderIds /\ form.snooze \in Snooze

LEMMA OdometerTyped ==
  ASSUME RowsTyped
  PROVE  LatestOdometer \subseteq Nat
<1>1. reading \subseteq Nat
  BY FormsPosted DEF RowsTyped
<1>2. ASSUME NEW i \in Live(records) PROVE records[i].miles \subseteq Nat
  <2>1. records[i] \in RecordRow
    BY DEF RowsTyped, Live
  <2>2. records[i].miles \in Mileages
    BY <2>1 DEF RecordRow
  <2> QED BY <2>2, FormsPosted
<1>3. UNION {records[i].miles : i \in Live(records)} \subseteq Nat
  BY <1>2
<1> QED BY <1>1, <1>3 DEF LatestOdometer

(* Clearing a snooze leaves the rows rows. *)
LEMMA UnsnoozedTyped ==
  ASSUME RowsTyped, NEW type
  PROVE  /\ DOMAIN Unsnoozed(type) = ReminderIds
         /\ \A i \in Live(Unsnoozed(type)) : Unsnoozed(type)[i] \in ReminderRow
<1>1. NotSnoozed \in Snooze
  BY DEF NotSnoozed, Snooze, None
<1>2. ASSUME NEW i \in Live(Unsnoozed(type)) PROVE Unsnoozed(type)[i] \in ReminderRow
  <2>1. i \in ReminderIds
    BY DEF Live, Unsnoozed
  <2>2. CASE reminders[i] # Nothing /\ reminders[i].type = type
    <3>1. i \in Live(reminders)
      BY <2>1, <2>2 DEF RowsTyped, Live
    <3>2. reminders[i] \in ReminderRow
      BY <3>1 DEF RowsTyped
    <3>3. Unsnoozed(type)[i] = [reminders[i] EXCEPT !.snooze = NotSnoozed]
      BY <2>1, <2>2 DEF Unsnoozed
    <3> QED BY <1>1, <3>2, <3>3 DEF ReminderRow
  <2>3. CASE ~(reminders[i] # Nothing /\ reminders[i].type = type)
    <3>1. Unsnoozed(type)[i] = reminders[i]
      BY <2>1, <2>3 DEF Unsnoozed
    <3>2. i \in Live(reminders)
      BY <2>1, <3>1 DEF RowsTyped, Live
    <3> QED BY <3>1, <3>2 DEF RowsTyped
  <2> QED BY <2>2, <2>3
<1> QED BY <1>2 DEF Unsnoozed

LEMMA TypedStep == RowsTyped /\ [Next]_vars => RowsTyped'
<1> SUFFICES ASSUME RowsTyped, [Next]_vars PROVE RowsTyped'
  OBVIOUS
<1>1. CASE UNCHANGED vars
  BY <1>1 DEF vars, RowsTyped, Live
<1>2. CASE NextDay
  BY <1>2 DEF NextDay, RowsTyped, Live
<1>3. ASSUME NEW m \in Mileages, Read(m) PROVE RowsTyped'
  BY <1>3 DEF Read, RowsTyped, Live
<1>4. ASSUME NEW id \in RecordIds, NEW row \in RecordRow \cup {Nothing}, records' = [records EXCEPT ![id] = row],
             NEW type, reminders' = reminders \/ reminders' = Unsnoozed(type), UNCHANGED <<today, reading, form>>
      PROVE  RowsTyped'
  <2>1. records' \in [RecordIds -> RecordRow \cup {Nothing}]
    BY <1>4 DEF RowsTyped
  <2>2. Live(records') \subseteq Live(records) \cup {id}
    BY <1>4 DEF RowsTyped, Live
  <2>3. IsFiniteSet(Live(records'))
    <3>1. IsFiniteSet(Live(records) \cup {id})
      BY FS_AddElement DEF RowsTyped
    <3> QED BY <2>2, <3>1, FS_Subset
  <2>4. DOMAIN reminders' = ReminderIds /\ \A i \in Live(reminders') : reminders'[i] \in ReminderRow
    BY <1>4, UnsnoozedTyped DEF RowsTyped
  <2> QED BY <1>4, <2>1, <2>3, <2>4 DEF RowsTyped
<1>5. ASSUME NEW id \in RecordIds, NEW type \in Types, NEW on \in RecordDays, NEW m \in Mileages,
             NEW t \in Times, CreateRecord(id, type, on, m, t)
      PROVE  RowsTyped'
  <2>1. [type |-> type, on |-> on, miles |-> m, created |-> t] \in RecordRow
    BY DEF RecordRow
  <2>2. reminders' = reminders \/ reminders' = Unsnoozed(records'[id].type)
    BY <1>5 DEF CreateRecord, ClearOnCreate
  <2> QED BY <1>4, <1>5, <2>1, <2>2 DEF CreateRecord
<1>6. ASSUME NEW id \in RecordIds, NEW type \in Types, NEW on \in RecordDays, NEW m \in Mileages,
             EditRecord(id, type, on, m)
      PROVE  RowsTyped'
  <2> DEFINE row == [records[id] EXCEPT !.type = type, !.on = on, !.miles = m]
  <2>1. records[id] \in RecordRow
    BY <1>6 DEF EditRecord, RowsTyped
  <2>2. row \in RecordRow
    BY <2>1 DEF RecordRow
  <2>3. records' = [records EXCEPT ![id] = row]
    BY <1>6 DEF EditRecord, RowsTyped
  <2>4. reminders' = reminders \/ reminders' = Unsnoozed(records'[id].type)
    BY <1>6 DEF EditRecord, ClearOnEdit
  <2>5. UNCHANGED <<today, reading, form>>
    BY <1>6 DEF EditRecord
  <2> HIDE DEF row
  <2> QED BY <1>4, <2>2, <2>3, <2>4, <2>5
<1>7. ASSUME NEW id \in RecordIds, DeleteRecord(id) PROVE RowsTyped'
  BY <1>4, <1>7 DEF DeleteRecord
<1>8. ASSUME NEW i \in ReminderIds, NEW row, row \in ReminderRow \cup {Nothing},
             reminders' = [reminders EXCEPT ![i] = row], UNCHANGED <<today, reading, records>>,
             form' \in {form, Nothing}
      PROVE  RowsTyped'
  BY <1>8 DEF RowsTyped, Live
<1>9. ASSUME NEW type \in Reminded, NEW interval \in Intervals, NEW enabled \in BOOLEAN,
             SaveReminder(type, interval, enabled)
      PROVE  RowsTyped'
  <2>1. interval.months \subseteq Nat /\ interval.miles \subseteq Nat /\ type \in Types
    BY FormsPosted
  <2>2. UNCHANGED <<today, reading, records, form>>
    BY <1>9 DEF SaveReminder
  <2>3. ASSUME NEW i \in Live(reminders),
               reminders' = [reminders EXCEPT ![i].months = interval.months, ![i].miles = interval.miles,
                                              ![i].enabled = enabled]
        PROVE  RowsTyped'
    <3> DEFINE row == [reminders[i] EXCEPT !.months = interval.months, !.miles = interval.miles,
                                           !.enabled = enabled]
    <3>1. i \in ReminderIds /\ reminders[i] \in ReminderRow
      BY DEF Live, RowsTyped
    <3>2. row \in ReminderRow
      BY <2>1, <3>1 DEF ReminderRow
    <3>3. reminders' = [reminders EXCEPT ![i] = row]
      BY <2>3, <3>1 DEF RowsTyped
    <3> HIDE DEF row
    <3> QED BY <1>8, <2>2, <3>1, <3>2, <3>3
  <2>4. ASSUME NEW i \in FreshIds, reminders' = [reminders EXCEPT ![i] = NewRow(type, interval, enabled)]
        PROVE  RowsTyped'
    <3>1. i \in ReminderIds
      BY DEF FreshIds
    <3>2. today \in Int /\ NotSnoozed \in Snooze /\ LatestOdometer \subseteq Nat
      BY OdometerTyped DEF RowsTyped, NotSnoozed, Snooze, None
    <3>3. NewRow(type, interval, enabled) \in ReminderRow
      BY <2>1, <3>2 DEF NewRow, ReminderRow
    <3> QED BY <1>8, <2>2, <2>4, <3>1, <3>3
  <2> QED BY <1>9, <2>3, <2>4 DEF SaveReminder
<1>10. ASSUME NEW i \in ReminderIds, DeleteReminder(i) PROVE RowsTyped'
  BY <1>8, <1>10 DEF DeleteReminder
<1>11. ASSUME NEW i \in ReminderIds, NEW choice \in Snoozes, ChooseSnooze(i, choice) PROVE RowsTyped'
  <2>1. PICK s \in ResolveSnooze(choice.preset, choice.on, choice.miles, today, LatestOdometer) :
          form' = [id |-> i, snooze |-> s]
    BY <1>11 DEF ChooseSnooze
  <2>2. choice.on \subseteq Int /\ choice.miles \subseteq Int /\ today \in Int /\ LatestOdometer \subseteq Nat
    BY FormsPosted, OdometerTyped DEF RowsTyped
  <2>3. s \in Snooze
    BY <2>2, SnoozeTyped
  <2> QED BY <1>11, <2>1, <2>3 DEF ChooseSnooze, RowsTyped, Live
<1>12. CASE SetSnooze
  <2>1. CASE reminders[form.id] # Nothing /\ Storable(form.snooze)
    <3> DEFINE row == [reminders[form.id] EXCEPT !.snooze = form.snooze]
    <3>1. form.id \in ReminderIds /\ form.snooze \in Snooze
      BY <1>12 DEF SetSnooze, RowsTyped
    <3>2. reminders[form.id] \in ReminderRow
      BY <2>1, <3>1 DEF RowsTyped, Live
    <3>3. row \in ReminderRow
      BY <3>1, <3>2 DEF ReminderRow
    <3>4. reminders' = [reminders EXCEPT ![form.id] = row]
      BY <1>12, <2>1, <3>1 DEF SetSnooze, RowsTyped
    <3>5. UNCHANGED <<today, reading, records>> /\ form' = Nothing
      BY <1>12 DEF SetSnooze
    <3> HIDE DEF row
    <3> QED BY <1>8, <3>1, <3>3, <3>4, <3>5
  <2>2. CASE ~(reminders[form.id] # Nothing /\ Storable(form.snooze))
    BY <1>12, <2>2 DEF SetSnooze, RowsTyped, Live
  <2> QED BY <2>1, <2>2
<1> QED
  BY <1>1, <1>2, <1>3, <1>5, <1>6, <1>7, <1>9, <1>10, <1>11, <1>12 DEF Next

LEMMA TypedInvariant == Spec => []RowsTyped
<1>1. Init => RowsTyped
  <2> SUFFICES ASSUME Init PROVE RowsTyped
    OBVIOUS
  <2>1. Live(records) = {} /\ Live(reminders) = {}
    BY DEF Init, Live
  <2> QED BY <2>1, FS_EmptySet DEF Init, RowsTyped
<1> QED BY <1>1, TypedStep, PTL DEF Spec

(* Columns other than the snooze. *)
Kept(i) ==
  /\ i \in Live(reminders)
  /\ reminders'[i].type = reminders[i].type
  /\ reminders'[i].months = reminders[i].months /\ reminders'[i].miles = reminders[i].miles

OneRowPerType ==
  \A i \in Live(reminders) :
    /\ [months |-> reminders[i].months, miles |-> reminders[i].miles] \in Intervals
    /\ \A j \in Live(reminders) \ {i} : reminders[j].type # reminders[i].type

LEMMA UniqueStep == RowsTyped /\ RowsTyped' /\ OneRowPerType /\ [Next]_vars => OneRowPerType'
<1> SUFFICES ASSUME RowsTyped, RowsTyped', OneRowPerType, [Next]_vars PROVE OneRowPerType'
  OBVIOUS
<1>1. ASSUME \A i \in Live(reminders') : Kept(i) PROVE OneRowPerType'
  BY <1>1 DEF Kept, OneRowPerType
<1>2. ASSUME NEW type, reminders' = reminders \/ reminders' = Unsnoozed(type) PROVE OneRowPerType'
  <2>1. ASSUME NEW i \in Live(reminders') PROVE Kept(i)
    <3>1. CASE reminders' = reminders
      BY <3>1 DEF Kept, Live
    <3>2. CASE reminders' = Unsnoozed(type)
      <4>1. i \in ReminderIds /\ reminders'[i] # Nothing
        BY <3>2 DEF Live, Unsnoozed
      <4>2. CASE reminders[i] # Nothing /\ reminders[i].type = type
        <5>1. i \in Live(reminders)
          BY <4>1, <4>2 DEF RowsTyped, Live
        <5>2. reminders[i] \in ReminderRow
          BY <5>1 DEF RowsTyped
        <5>3. reminders'[i] = [reminders[i] EXCEPT !.snooze = NotSnoozed]
          BY <3>2, <4>1, <4>2 DEF Unsnoozed
        <5> QED BY <5>1, <5>2, <5>3 DEF Kept, ReminderRow
      <4>3. CASE ~(reminders[i] # Nothing /\ reminders[i].type = type)
        <5>1. reminders'[i] = reminders[i]
          BY <3>2, <4>1, <4>3 DEF Unsnoozed
        <5> QED BY <4>1, <5>1 DEF Kept, RowsTyped, Live
      <4> QED BY <4>2, <4>3
    <3> QED BY <1>2, <3>1, <3>2
  <2> QED BY <1>1, <2>1
<1>3. ASSUME NEW type \in Reminded, NEW interval \in Intervals, NEW enabled \in BOOLEAN,
             SaveReminder(type, interval, enabled)
      PROVE  OneRowPerType'
  <2>1. interval = [months |-> interval.months, miles |-> interval.miles]
    BY FormsPosted
  <2>2. ASSUME NEW i \in Live(reminders),
               reminders' = [reminders EXCEPT ![i].months = interval.months, ![i].miles = interval.miles,
                                              ![i].enabled = enabled]
        PROVE  OneRowPerType'
    <3>1. i \in ReminderIds /\ reminders[i] \in ReminderRow
      BY DEF Live, RowsTyped
    <3>2. reminders'[i] = [reminders[i] EXCEPT !.months = interval.months, !.miles = interval.miles,
                                               !.enabled = enabled]
      BY <2>2, <3>1 DEF RowsTyped
    <3>3. /\ reminders'[i].type = reminders[i].type
          /\ reminders'[i].months = interval.months /\ reminders'[i].miles = interval.miles
      BY <3>1, <3>2 DEF ReminderRow
    <3>4. \A j \in ReminderIds \ {i} : reminders'[j] = reminders[j]
      BY <2>2 DEF RowsTyped
    <3>5. \A j \in Live(reminders') : j \in Live(reminders) /\ (j # i => reminders'[j] = reminders[j])
      BY <3>4 DEF RowsTyped, Live
    <3>6. ASSUME NEW j \in Live(reminders') PROVE reminders'[j].type = reminders[j].type
      BY <3>3, <3>5
    <3>7. ASSUME NEW j \in Live(reminders'), NEW k \in Live(reminders') \ {j}
          PROVE  reminders'[k].type # reminders'[j].type
      BY <3>5, <3>6 DEF OneRowPerType
    <3>8. ASSUME NEW j \in Live(reminders')
          PROVE  [months |-> reminders'[j].months, miles |-> reminders'[j].miles] \in Intervals
      BY <2>1, <3>3, <3>5 DEF OneRowPerType
    <3> QED BY <3>7, <3>8 DEF OneRowPerType
  <2>3. ASSUME NEW i \in FreshIds, reminders' = [reminders EXCEPT ![i] = NewRow(type, interval, enabled)],
               \A j \in Live(reminders) : reminders[j].type # type
        PROVE  OneRowPerType'
    <3>1. i \in ReminderIds
      BY DEF FreshIds
    <3>2. reminders'[i] = NewRow(type, interval, enabled)
      BY <2>3, <3>1 DEF RowsTyped
    <3>3. /\ reminders'[i].type = type
          /\ reminders'[i].months = interval.months /\ reminders'[i].miles = interval.miles
      BY <3>2 DEF NewRow
    <3>4. \A j \in ReminderIds \ {i} : reminders'[j] = reminders[j]
      BY <2>3 DEF RowsTyped
    <3>5. \A j \in Live(reminders') : j # i => j \in Live(reminders) /\ reminders'[j] = reminders[j]
      BY <3>4 DEF RowsTyped, Live
    <3>6. ASSUME NEW j \in Live(reminders'), j # i
          PROVE  /\ [months |-> reminders'[j].months, miles |-> reminders'[j].miles] \in Intervals
                 /\ reminders'[j].type # type
                 /\ \A k \in Live(reminders') \ {i, j} : reminders'[k].type # reminders'[j].type
      <4>1. j \in Live(reminders) /\ reminders'[j] = reminders[j]
        BY <3>5, <3>6
      <4>2. \A k \in Live(reminders') \ {i, j} : k \in Live(reminders) /\ reminders'[k] = reminders[k]
        BY <3>5
      <4> QED BY <2>3, <4>1, <4>2 DEF OneRowPerType
    <3> QED BY <2>1, <3>3, <3>6 DEF OneRowPerType
  <2> QED BY <1>3, <2>2, <2>3 DEF SaveReminder
<1>4. ASSUME NEW i \in ReminderIds, DeleteReminder(i) PROVE OneRowPerType'
  <2>1. \A j \in Live(reminders') : j \in Live(reminders) /\ reminders'[j] = reminders[j]
    BY <1>4 DEF DeleteReminder, RowsTyped, Live
  <2> QED BY <1>1, <2>1 DEF Kept
<1>5. CASE SetSnooze
  <2>1. CASE reminders' = reminders
    BY <1>2, <2>1
  <2>2. CASE reminders[form.id] # Nothing /\ reminders' = [reminders EXCEPT ![form.id].snooze = form.snooze]
    <3>1. form.id \in ReminderIds
      BY <1>5 DEF SetSnooze, RowsTyped
    <3>2. reminders[form.id] \in ReminderRow
      BY <2>2, <3>1 DEF RowsTyped, Live
    <3>3. reminders'[form.id] = [reminders[form.id] EXCEPT !.snooze = form.snooze]
      BY <2>2, <3>1 DEF RowsTyped
    <3>4. Kept(form.id)
      BY <2>2, <3>1, <3>2, <3>3 DEF Kept, RowsTyped, Live, ReminderRow
    <3>5. \A j \in Live(reminders') : j # form.id => j \in Live(reminders) /\ reminders'[j] = reminders[j]
      BY <2>2 DEF RowsTyped, Live
    <3>6. ASSUME NEW j \in Live(reminders') PROVE Kept(j)
      BY <3>4, <3>5 DEF Kept
    <3> QED BY <1>1, <3>6
  <2> QED BY <1>5, <2>1, <2>2 DEF SetSnooze
<1>6. ASSUME NEW id \in RecordIds, NEW type \in Types, NEW on \in RecordDays, NEW m \in Mileages,
             NEW t \in Times, CreateRecord(id, type, on, m, t)
      PROVE  OneRowPerType'
  BY <1>2, <1>6 DEF CreateRecord, ClearOnCreate
<1>7. ASSUME NEW id \in RecordIds, NEW type \in Types, NEW on \in RecordDays, NEW m \in Mileages,
             EditRecord(id, type, on, m)
      PROVE  OneRowPerType'
  BY <1>2, <1>7 DEF EditRecord, ClearOnEdit
<1>8. ASSUME reminders' = reminders PROVE OneRowPerType'
  BY <1>2, <1>8
<1> QED
  BY <1>3, <1>4, <1>5, <1>6, <1>7, <1>8 DEF Next, NextDay, Read, DeleteRecord, ChooseSnooze, vars

(* The tables stay well formed: rows of their types, every interval one     *)
(* that a form posted, and one reminder for each service (the unique index  *)
(* that upsertReminderSQL relies on).                                       *)
THEOREM RemindersTypeCorrect == Spec => []TypeOK
<1>1. Init => OneRowPerType
  BY DEF Init, OneRowPerType, Live
<1>2. Spec => []OneRowPerType
  BY <1>1, UniqueStep, TypedInvariant, PTL DEF Spec
<1>3. RowsTyped /\ OneRowPerType => TypeOK
  BY DEF RowsTyped, OneRowPerType, TypeOK, ReminderRow
<1> QED BY <1>2, <1>3, TypedInvariant, PTL

LEMMA ShownIsTyped ==
  ASSUME RowsTyped, NEW i \in Live(reminders)
  PROVE  ShownTyped(Shown(i))
<1> DEFINE r == Shown(i)
<1>1. reminders[i] \in ReminderRow
  BY DEF RowsTyped
<1>2. /\ r.enabled \in BOOLEAN /\ r.snooze \in Snooze /\ r.months \subseteq Nat /\ r.miles \subseteq Nat
      /\ r.created \in Int /\ r.starting \subseteq Nat
  BY <1>1 DEF Shown, ReminderRow
<1>3. r.latest \subseteq Nat
  BY OdometerTyped DEF Shown
<1>4. ASSUME NEW b \in r.baseline PROVE b.on \in Int /\ b.miles \subseteq Nat
  <2>1. PICK j \in Latest(records, reminders[i].type) : b = [on |-> records[j].on, miles |-> records[j].miles]
    BY DEF Shown
  <2>2. records[j] \in RecordRow
    BY <2>1 DEF Latest, Matching, Live, RowsTyped
  <2>3. records[j].on \in Int /\ records[j].miles \in Mileages
    BY <2>2 DEF RecordRow
  <2> QED BY <2>1, <2>3, FormsPosted
<1> HIDE DEF r
<1>5. BaselineDay(r) \subseteq Int /\ BaselineMiles(r) \subseteq Nat
  BY <1>2, <1>4 DEF BaselineDay, BaselineMiles
<1> QED BY <1>2, <1>3, <1>5 DEF ShownTyped, r

-----------------------------------------------------------------------------
(* Time alone changes no reminder's row and no record: what is overdue at   *)
(* midnight stays overdue, what is awake stays awake.                       *)
THEOREM OverdueStaysOverdue == Spec => OverdueStays
<1> DEFINE Stays == today' # today =>
             \A i \in Live(reminders) :
               /\ Status(i) = "overdue" => Status(i)' = "overdue"
               /\ Status(i) # "snoozed" => Status(i)' # "snoozed"
<1>1. RowsTyped /\ RowsTyped' /\ [Next]_vars => Stays
  <2> SUFFICES ASSUME RowsTyped, RowsTyped', [Next]_vars, today' # today, NEW i \in Live(reminders)
               PROVE  /\ Status(i) = "overdue" => Status(i)' = "overdue"
                      /\ Status(i) # "snoozed" => Status(i)' # "snoozed"
    OBVIOUS
  <2>1. NextDay
    BY DEF Next, vars, Read, CreateRecord, EditRecord, DeleteRecord, SaveReminder, DeleteReminder,
           ChooseSnooze, SetSnooze
  <2>2. today \in Int /\ today' \in Int /\ today <= today'
    BY <2>1 DEF NextDay, RowsTyped
  <2>3. Shown(i)' = Shown(i) /\ Points' = Points
    BY <2>1 DEF NextDay, Shown, Points, LatestOdometer, Latest, Matching, Live, Before
  <2>4. ShownTyped(Shown(i))
    BY ShownIsTyped
  <2>5. Status(i) = Evaluate(Shown(i), today, EstimateMilesPerDay(Points, today))
    BY DEF Status, EvaluateWith
  <2>6. Status(i)' = Evaluate(Shown(i), today', EstimateMilesPerDay(Points, today'))
    BY <2>3 DEF Status, EvaluateWith
  <2> QED BY <2>2, <2>4, <2>5, <2>6, EvaluateLater
<1>2. RowsTyped /\ RowsTyped' /\ [Next]_vars => [Stays]_vars
  BY <1>1
<1> QED BY <1>2, TypedInvariant, PTL DEF Spec, OverdueStays

-----------------------------------------------------------------------------
(* What overdue means.                                                      *)

LEMMA WrapIsLess ==
  ASSUME NEW b \in Nat, NEW n \in Nat
  PROVE  Wrap(b + n) \in Int /\ Wrap(b + n) <= b + n /\ (n <= MaxInt - b => Wrap(b + n) = b + n)
BY DueConstants DEF Wrap

(* The intervals are counted from the newest matching record.               *)
LEMMA CountedFromTheNewest ==
  ASSUME RowsTyped, NEW i \in Live(reminders), NEW since,
         since = IF SinceService(i) = {} THEN {Shown(i).created} ELSE SinceService(i)
  PROVE  /\ since \subseteq Int /\ BaselineDay(Shown(i)) # {}
         /\ \A d \in BaselineDay(Shown(i)) : d \in since /\ \A e \in since : e <= d
<1> DEFINE type == reminders[i].type
           M == Matching(records, type)
           B == Latest(records, type)
           r == Shown(i)
<1>1. /\ M # {} => B # {}
      /\ \A b \in B : b \in M
      /\ \A b \in B : \A j \in M : records[j].on <= records[b].on
  BY OneBaseline DEF RowsTyped
<1>2. \A j \in M : records[j].on \in Int
  <2> SUFFICES ASSUME NEW j \in M PROVE records[j].on \in Int
    OBVIOUS
  <2>1. records[j] \in RecordRow
    BY DEF Matching, Live, RowsTyped
  <2>2. records[j].on \in RecordDays /\ RecordDays \subseteq Int
    BY <2>1 DEF RecordRow
  <2> QED BY <2>2
<1>3. r.created \in Int
  <2>1. reminders[i] \in ReminderRow
    BY DEF RowsTyped
  <2> QED BY <2>1 DEF Shown, ReminderRow
<1>4. r.baseline = {[on |-> records[b].on, miles |-> records[b].miles] : b \in B}
  BY DEF Shown
<1>5. SinceService(i) = {records[b].on : b \in M}
  BY DEF SinceService
<1> HIDE DEF r, B, M
<1>6. CASE M = {}
  <2>1. B = {}
    BY <1>1, <1>6
  <2>2. BaselineDay(r) = {r.created}
    BY <1>4, <2>1 DEF BaselineDay, None
  <2>3. since = {r.created}
    BY <1>5, <1>6 DEF r
  <2> QED BY <1>3, <2>2, <2>3 DEF r
<1>7. CASE M # {}
  <2>1. B # {}
    BY <1>1, <1>7
  <2>2. r.baseline # {}
    BY <1>4, <2>1
  <2>3. BaselineDay(r) = {b.on : b \in r.baseline}
    BY <2>2 DEF BaselineDay, None
  <2>4. BaselineDay(r) = {records[b].on : b \in B}
    <3>1. ASSUME NEW b \in B PROVE records[b].on \in BaselineDay(r)
      <4>1. [on |-> records[b].on, miles |-> records[b].miles] \in r.baseline
        BY <1>4
      <4> QED BY <2>3, <4>1
    <3>2. ASSUME NEW d \in BaselineDay(r) PROVE \E b \in B : d = records[b].on
      BY <1>4, <2>3
    <3> QED BY <3>1, <3>2
  <2>5. SinceService(i) # {}
    BY <1>5, <1>7
  <2>6. since = {records[b].on : b \in M}
    BY <1>5, <2>5
  <2> QED BY <1>1, <1>2, <2>1, <2>4, <2>6 DEF r
<1> QED BY <1>6, <1>7

LEMMA Reached == RowsTyped => OverdueIsReached
<1> SUFFICES ASSUME RowsTyped, NEW i \in Live(reminders),
                    NEW since, since = IF SinceService(i) = {} THEN {Shown(i).created} ELSE SinceService(i),
                    NEW r, r = Shown(i)
             PROVE  /\ Status(i) = "overdue" =>
                         \/ \E n \in r.months : \A d \in since : MonthsBetween(d, today) >= n
                         \/ \E n \in r.miles, b \in BaselineMiles(r), l \in r.latest : l - b >= n
                         \/ \E n \in r.miles, b \in BaselineMiles(r) : n > MaxInt - b
                    /\ Status(i) \in {"ok", "due-soon"} =>
                         /\ ~\E n \in r.months : \A d \in since : MonthsBetween(d, today - 2) >= n
                         /\ ~\E n \in r.miles, b \in BaselineMiles(r), l \in r.latest : l - b >= n
  BY DEF OverdueIsReached
<1>1. ShownTyped(r)
  BY ShownIsTyped
<1>2. today \in Int
  BY DEF RowsTyped
<1>3. /\ since \subseteq Int /\ BaselineDay(r) # {}
      /\ \A d \in BaselineDay(r) : d \in since /\ \A e \in since : e <= d
  BY CountedFromTheNewest
<1>4. /\ Status(i) = "overdue" => IsDue(r, today)
      /\ Status(i) \in {"ok", "due-soon"} => ~IsDue(r, today)
  <2>1. Status(i) = Evaluate(r, today, EstimateMilesPerDay(Points, today))
    BY DEF Status, EvaluateWith
  <2>2. r.enabled \in BOOLEAN
    BY <1>1 DEF ShownTyped
  <2> QED BY <2>1, <2>2, EvaluateIs
<1>5. ASSUME NEW t \in DueDate(r), today >= t
      PROVE  \E n \in r.months : \A d \in since : MonthsBetween(d, today) >= n
  <2>1. PICK d \in BaselineDay(r), n \in r.months : t = AddMonths(d, n)
    BY DEF DueDate
  <2>2. d \in Int /\ n \in Int
    BY <1>1, <2>1 DEF ShownTyped
  <2>3. MonthsBetween(d, today) \in Int /\ MonthsBetween(d, today) >= n
    BY <1>2, <1>5, <2>1, <2>2, WholeMonths
  <2>4. ASSUME NEW e \in since PROVE MonthsBetween(e, today) >= n
    <3>1. e \in Int /\ e <= d
      BY <1>3, <2>1
    <3>2. MonthsBetween(e, today) >= MonthsBetween(d, today) /\ MonthsBetween(e, today) \in Int
      BY <1>2, <2>2, <3>1, EarlierIsLonger, WholeMonths
    <3> QED BY <2>2, <2>3, <3>2
  <2> QED BY <2>1, <2>4
<1>6. ASSUME NEW n \in r.months, \A d \in since : MonthsBetween(d, today - 2) >= n
      PROVE  IsDue(r, today)
  <2>1. PICK d \in BaselineDay(r) : d \in since
    BY <1>3
  <2>2. d \in Int /\ n \in Int
    BY <1>1, <2>1 DEF ShownTyped
  <2>3. AddMonths(d, n) <= today
    BY <1>2, <1>6, <2>1, <2>2, WholeMonths
  <2>4. AddMonths(d, n) \in DueDate(r) /\ AddMonths(d, n) \in Int
    BY <1>2, <2>1, <2>2, WholeMonths DEF DueDate
  <2> QED BY <1>2, <2>3, <2>4 DEF IsDue
<1>7. ASSUME NEW b \in BaselineMiles(r), NEW n \in r.miles, NEW l \in r.latest
      PROVE  /\ b \in Nat /\ n \in Nat /\ l \in Nat
             /\ Wrap(b + n) \in DueMileage(r)
  BY <1>1 DEF ShownTyped, DueMileage
<1>8. ASSUME NEW t \in DueMileage(r), NEW l \in r.latest, l >= t
      PROVE  \E n \in r.miles, b \in BaselineMiles(r) : l - b >= n \/ n > MaxInt - b
  <2>1. PICK b \in BaselineMiles(r), n \in r.miles : t = Wrap(b + n)
    BY DEF DueMileage
  <2>2. b \in Nat /\ n \in Nat /\ l \in Nat
    BY <1>7, <2>1
  <2>3. n <= MaxInt - b => t = b + n
    BY <2>1, <2>2, WrapIsLess
  <2>4. l - b >= n \/ n > MaxInt - b
    BY <1>8, <2>2, <2>3, DueConstants
  <2> QED BY <2>1, <2>4
<1>9. ASSUME NEW n \in r.miles, NEW b \in BaselineMiles(r), NEW l \in r.latest, l - b >= n
      PROVE  IsDue(r, today)
  <2>1. b \in Nat /\ n \in Nat /\ l \in Nat /\ Wrap(b + n) \in DueMileage(r)
    BY <1>7
  <2>2. Wrap(b + n) \in Int /\ Wrap(b + n) <= b + n
    BY <2>1, WrapIsLess
  <2>3. l >= Wrap(b + n)
    BY <1>9, <2>1, <2>2
  <2> QED BY <2>1, <2>3 DEF IsDue
<1>10. Status(i) = "overdue" =>
         \/ \E n \in r.months : \A d \in since : MonthsBetween(d, today) >= n
         \/ \E n \in r.miles, b \in BaselineMiles(r), l \in r.latest : l - b >= n
         \/ \E n \in r.miles, b \in BaselineMiles(r) : n > MaxInt - b
  BY <1>4, <1>5, <1>8 DEF IsDue
<1>11. Status(i) \in {"ok", "due-soon"} =>
         /\ ~\E n \in r.months : \A d \in since : MonthsBetween(d, today - 2) >= n
         /\ ~\E n \in r.miles, b \in BaselineMiles(r), l \in r.latest : l - b >= n
  BY <1>4, <1>6, <1>9
<1> QED BY <1>10, <1>11

(* Overdue means what it says, of any records and intervals and on any day: *)
(* never before the months or the miles have gone by since the service, and *)
(* at the latest two days after the months.                                 *)
THEOREM OverdueIsEarned == Spec => []OverdueIsReached
BY TypedInvariant, Reached, PTL

=============================================================================

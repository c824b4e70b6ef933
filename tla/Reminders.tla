----------------------------- MODULE Reminders -----------------------------
(***************************************************************************)
(* The reminders of one vehicle beside its service records: saving and     *)
(* deleting reminders, snoozing them from a page that may be stale, and    *)
(* the end of a snooze when a matching record is logged or edited          *)
(* (internal/repository/postgres_reminders.go, postgres_records.go, under  *)
(* internal/server/reminders.go and records.go).                           *)
(*                                                                         *)
(* A record and the snooze it ends are one transaction.  Two visitors act  *)
(* at a time; a record's created_at is taken by its handler before the     *)
(* transaction starts, so records need not be committed in that order.     *)
(***************************************************************************)
EXTENDS DueStatus

CONSTANTS
  RecordIds,    \* service records the vehicle may have; numbers, like UUIDs in a fixed order
  ReminderIds,  \* reminders that may ever be created
  Types,        \* service types
  Reminded,     \* bound: the service types that reminders are kept for
  Days,         \* bound: the days on which something happens
  RecordDays,   \* bound: dates of records
  Times,        \* bound: created_at of records
  Mileages,     \* bound: what a record or a reading holds, or none
  Intervals,    \* what a reminder form posts: [months, miles]
  Snoozes,      \* what a snooze form posts: [preset, on, miles]
  Nothing       \* no record, no reminder, no form

ASSUME RemindersConstants ==
  /\ RecordIds \subseteq Nat /\ ReminderIds \subseteq Nat /\ Times \subseteq Nat
  /\ Days \subseteq Int /\ RecordDays \subseteq Int
  /\ Nothing \notin [type : Types, on : RecordDays, miles : Mileages, created : Times]

ASSUME FormsPosted ==
  /\ Mileages \subseteq SUBSET Nat /\ Reminded \subseteq Types
  /\ Intervals \subseteq [months : SUBSET Nat, miles : SUBSET Nat]
  /\ \A choice \in Snoozes : choice.on \subseteq Int /\ choice.miles \subseteq Int

VARIABLES
  today,
  reading,      \* vehicles.current_odometer_miles
  records,
  reminders,
  form          \* a resolved snooze on its way to the database

vars == <<today, reading, records, reminders, form>>

-----------------------------------------------------------------------------
(* Records.                                                                 *)

Live(f) == {i \in DOMAIN f : f[i] # Nothing}

MutNewestFirst(recs, a, b) ==
  \/ recs[a].created > recs[b].created
  \/ recs[a].created = recs[b].created /\ a > b

(* ORDER BY occurred_on DESC, created_at DESC, id DESC *)
Before(recs, a, b) ==
  \/ recs[a].on > recs[b].on
  \/ /\ recs[a].on = recs[b].on
     /\ \/ recs[a].created > recs[b].created
        \/ recs[a].created = recs[b].created /\ a > b

Matching(recs, type) == {i \in Live(recs) : recs[i].type = type}

(* The baseline of a service type: LIMIT 1 of that order. *)
Latest(recs, type) ==
  {i \in Matching(recs, type) : \A j \in Matching(recs, type) \ {i} : Before(recs, i, j)}

(* GREATEST(current, max of the records) *)
LatestOdometer ==
  LET known == reading \cup UNION {records[i].miles : i \in Live(records)}
  IN  {m \in known : \A n \in known : n <= m}

Unsnoozed(type) ==
  [i \in ReminderIds |->
     IF reminders[i] # Nothing /\ reminders[i].type = type
     THEN [reminders[i] EXCEPT !.snooze = NotSnoozed] ELSE reminders[i]]

(* clearReminderSnoozeSQL *)
ClearOnCreate(recs, id) ==
  IF id \in Latest(recs, recs[id].type) THEN Unsnoozed(recs[id].type) ELSE reminders

MutClearAnyEdit(recs, id) ==
  IF id \in Latest(recs, recs[id].type) THEN Unsnoozed(recs[id].type) ELSE reminders

(* clearReminderSnoozeOnEditSQL: not for a record that was the baseline     *)
(* already, with its previous type and date.                                *)
ClearOnEdit(recs, id) ==
  IF id \in Latest(recs, recs[id].type) \ Latest(records, recs[id].type)
  THEN Unsnoozed(recs[id].type) ELSE reminders

-----------------------------------------------------------------------------
(* What the page shows.                                                     *)

(* ListReminders *)
Shown(i) ==
  LET row == reminders[i] IN
  [months |-> row.months, miles |-> row.miles, enabled |-> row.enabled, snooze |-> row.snooze,
   created |-> row.created, starting |-> row.starting, latest |-> LatestOdometer,
   baseline |-> {[on |-> records[b].on, miles |-> records[b].miles] : b \in Latest(records, row.type)}]

(* The dated mileages, as far as the records hold them. *)
Points ==
  SetToSeq(UNION {{[on |-> records[i].on, miles |-> m] : m \in records[i].miles} : i \in Live(records)})

Status(i) == EvaluateWith(Shown(i), Points, today)

-----------------------------------------------------------------------------
Init ==
  /\ today \in {d \in Days : \A e \in Days : d <= e}
  /\ reading \in Mileages
  /\ records = [i \in RecordIds |-> Nothing]
  /\ reminders = [i \in ReminderIds |-> Nothing]
  /\ form = Nothing

NextDay ==
  /\ today' \in {d \in Days : d > today /\ \A e \in Days : e > today => d <= e}
  /\ UNCHANGED <<reading, records, reminders, form>>

(* A check-in, or an edit of the vehicle, which may lower it. *)
Read(m) ==
  /\ reading' = m
  /\ UNCHANGED <<today, records, reminders, form>>

CreateRecord(id, type, on, miles, created) ==
  /\ records[id] = Nothing
  /\ records' = [records EXCEPT ![id] = [type |-> type, on |-> on, miles |-> miles, created |-> created]]
  /\ reminders' = ClearOnCreate(records', id)
  /\ UNCHANGED <<today, reading, form>>

EditRecord(id, type, on, miles) ==
  /\ records[id] # Nothing
  /\ records' = [records EXCEPT ![id].type = type, ![id].on = on, ![id].miles = miles]
  /\ reminders' = ClearOnEdit(records', id)
  /\ UNCHANGED <<today, reading, form>>

DeleteRecord(id) ==
  /\ records[id] # Nothing
  /\ records' = [records EXCEPT ![id] = Nothing]
  /\ UNCHANGED <<today, reading, reminders, form>>

NewRow(type, interval, enabled) ==
  [type |-> type, months |-> interval.months, miles |-> interval.miles, enabled |-> enabled,
   snooze |-> NotSnoozed, created |-> today, starting |-> LatestOdometer]

(* A UUID no row and no open form has. *)
FreshIds ==
  LET unused == {i \in ReminderIds : reminders[i] = Nothing /\ (form = Nothing \/ form.id # i)}
  IN  {i \in unused : \A j \in unused : i <= j}

(* upsertReminderSQL: the row of that type keeps its identity, creation,    *)
(* starting odometer and snooze.                                            *)
SaveReminder(type, interval, enabled) ==
  /\ \/ \E i \in Live(reminders) :
          /\ reminders[i].type = type
          /\ reminders' = [reminders EXCEPT ![i].months = interval.months, ![i].miles = interval.miles,
                                            ![i].enabled = enabled]
     \/ \E i \in FreshIds :
          /\ \A j \in Live(reminders) : reminders[j].type # type
          /\ reminders' = [reminders EXCEPT ![i] = NewRow(type, interval, enabled)]
  /\ UNCHANGED <<today, reading, records, form>>

DeleteReminder(i) ==
  /\ reminders[i] # Nothing
  /\ reminders' = [reminders EXCEPT ![i] = Nothing]
  /\ UNCHANGED <<today, reading, records, form>>

(* snoozeReminder reads the list and resolves the choice; a refused one     *)
(* changes nothing.                                                         *)
ChooseSnooze(i, choice) ==
  /\ form = Nothing
  /\ reminders[i] # Nothing
  /\ \E s \in ResolveSnooze(choice.preset, choice.on, choice.miles, today, LatestOdometer) :
       form' = [id |-> i, snooze |-> s]
  /\ UNCHANGED <<today, reading, records, reminders>>

(* The column's CHECK: a mileage that has wrapped is refused. *)
Storable(snooze) == \A m \in snooze.miles : m >= 0

(* SetReminderSnooze, by the row's id; a row deleted since is not found. *)
SetSnooze ==
  /\ form # Nothing
  /\ reminders' = IF reminders[form.id] # Nothing /\ Storable(form.snooze)
                  THEN [reminders EXCEPT ![form.id].snooze = form.snooze] ELSE reminders
  /\ form' = Nothing
  /\ UNCHANGED <<today, reading, records>>

Next ==
  \/ NextDay
  \/ \E m \in Mileages : Read(m)
  \/ \E id \in RecordIds, type \in Types, on \in RecordDays, m \in Mileages, t \in Times :
       CreateRecord(id, type, on, m, t)
  \/ \E id \in RecordIds, type \in Types, on \in RecordDays, m \in Mileages : EditRecord(id, type, on, m)
  \/ \E id \in RecordIds : DeleteRecord(id)
  \/ \E type \in Reminded, interval \in Intervals, enabled \in BOOLEAN : SaveReminder(type, interval, enabled)
  \/ \E i \in ReminderIds : DeleteReminder(i)
  \/ \E i \in ReminderIds, choice \in Snoozes : ChooseSnooze(i, choice)
  \/ SetSnooze

Spec == Init /\ [][Next]_vars

-----------------------------------------------------------------------------
RecordRow == [type : Types, on : RecordDays, miles : Mileages, created : Times]

TypeOK ==
  /\ today \in Days
  /\ reading \in Mileages
  /\ records \in [RecordIds -> RecordRow \cup {Nothing}]
  /\ \A i \in Live(reminders) :
       /\ reminders[i].type \in Types
       /\ [months |-> reminders[i].months, miles |-> reminders[i].miles] \in Intervals
       /\ \A j \in Live(reminders) \ {i} : reminders[j].type # reminders[i].type

(* A snooze stays until it is served.  Whatever is logged, edited, deleted  *)
(* or saved, a deferral ends only by the visitor's own choice or because    *)
(* the record just logged or edited has become the newest of that service   *)
(* and was not before; and then it does end.  An older record logged late,  *)
(* a changed note on the newest one, the deletion of a newer one and an     *)
(* edit of the reminder leave it (clearReminderSnoozeSQL,                   *)
(* clearReminderSnoozeOnEditSQL, upsertReminderSQL).                        *)
Newest(recs, id) ==
  \A j \in Live(recs) \ {id} :
    recs[j].type = recs[id].type =>
      \/ recs[j].on < recs[id].on
      \/ /\ recs[j].on = recs[id].on
         /\ recs[j].created <= recs[id].created /\ (recs[j].created = recs[id].created => j < id)

Promoted(id) ==
  /\ records'[id] # Nothing /\ records'[id] # records[id]
  /\ Newest(records', id)
  /\ records[id] = Nothing \/ records[id].type # records'[id].type \/ ~Newest(records, id)

SnoozeEndsWithPromotion ==
  [][\A i \in ReminderIds :
       reminders[i] # Nothing /\ reminders'[i] # Nothing /\ form' = form /\ reminders[i].snooze # NotSnoozed =>
         (reminders'[i].snooze = NotSnoozed
            <=> \E id \in RecordIds : Promoted(id) /\ records'[id].type = reminders[i].type)]_vars

(* Whole calendar months between two days. *)
MonthsBetween(from, to) ==
  MonthOf(to) - MonthOf(from) - (IF DayOf(to) < DayOf(from) THEN 1 ELSE 0)

SinceService(i) == {records[b].on : b \in Matching(records, reminders[i].type)}

(* Overdue means what it says.  A reminder is overdue only when a whole     *)
(* interval has gone by since every matching record (since its creation     *)
(* when there is none), counted in calendar months, or when the vehicle has *)
(* driven the interval since the newest one, unless that sum leaves int64;  *)
(* and an enabled reminder that is not deferred is overdue two days past    *)
(* that many months at the latest, since AddDate lets a day past the end of *)
(* a month run over (Evaluate, ListReminders' baseline).                    *)
OverdueIsReached ==
  \A i \in Live(reminders) :
    LET r == Shown(i)
        since == IF SinceService(i) = {} THEN {r.created} ELSE SinceService(i)
        monthsDone(day) == \E n \in r.months : \A d \in since : MonthsBetween(d, day) >= n
        milesDone == \E n \in r.miles, b \in BaselineMiles(r), l \in r.latest : l - b >= n
        overflow == \E n \in r.miles, b \in BaselineMiles(r) : n > MaxInt - b
    IN  /\ Status(i) = "overdue" => monthsDone(today) \/ milesDone \/ overflow
        /\ Status(i) \in {"ok", "due-soon"} => ~monthsDone(today - 2) /\ ~milesDone

(* Time alone never takes a reminder off the overdue list or puts one back  *)
(* to sleep: after midnight an overdue reminder is still overdue, and a     *)
(* snoozed one is snoozed or what it would have been (Evaluate,             *)
(* activeSnooze).                                                           *)
OverdueStays ==
  [][today' # today =>
       \A i \in Live(reminders) :
         /\ Status(i) = "overdue" => Status(i)' = "overdue"
         /\ Status(i) # "snoozed" => Status(i)' # "snoozed"]_vars

=============================================================================

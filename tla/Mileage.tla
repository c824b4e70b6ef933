------------------------------ MODULE Mileage ------------------------------
(***************************************************************************)
(* The mileage of one vehicle and what starts from it: check-ins           *)
(* (AddOdometerReading), the vehicle form (UpdateVehicle), the odometer of *)
(* service records, and the starting odometer of a mileage reminder.       *)
(* internal/repository/postgres_odometer.go, postgres_vehicles.go,         *)
(* postgres_records.go and postgres_reminders.go, under the handlers of    *)
(* internal/server.                                                        *)
(*                                                                         *)
(* Visitors act at the same time.  A check-in and an edit lock the         *)
(* vehicle's row, and so does, more weakly, the foreign key of a new       *)
(* record or reminder; edits and deletions of records take no such lock,   *)
(* and commit between the statements of a check-in.  A form may have been  *)
(* opened long before it is submitted, so the mileage in it may be any.    *)
(***************************************************************************)
EXTENDS Integers

CONSTANTS
  Visitors,     \* browsers of the household
  Records,      \* service records the vehicle may have
  MaxMiles,     \* bound: mileages are 0..MaxMiles
  MaxDay,       \* bound: dates are 1..MaxDay
  Unknown,      \* NULL: no mileage, no date
  NoOne,        \* nobody has the vehicle's row locked
  Nothing       \* no record, no reminder, no check-in under way

VARIABLES
  today,
  current,      \* vehicles.current_odometer_miles
  currentOn,    \* vehicles.current_odometer_on
  readings,     \* odometer_readings: dated points, equal ones kept once
  log,          \* the records' dates and mileages
  reminder,     \* a mileage reminder's starting odometer, and if it is pending
  lock,         \* who has the vehicle's row locked
  entry,        \* the check-in each visitor is saving
  released      \* history: the vehicle's point, if a record held it when or
                \* after the check-in under way looked, and lets go of it

vehicle  == <<current, currentOn>>
vars     == <<today, vehicle, readings, log, reminder, lock, entry, released>>

Miles     == 0 .. MaxMiles
Days      == 1 .. MaxDay
Point     == [on : Days, miles : Miles]
LogEntry  == [on : Days, miles : Miles \cup {Unknown}]
Starting  == [miles : Miles \cup {Unknown}, pending : BOOLEAN]
CheckIn   == [step : {"compared", "archived"}, miles : Miles, on : Days,
              confirmed : BOOLEAN, archived : SUBSET Point]

ASSUME MileageConstants ==
  /\ MaxMiles \in Nat /\ MaxDay \in Nat \ {0}
  /\ Unknown \notin Int
  /\ NoOne \notin Visitors
  /\ Nothing \notin LogEntry \cup Starting \cup CheckIn

-----------------------------------------------------------------------------
(* The vehicle's mileage.                                                   *)

Logged == {log[r] : r \in {s \in Records : log[s] # Nothing}}

(* GREATEST(current, max of the records), which skips NULLs: the largest of *)
(* these, or unknown.  The greatest mileage is given as a set of one.       *)
RecordMiles == {e.miles : e \in Logged}
KnownMiles  == {current} \cup RecordMiles

Greatest(S) ==
  LET known == S \ {Unknown} IN
  IF known = {} THEN {Unknown} ELSE {m \in known : \A n \in known : n <= m}

(* ListMileagePoints: the dated points the projection is fitted to. *)
VehiclePoint == IF current = Unknown THEN {} ELSE {[on |-> currentOn, miles |-> current]}

MileagePoints == readings \cup (Logged \cap Point) \cup VehiclePoint

MutNeverStarted(latest) == reminder

(* initializeReminderOdometerSQL, once the vehicle has a mileage. *)
Started(latest) ==
  IF reminder # Nothing /\ reminder.pending /\ reminder.miles = Unknown
  THEN [miles |-> latest, pending |-> FALSE] ELSE reminder

-----------------------------------------------------------------------------
(* CreateVehicle, perhaps with a preset reminder.  One with a mileage       *)
(* interval is pending as long as the vehicle has no mileage.               *)
Init ==
  /\ today = 1
  /\ current \in Miles \cup {Unknown}
  /\ currentOn = IF current = Unknown THEN Unknown ELSE today
  /\ readings = {}
  /\ log = [r \in Records |-> Nothing]
  /\ reminder \in {Nothing} \cup {s \in Starting : s.miles = current /\ (s.pending => current = Unknown)}
  /\ lock = NoOne
  /\ entry = [v \in Visitors |-> Nothing]
  /\ released = {}

NewDay ==
  /\ today < MaxDay
  /\ today' = today + 1
  /\ UNCHANGED <<vehicle, readings, log, reminder, lock, entry, released>>

-----------------------------------------------------------------------------
(* Check-ins, in steps: a lock is held from one to the next, but records    *)
(* may be edited and deleted between any two.                               *)

Saving(v, step) == entry[v] # Nothing /\ entry[v].step = step

MutNoLock == TRUE

(* SELECT ... FOR UPDATE, and what else waits for the vehicle's row. *)
RowFree == lock = NoOne

(* The row is locked and the reading compared with the latest mileage; one  *)
(* that is lower must have been confirmed.  Its date is the handler's, from *)
(* before the lock.                                                         *)
BeginCheckIn(v, m, on, confirmed) ==
  /\ entry[v] = Nothing
  /\ RowFree
  /\ on <= today
  /\ confirmed \/ \A n \in KnownMiles \ {Unknown} : n <= m
  /\ lock' = v
  /\ entry' = [entry EXCEPT ![v] = [step |-> "compared", miles |-> m, on |-> on,
                                    confirmed |-> confirmed, archived |-> {}]]
  /\ UNCHANGED <<today, vehicle, readings, log, reminder, released>>

(* GREATEST(current, reading) *)
MutLastReading(m) == {m}

NextMileage(m) == Greatest({current, m})

MutArchiveNothing(next) == {}

(* archiveVehicleMileageSQL: the point the vehicle's row is about to lose,  *)
(* unless a record holds it too.                                            *)
ArchivedPoint(next) ==
  IF current = next THEN {} ELSE VehiclePoint \ Logged

(* The statement sees the records of its moment; its row is seen by nobody  *)
(* before the commit.                                                       *)
ArchiveMileage(v) ==
  /\ Saving(v, "compared")
  /\ \E next \in NextMileage(entry[v].miles) :
       entry' = [entry EXCEPT ![v].step = "archived", ![v].archived = ArchivedPoint(next)]
  /\ UNCHANGED <<today, vehicle, readings, log, reminder, lock, released>>

CheckInEnds(v) ==
  /\ lock' = NoOne
  /\ entry' = [entry EXCEPT ![v] = Nothing]
  /\ released' = {}

(* The rest of AddOdometerReading, committed. *)
SaveCheckIn(v) ==
  LET m == entry[v].miles
      on == entry[v].on
  IN
  /\ Saving(v, "archived")
  /\ readings' = readings \cup entry[v].archived \cup {[on |-> on, miles |-> m]}
  /\ \E next \in NextMileage(m) :
       /\ current' = next
       /\ \E latest \in Greatest({next} \cup RecordMiles) : reminder' = Started(latest)
  /\ currentOn' = IF current = Unknown \/ m > current THEN on ELSE currentOn
  /\ CheckInEnds(v)
  /\ UNCHANGED <<today, log>>

(* A statement or the commit fails and the transaction is rolled back. *)
CheckInFails(v) ==
  /\ entry[v] # Nothing
  /\ CheckInEnds(v)
  /\ UNCHANGED <<today, vehicle, readings, log, reminder>>

-----------------------------------------------------------------------------
(* The vehicle form.                                                        *)

(* When was a mileage entered here true?  Unchanged, it keeps its date; the *)
(* records' greatest takes its latest record's date; any other is dated by  *)
(* the handler.                                                             *)
DatesOf(m, day) ==
  IF m = Unknown THEN {Unknown}
  ELSE IF m = current THEN {currentOn}
  ELSE IF m \in Greatest(RecordMiles) THEN Greatest({e.on : e \in {f \in Logged : f.miles = m}})
  ELSE {day}

(* UpdateVehicle corrects the mileage to what the form says. *)
SubmitForm(m, day) ==
  /\ RowFree
  /\ day <= today
  /\ current' = m
  /\ \E on \in DatesOf(m, day) : currentOn' = on
  /\ \E latest \in Greatest({m} \cup RecordMiles) :
       reminder' = IF m = Unknown THEN reminder ELSE Started(latest)
  /\ UNCHANGED <<today, readings, log, lock, entry, released>>

-----------------------------------------------------------------------------
(* Service records and reminders.                                           *)

AddRecord(r, e) ==
  /\ log[r] = Nothing
  /\ RowFree
  /\ log' = [log EXCEPT ![r] = e]
  /\ UNCHANGED <<today, vehicle, readings, reminder, lock, entry, released>>

(* Once a check-in has looked for the vehicle's point among the records, it *)
(* is written down when they let go of it.                                  *)
PointReleased ==
  released' = IF \E v \in Visitors : Saving(v, "archived")
              THEN released \cup ((VehiclePoint \cap Logged) \ Logged') ELSE released

EditRecord(r, e) ==
  /\ log[r] # Nothing
  /\ log' = [log EXCEPT ![r] = e]
  /\ PointReleased
  /\ UNCHANGED <<today, vehicle, readings, reminder, lock, entry>>

DeleteRecord(r) ==
  /\ log[r] # Nothing
  /\ log' = [log EXCEPT ![r] = Nothing]
  /\ PointReleased
  /\ UNCHANGED <<today, vehicle, readings, reminder, lock, entry>>

MutSnapshotAgain(latest) == [miles |-> latest, pending |-> FALSE]

(* upsertReminderSQL: saving a reminder that exists keeps its snapshot. *)
Upserted(latest) ==
  IF reminder = Nothing THEN [miles |-> latest, pending |-> FALSE] ELSE reminder

(* The handler reads the vehicle's mileage first and inserts the reminder   *)
(* in a statement of its own: the mileage it inserts may be any the vehicle *)
(* had while the request was under way.                                     *)
SaveReminder ==
  /\ reminder = Nothing => RowFree
  /\ \E latest \in Miles \cup {Unknown} : reminder' = Upserted(latest)
  /\ UNCHANGED <<today, vehicle, readings, log, lock, entry, released>>

DeleteReminder ==
  /\ reminder # Nothing
  /\ reminder' = Nothing
  /\ UNCHANGED <<today, vehicle, readings, log, lock, entry, released>>

Next ==
  \/ NewDay
  \/ \E v \in Visitors :
       \/ \E m \in Miles, on \in Days, confirmed \in BOOLEAN : BeginCheckIn(v, m, on, confirmed)
       \/ ArchiveMileage(v) \/ SaveCheckIn(v) \/ CheckInFails(v)
  \/ \E m \in Miles \cup {Unknown}, day \in Days : SubmitForm(m, day)
  \/ \E r \in Records :
       \/ \E e \in LogEntry : AddRecord(r, e) \/ EditRecord(r, e)
       \/ DeleteRecord(r)
  \/ SaveReminder \/ DeleteReminder

Spec == Init /\ [][Next]_vars

-----------------------------------------------------------------------------
(* The types, and that a mileage has a date exactly when it is known: the   *)
(* projection needs every mileage it is given dated.                        *)
TypeOK ==
  /\ today \in Days
  /\ current \in Miles \cup {Unknown}
  /\ currentOn \in Days \cup {Unknown}
  /\ current = Unknown <=> currentOn = Unknown
  /\ readings \subseteq Point
  /\ log \in [Records -> LogEntry \cup {Nothing}]
  /\ reminder \in Starting \cup {Nothing}
  /\ lock \in Visitors \cup {NoOne}
  /\ entry \in [Visitors -> CheckIn \cup {Nothing}]
  /\ released \subseteq Point
  /\ \A v \in Visitors : entry[v] # Nothing <=> lock = v

(* The first mileage of a vehicle that had none, by edit or check-in, is    *)
(* every pending reminder's baseline: none stays pending once it is known.  *)
PendingUntilMileage ==
  reminder # Nothing /\ reminder.pending => reminder.miles = Unknown /\ current = Unknown

(* A reading nobody confirmed is never saved below the mileage another      *)
(* check-in or edit gave the vehicle: concurrent ones are compared with     *)
(* each other, however long the comparison was before the save.             *)
NoUnconfirmedDrop ==
  \A v \in Visitors :
    entry[v] # Nothing /\ ~entry[v].confirmed => current = Unknown \/ current <= entry[v].miles

(* A check-in loses no point the projection saw the moment before, unless   *)
(* the point was not archived because a record held it, and that record was *)
(* edited or deleted before the check-in was committed.                     *)
OnlyReleasedLost ==
  [][entry' # entry => MileagePoints \ MileagePoints' \subseteq released]_vars

(* No check-in lowers the vehicle's mileage, not even a confirmed lower     *)
(* one, whatever records are edited or deleted around it.                   *)
NoneBelow(S, T) == \A m \in S \ {Unknown} : \E n \in T \ {Unknown} : m <= n

CheckInNeverLowers == [][entry' # entry => NoneBelow(KnownMiles, KnownMiles')]_vars

(* A reminder's starting odometer is a snapshot: edits of the reminder, of  *)
(* the vehicle or of records never change one that is known.                *)
SnapshotFixed ==
  [][reminder # Nothing /\ reminder' # Nothing /\ reminder.miles # Unknown
       => reminder' = reminder]_vars
=============================================================================

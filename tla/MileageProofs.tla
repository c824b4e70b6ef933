--------------------------- MODULE MileageProofs ---------------------------
(***************************************************************************)
(* Proofs about Mileage, for any number of visitors and records and any    *)
(* mileages and days: check-ins and edits never see the vehicle's mileage  *)
(* change between their comparison and their save, they lose only points   *)
(* that records release meanwhile, a pending reminder starts with the      *)
(* first mileage, and no snapshot changes.                                 *)
(***************************************************************************)
EXTENDS Mileage, TLAPS

USE MileageConstants

(* Greatest picks from what it is given. *)
LEMMA GreatestPicks ==
  ASSUME NEW S, NEW m \in Greatest(S)
  PROVE  /\ m \in S \cup {Unknown}
         /\ m = Unknown => S \subseteq {Unknown}
  BY DEF Greatest

LEMMA LoggedTyped == TypeOK => Logged \subseteq LogEntry
  BY DEF TypeOK, Logged

LEMMA MileagesTyped ==
  ASSUME TypeOK
  PROVE  /\ RecordMiles \subseteq Miles \cup {Unknown}
         /\ KnownMiles \subseteq Miles \cup {Unknown}
<1>1. RecordMiles \subseteq Miles \cup {Unknown}
  BY LoggedTyped DEF RecordMiles, LogEntry
<1> QED BY <1>1 DEF KnownMiles, TypeOK

LEMMA StartedTyped ==
  ASSUME TypeOK, NEW latest \in Miles \cup {Unknown}
  PROVE  Started(latest) \in Starting \cup {Nothing}
  BY DEF TypeOK, Started, Starting

LEMMA DatesTyped ==
  ASSUME TypeOK, NEW m \in Miles \cup {Unknown}, NEW day \in Days, NEW on \in DatesOf(m, day)
  PROVE  on \in Days \cup {Unknown} /\ (m = Unknown <=> on = Unknown)
<1> USE DEF TypeOK, Days, Miles
<1>1. CASE m = Unknown
  BY <1>1 DEF DatesOf
<1>2. CASE m # Unknown /\ m = current
  BY <1>2 DEF DatesOf
<1>3. CASE m # Unknown /\ m # current /\ m \in Greatest(RecordMiles)
  <2> DEFINE T == {e.on : e \in {f \in Logged : f.miles = m}}
  <2>1. on \in Greatest(T)
    BY <1>3 DEF DatesOf
  <2>2. m \in RecordMiles
    BY <1>3, GreatestPicks
  <2>3. PICK f \in Logged : f.miles = m
    BY <2>2 DEF RecordMiles
  <2>4. T \subseteq Days /\ f.on \in T
    BY <2>3, LoggedTyped DEF LogEntry
  <2>5. on # Unknown /\ on \in T
    BY <2>1, <2>4, GreatestPicks
  <2> QED BY <1>3, <2>4, <2>5
<1>4. CASE m # Unknown /\ m # current /\ m \notin Greatest(RecordMiles)
  BY <1>4 DEF DatesOf
<1> QED BY <1>1, <1>2, <1>3, <1>4

LEMMA VehiclePointTyped == TypeOK => VehiclePoint \subseteq Point
  BY DEF VehiclePoint, TypeOK, Point

(* The next mileage is the larger of the vehicle's and the reading's.       *)
LEMMA NextTyped ==
  ASSUME TypeOK, NEW m \in Miles, NEW next \in NextMileage(m)
  PROVE  /\ next \in Miles
         /\ next \in {current, m}
         /\ m <= next
         /\ current # Unknown => current <= next
  BY DEF TypeOK, NextMileage, Greatest, Miles

(* What a committed check-in leaves in the vehicle's row. *)
LEMMA SavedCheckIn ==
  ASSUME TypeOK, NEW v \in Visitors, SaveCheckIn(v)
  PROVE  /\ current' \in NextMileage(entry[v].miles)
         /\ current' \in Miles
         /\ currentOn' \in Days
         /\ readings' \subseteq Point
         /\ readings \cup entry[v].archived \subseteq readings'
         /\ [on |-> entry[v].on, miles |-> entry[v].miles] \in readings'
         /\ \E latest \in Greatest({current'} \cup RecordMiles) : reminder' = Started(latest)
<1> DEFINE m == entry[v].miles
           on == entry[v].on
<1>0. entry[v] \in CheckIn
  BY DEF SaveCheckIn, Saving, TypeOK
<1>1. m \in Miles /\ on \in Days /\ entry[v].archived \subseteq Point
  BY <1>0 DEF CheckIn
<1>2. PICK next \in NextMileage(m) :
        /\ current' = next
        /\ \E latest \in Greatest({next} \cup RecordMiles) : reminder' = Started(latest)
  BY Zenon DEF SaveCheckIn
<1>3. next \in Miles
  BY <1>1, <1>2, NextTyped
<1>4. readings' = readings \cup entry[v].archived \cup {[on |-> on, miles |-> m]}
  BY DEF SaveCheckIn
<1>5. [on |-> on, miles |-> m] \in Point
  BY <1>1 DEF Point
<1>6. currentOn' \in Days
  BY <1>1 DEF SaveCheckIn, TypeOK
<1> QED BY <1>1, <1>2, <1>3, <1>4, <1>5, <1>6 DEF TypeOK

LEMMA MileageTypeStep == TypeOK /\ [Next]_vars => TypeOK'
<1> SUFFICES ASSUME TypeOK, [Next]_vars PROVE TypeOK'
  OBVIOUS
<1> USE DEF TypeOK, vehicle
<1>1. CASE UNCHANGED vars
  BY <1>1 DEF vars
<1>2. CASE NewDay
  BY <1>2 DEF NewDay, Days
<1>3. ASSUME NEW v \in Visitors, NEW m \in Miles, NEW on \in Days, NEW confirmed \in BOOLEAN,
             BeginCheckIn(v, m, on, confirmed)
      PROVE  TypeOK'
  <2> DEFINE e == [step |-> "compared", miles |-> m, on |-> on, confirmed |-> confirmed, archived |-> {}]
  <2>1. e \in CheckIn
    BY DEF CheckIn
  <2>2. e # Nothing
    BY <2>1
  <2>3. lock = NoOne /\ lock' = v /\ entry' = [entry EXCEPT ![v] = e]
    BY <1>3 DEF BeginCheckIn, RowFree
  <2> HIDE DEF e
  <2>4. entry' \in [Visitors -> CheckIn \cup {Nothing}]
    BY <2>1, <2>3
  <2>5. \A w \in Visitors : entry'[w] # Nothing <=> lock' = w
    BY <2>2, <2>3
  <2> QED BY <1>3, <2>3, <2>4, <2>5 DEF BeginCheckIn
<1>13. ASSUME NEW v \in Visitors, ArchiveMileage(v) PROVE TypeOK'
  <2>1. entry[v] \in CheckIn
    BY <1>13 DEF ArchiveMileage, Saving
  <2>2. PICK next \in NextMileage(entry[v].miles) :
          entry' = [entry EXCEPT ![v].step = "archived", ![v].archived = ArchivedPoint(next)]
    BY <1>13, Zenon DEF ArchiveMileage
  <2>3. ArchivedPoint(next) \subseteq Point
    BY VehiclePointTyped DEF ArchivedPoint
  <2>4. entry'[v] = [entry[v] EXCEPT !.step = "archived", !.archived = ArchivedPoint(next)]
    BY <2>2
  <2>5. entry'[v] \in CheckIn
    BY <2>1, <2>3, <2>4 DEF CheckIn
  <2>6. entry' = [entry EXCEPT ![v] = entry'[v]]
    BY <2>2
  <2>7. entry' \in [Visitors -> CheckIn \cup {Nothing}]
    BY <2>5, <2>6
  <2>8. UNCHANGED <<today, vehicle, readings, log, reminder, lock, released>>
    BY <1>13 DEF ArchiveMileage
  <2>9. \A w \in Visitors : entry'[w] # Nothing <=> lock' = w
    BY <1>13, <2>5, <2>6, <2>8 DEF ArchiveMileage, Saving
  <2> QED BY <2>7, <2>8, <2>9
<1>4. ASSUME NEW v \in Visitors, SaveCheckIn(v) PROVE TypeOK'
  <2>0. /\ current' \in Miles /\ currentOn' \in Days /\ readings' \subseteq Point
        /\ \E latest \in Greatest({current'} \cup RecordMiles) : reminder' = Started(latest)
    BY <1>4, SavedCheckIn
  <2>1. reminder' \in Starting \cup {Nothing}
    <3>1. PICK latest \in Greatest({current'} \cup RecordMiles) : reminder' = Started(latest)
      BY <2>0
    <3>2. latest \in {current'} \cup RecordMiles \cup {Unknown}
      BY <3>1, GreatestPicks
    <3>3. RecordMiles \subseteq Miles \cup {Unknown}
      BY MileagesTyped
    <3>4. latest \in Miles \cup {Unknown}
      BY <2>0, <3>2, <3>3
    <3> QED BY <3>1, <3>4, StartedTyped
  <2>2. /\ lock' = NoOne
        /\ entry' = [entry EXCEPT ![v] = Nothing]
        /\ lock = v
        /\ released' = {}
        /\ UNCHANGED <<today, log>>
    BY <1>4 DEF SaveCheckIn, Saving, CheckInEnds
  <2>3. /\ current' \in Miles /\ currentOn' \in Days /\ readings' \subseteq Point
        /\ current' # Unknown /\ currentOn' # Unknown
    BY <2>0 DEF Miles, Days
  <2>4. entry' \in [Visitors -> CheckIn \cup {Nothing}]
    BY <2>2
  <2>5. \A w \in Visitors : entry'[w] # Nothing <=> lock' = w
    BY <2>2
  <2> QED BY <2>1, <2>2, <2>3, <2>4, <2>5
<1>5. ASSUME NEW v \in Visitors, CheckInFails(v) PROVE TypeOK'
  BY <1>5 DEF CheckInFails, CheckInEnds
<1>6. ASSUME NEW m \in Miles \cup {Unknown}, NEW day \in Days, SubmitForm(m, day) PROVE TypeOK'
  <2>1. current' = m /\ UNCHANGED <<today, readings, log, lock, entry, released>>
    BY <1>6 DEF SubmitForm
  <2>2. currentOn' \in Days \cup {Unknown} /\ (m = Unknown <=> currentOn' = Unknown)
    BY <1>6, DatesTyped DEF SubmitForm
  <2>3. reminder' \in Starting \cup {Nothing}
    <3>1. PICK latest \in Greatest({m} \cup RecordMiles) :
            reminder' = IF m = Unknown THEN reminder ELSE Started(latest)
      BY <1>6 DEF SubmitForm
    <3>2. latest \in Miles \cup {Unknown}
      BY GreatestPicks, MileagesTyped
    <3> QED BY <3>1, <3>2, StartedTyped
  <2> QED BY <2>1, <2>2, <2>3
<1>9. ASSUME NEW r \in Records, NEW e \in LogEntry, AddRecord(r, e) \/ EditRecord(r, e)
      PROVE  TypeOK'
  <2>1. released' \subseteq Point
    BY <1>9, VehiclePointTyped DEF AddRecord, EditRecord, PointReleased
  <2> QED BY <1>9, <2>1 DEF AddRecord, EditRecord
<1>10. ASSUME NEW r \in Records, DeleteRecord(r) PROVE TypeOK'
  <2>1. released' \subseteq Point
    BY <1>10, VehiclePointTyped DEF DeleteRecord, PointReleased
  <2> QED BY <1>10, <2>1 DEF DeleteRecord
<1>11. CASE SaveReminder
  <2>1. PICK latest \in Miles \cup {Unknown} : reminder' = Upserted(latest)
    BY <1>11 DEF SaveReminder
  <2>2. Upserted(latest) \in Starting \cup {Nothing}
    BY DEF Upserted, Starting
  <2> QED BY <1>11, <2>1, <2>2 DEF SaveReminder
<1>12. CASE DeleteReminder
  BY <1>12 DEF DeleteReminder
<1> QED BY <1>1, <1>2, <1>3, <1>4, <1>5, <1>6, <1>9, <1>10, <1>11, <1>12, <1>13 DEF Next

LEMMA MileageTypeInit == Init => TypeOK
<1> SUFFICES ASSUME Init PROVE TypeOK
  OBVIOUS
<1>1. 1 \in Days /\ today \in Days
  BY DEF Init, Days
<1>2. current \in Miles \cup {Unknown} /\ currentOn \in Days \cup {Unknown}
  BY <1>1 DEF Init
<1>3. current = Unknown <=> currentOn = Unknown
  BY <1>1 DEF Init, Days
<1>4. reminder \in Starting \cup {Nothing}
  BY <1>2 DEF Init, Starting
<1>5. \A v \in Visitors : entry[v] # Nothing <=> lock = v
  BY DEF Init
<1>6. entry \in [Visitors -> CheckIn \cup {Nothing}] /\ released \subseteq Point
  BY DEF Init
<1>7. log \in [Records -> LogEntry \cup {Nothing}] /\ readings \subseteq Point
  BY DEF Init
<1> QED BY <1>1, <1>2, <1>3, <1>4, <1>5, <1>6, <1>7 DEF Init, TypeOK

(* Every mileage is in range and dated exactly when it is known, and a      *)
(* check-in under way has the vehicle's row locked.                         *)
THEOREM MileageTypeCorrect == Spec => []TypeOK
  BY MileageTypeInit, MileageTypeStep, PTL DEF Spec

-----------------------------------------------------------------------------
(* Pending reminders and unconfirmed readings, each inductive by itself     *)
(* once the types and the row's lock are known.                             *)

LEMMA PendingStep == TypeOK /\ PendingUntilMileage /\ [Next]_vars => PendingUntilMileage'
<1> SUFFICES ASSUME TypeOK, PendingUntilMileage, [Next]_vars PROVE PendingUntilMileage'
  OBVIOUS
<1> USE DEF PendingUntilMileage
<1>1. CASE UNCHANGED <<current, reminder>>
  BY <1>1
<1>2. ASSUME NEW v \in Visitors, SaveCheckIn(v) PROVE PendingUntilMileage'
  <2>1. PICK latest : reminder' = Started(latest)
    BY <1>2, SavedCheckIn
  <2> QED BY <2>1 DEF Started
<1>3. ASSUME NEW m \in Miles \cup {Unknown}, NEW day \in Days, SubmitForm(m, day)
      PROVE  PendingUntilMileage'
  <2>1. CASE m = Unknown
    BY <1>3, <2>1 DEF SubmitForm
  <2>2. CASE m # Unknown
    <3>1. PICK latest : reminder' = Started(latest)
      BY <1>3, <2>2 DEF SubmitForm
    <3> QED BY <3>1 DEF Started
  <2> QED BY <2>1, <2>2
<1>4. CASE SaveReminder
  <2>1. PICK latest : reminder' = Upserted(latest)
    BY <1>4 DEF SaveReminder
  <2> QED BY <1>4, <2>1 DEF Upserted, SaveReminder, vehicle
<1>5. CASE DeleteReminder
  BY <1>5 DEF DeleteReminder
<1>6. CASE UNCHANGED vars
  BY <1>1, <1>6 DEF vars, vehicle
<1> QED
  BY <1>1, <1>2, <1>3, <1>4, <1>5, <1>6
     DEF Next, vehicle, NewDay, BeginCheckIn, ArchiveMileage, CheckInFails,
         AddRecord, EditRecord, DeleteRecord

(* No reminder is still pending once its vehicle has a mileage, whichever   *)
(* check-in or edit entered it.                                             *)
THEOREM FirstMileageStarts == Spec => []PendingUntilMileage
<1>1. Init => PendingUntilMileage
  BY DEF Init, PendingUntilMileage
<1> QED BY <1>1, PendingStep, MileageTypeCorrect, PTL DEF Spec

LEMMA UnconfirmedStep == TypeOK /\ NoUnconfirmedDrop /\ [Next]_vars => NoUnconfirmedDrop'
<1> SUFFICES ASSUME TypeOK, NoUnconfirmedDrop, [Next]_vars PROVE NoUnconfirmedDrop'
  OBVIOUS
<1> USE DEF NoUnconfirmedDrop, TypeOK
<1>1. CASE UNCHANGED <<current, entry>>
  BY <1>1
<1>2. ASSUME NEW u \in Visitors, NEW m \in Miles, NEW on \in Days, NEW confirmed \in BOOLEAN,
             BeginCheckIn(u, m, on, confirmed)
      PROVE  NoUnconfirmedDrop'
  <2>1. confirmed \/ current = Unknown \/ current <= m
    BY <1>2 DEF BeginCheckIn, KnownMiles
  <2>2. /\ current' = current
        /\ \A w \in Visitors \ {u} : entry'[w] = entry[w]
        /\ entry'[u].miles = m /\ entry'[u].confirmed = confirmed
    BY <1>2 DEF BeginCheckIn, vehicle
  <2> QED BY <2>1, <2>2
<1>3. ASSUME NEW u \in Visitors, ArchiveMileage(u) PROVE NoUnconfirmedDrop'
  <2>1. current' = current /\ entry[u] \in CheckIn
    BY <1>3 DEF ArchiveMileage, Saving, vehicle
  <2>2. PICK next \in NextMileage(entry[u].miles) :
          entry' = [entry EXCEPT ![u].step = "archived", ![u].archived = ArchivedPoint(next)]
    BY <1>3, Zenon DEF ArchiveMileage
  <2>3. /\ \A w \in Visitors \ {u} : entry'[w] = entry[w]
        /\ entry'[u] = [entry[u] EXCEPT !.step = "archived", !.archived = ArchivedPoint(next)]
    BY <2>2
  <2>4. entry'[u].miles = entry[u].miles /\ entry'[u].confirmed = entry[u].confirmed /\ entry[u] # Nothing
    BY <1>3, <2>1, <2>3 DEF CheckIn, ArchiveMileage, Saving
  <2> QED BY <2>1, <2>3, <2>4
<1>6. ASSUME NEW u \in Visitors, SaveCheckIn(u) \/ CheckInFails(u) PROVE NoUnconfirmedDrop'
  <2>1. entry[u] # Nothing /\ entry' = [entry EXCEPT ![u] = Nothing]
    BY <1>6 DEF SaveCheckIn, CheckInFails, CheckInEnds, Saving
  <2>2. \A w \in Visitors : entry'[w] = Nothing
    BY <2>1
  <2> QED BY <2>2
<1>4. ASSUME NEW m \in Miles \cup {Unknown}, NEW day \in Days, SubmitForm(m, day)
      PROVE  NoUnconfirmedDrop'
  <2>1. lock = NoOne /\ entry' = entry
    BY <1>4 DEF SubmitForm, RowFree
  <2>2. \A w \in Visitors : entry'[w] = Nothing
    BY <2>1
  <2> QED BY <2>2
<1>5. QED
  BY <1>1, <1>2, <1>3, <1>4, <1>6
     DEF Next, vars, vehicle, NewDay, AddRecord, EditRecord, DeleteRecord, SaveReminder, DeleteReminder

(* Between the comparison of an unconfirmed reading and its save, the       *)
(* vehicle's mileage does not rise above it: the row stays locked.          *)
THEOREM ComparedWithEachOther == Spec => []NoUnconfirmedDrop
<1>1. Init => NoUnconfirmedDrop
  BY DEF Init, NoUnconfirmedDrop
<1> QED BY <1>1, UnconfirmedStep, MileageTypeCorrect, PTL DEF Spec

-----------------------------------------------------------------------------
(* What no step does.                                                       *)

(* A starting odometer that is known is never changed again.                *)
THEOREM SnapshotsAreFixed == Spec => SnapshotFixed
<1>1. TypeOK /\ PendingUntilMileage /\ [Next]_vars =>
        [reminder # Nothing /\ reminder' # Nothing /\ reminder.miles # Unknown
           => reminder' = reminder]_vars
  <2> SUFFICES ASSUME TypeOK, PendingUntilMileage, Next,
                      reminder # Nothing, reminder' # Nothing, reminder.miles # Unknown
               PROVE  reminder' = reminder
    OBVIOUS
  <2>0. \A latest : Started(latest) = reminder /\ Upserted(latest) = reminder
    BY DEF Started, Upserted
  <2>1. ASSUME NEW v \in Visitors, SaveCheckIn(v) PROVE reminder' = reminder
    BY <2>0, <2>1, SavedCheckIn
  <2>2. ASSUME NEW m \in Miles \cup {Unknown}, NEW day \in Days, SubmitForm(m, day)
        PROVE  reminder' = reminder
    BY <2>0, <2>2 DEF SubmitForm
  <2>3. CASE SaveReminder
    BY <2>0, <2>3 DEF SaveReminder
  <2>4. CASE DeleteReminder
    BY <2>4 DEF DeleteReminder
  <2> QED
    BY <2>1, <2>2, <2>3, <2>4
       DEF Next, NewDay, BeginCheckIn, ArchiveMileage, CheckInFails, AddRecord, EditRecord, DeleteRecord
<1> QED BY <1>1, MileageTypeCorrect, FirstMileageStarts, PTL DEF Spec, SnapshotFixed

(* What a check-in did not archive is on record, unless a record has let go *)
(* of it since.                                                             *)
ArchiveHolds ==
  \A v \in Visitors : Saving(v, "archived") =>
    \A next \in NextMileage(entry[v].miles) :
      current = next \/ VehiclePoint \subseteq entry[v].archived \cup Logged \cup released

LEMMA ArchiveStep == TypeOK /\ ArchiveHolds /\ [Next]_vars => ArchiveHolds'
<1> SUFFICES ASSUME TypeOK, ArchiveHolds, [Next]_vars PROVE ArchiveHolds'
  OBVIOUS
<1> USE DEF ArchiveHolds
<1>1. ASSUME UNCHANGED <<vehicle, entry>>, Logged \cup released \subseteq Logged' \cup released' \cup (Logged \ VehiclePoint)
      PROVE  ArchiveHolds'
  <2> SUFFICES ASSUME NEW v \in Visitors, Saving(v, "archived"),
                      NEW next \in NextMileage(entry[v].miles), current # next
               PROVE  VehiclePoint \subseteq entry[v].archived \cup Logged' \cup released'
    BY <1>1, Zenon DEF Saving, NextMileage, VehiclePoint, vehicle
  <2>1. VehiclePoint \subseteq entry[v].archived \cup Logged \cup released
    OBVIOUS
  <2> QED BY <1>1, <2>1
<1>2. ASSUME UNCHANGED <<vehicle, entry, log, released>> PROVE ArchiveHolds'
  BY <1>1, <1>2 DEF Logged
<1>3. ASSUME \A v \in Visitors : ~Saving(v, "archived")' PROVE ArchiveHolds'
  BY <1>3
<1>4. ASSUME NEW u \in Visitors, NEW m \in Miles, NEW on \in Days, NEW confirmed \in BOOLEAN,
             BeginCheckIn(u, m, on, confirmed)
      PROVE  ArchiveHolds'
  <2>1. /\ entry'[u].step = "compared"
        /\ \A w \in Visitors \ {u} : entry'[w] = Nothing
    BY <1>4 DEF BeginCheckIn, RowFree, TypeOK
  <2> QED BY <1>3, <2>1 DEF Saving
<1>5. ASSUME NEW u \in Visitors, ArchiveMileage(u) PROVE ArchiveHolds'
  <2>1. PICK next \in NextMileage(entry[u].miles) :
          entry' = [entry EXCEPT ![u].step = "archived", ![u].archived = ArchivedPoint(next)]
    BY <1>5, Zenon DEF ArchiveMileage
  <2>2. entry[u] \in CheckIn /\ entry[u] # Nothing
    BY <1>5 DEF ArchiveMileage, Saving, TypeOK
  <2>3. entry'[u] = [entry[u] EXCEPT !.step = "archived", !.archived = ArchivedPoint(next)]
    BY <2>1 DEF TypeOK
  <2>4. entry'[u].miles = entry[u].miles /\ entry'[u].archived = ArchivedPoint(next)
    BY <2>2, <2>3 DEF CheckIn
  <2>5. \A w \in Visitors \ {u} : entry'[w] = Nothing
    BY <2>1, <2>2 DEF TypeOK
  <2>6. UNCHANGED <<vehicle, log, released>>
    BY <1>5 DEF ArchiveMileage
  <2>7. \A n \in NextMileage(entry[u].miles) : n = next
    BY <2>1, <2>2 DEF NextMileage, Greatest, CheckIn, Miles, TypeOK
  <2>8. current = next \/ VehiclePoint \subseteq ArchivedPoint(next) \cup Logged
    BY DEF ArchivedPoint
  <2>9. VehiclePoint' = VehiclePoint /\ Logged' = Logged /\ current' = current
    BY <2>6 DEF VehiclePoint, Logged, vehicle
  <2> SUFFICES ASSUME NEW n \in NextMileage(entry[u].miles)'
               PROVE  current' = n \/ (VehiclePoint \subseteq entry[u].archived \cup Logged \cup released)'
    BY <2>5 DEF Saving
  <2>10. n = next
    BY <2>4, <2>7, <2>9 DEF NextMileage
  <2> QED BY <2>4, <2>8, <2>9, <2>10
<1>6. ASSUME NEW u \in Visitors, SaveCheckIn(u) \/ CheckInFails(u) PROVE ArchiveHolds'
  <2>1. entry[u] # Nothing /\ entry' = [entry EXCEPT ![u] = Nothing]
    BY <1>6 DEF SaveCheckIn, CheckInFails, CheckInEnds, Saving
  <2>2. \A w \in Visitors : entry'[w] = Nothing
    BY <2>1 DEF TypeOK
  <2> QED BY <1>3, <2>2 DEF Saving
<1>7. ASSUME NEW m \in Miles \cup {Unknown}, NEW day \in Days, SubmitForm(m, day) PROVE ArchiveHolds'
  <2>1. \A w \in Visitors : entry'[w] = Nothing
    BY <1>7 DEF SubmitForm, RowFree, TypeOK
  <2> QED BY <1>3, <2>1 DEF Saving
<1>8. ASSUME NEW r \in Records, NEW e \in LogEntry, AddRecord(r, e) PROVE ArchiveHolds'
  <2>1. \A w \in Visitors : entry'[w] = Nothing
    BY <1>8 DEF AddRecord, RowFree, TypeOK
  <2> QED BY <1>3, <2>1 DEF Saving
<1>9. ASSUME PointReleased, UNCHANGED <<vehicle, entry>> PROVE ArchiveHolds'
  <2>1. CASE \E v \in Visitors : Saving(v, "archived")
    BY <1>1, <1>9, <2>1 DEF PointReleased
  <2>2. CASE ~\E v \in Visitors : Saving(v, "archived")
    BY <1>3, <1>9, <2>2 DEF Saving
  <2> QED BY <2>1, <2>2
<1>10. ASSUME NEW r \in Records, NEW e \in LogEntry, EditRecord(r, e) PROVE ArchiveHolds'
  BY <1>9, <1>10 DEF EditRecord
<1>11. ASSUME NEW r \in Records, DeleteRecord(r) PROVE ArchiveHolds'
  BY <1>9, <1>11 DEF DeleteRecord
<1>12. CASE NewDay \/ SaveReminder \/ DeleteReminder \/ UNCHANGED vars
  <2>1. UNCHANGED <<vehicle, entry, log, released>>
    BY <1>12 DEF NewDay, SaveReminder, DeleteReminder, vars
  <2> QED BY <1>2, <2>1
<1> HIDE DEF ArchiveHolds
<1> QED BY <1>4, <1>5, <1>6, <1>7, <1>8, <1>10, <1>11, <1>12 DEF Next

LEMMA ArchiveAlwaysHolds == Spec => []ArchiveHolds
<1>1. Init => ArchiveHolds
  BY DEF Init, ArchiveHolds, Saving
<1> QED BY <1>1, ArchiveStep, MileageTypeCorrect, PTL DEF Spec

(* Of a check-in's steps only the save can be seen by others.               *)
LEMMA EntryChanges ==
  ASSUME TypeOK, Next, entry' # entry
  PROVE  \/ \E v \in Visitors : SaveCheckIn(v)
         \/ UNCHANGED <<vehicle, readings, log>>
  BY DEF Next, NewDay, BeginCheckIn, ArchiveMileage, CheckInFails, SubmitForm,
         AddRecord, EditRecord, DeleteRecord, SaveReminder, DeleteReminder

(* A check-in loses no point of the vehicle's history but one that a record *)
(* held when the check-in looked, and has let go of since.                  *)
THEOREM OnlyReleasedPointsAreLost == Spec => OnlyReleasedLost
<1>1. TypeOK /\ ArchiveHolds /\ [Next]_vars =>
        [entry' # entry => MileagePoints \ MileagePoints' \subseteq released]_vars
  <2> SUFFICES ASSUME TypeOK, ArchiveHolds, Next, entry' # entry
               PROVE  MileagePoints \subseteq MileagePoints' \cup released
    OBVIOUS
  <2>1. CASE UNCHANGED <<vehicle, readings, log>>
    BY <2>1 DEF MileagePoints, Logged, VehiclePoint, vehicle
  <2>2. ASSUME NEW v \in Visitors, SaveCheckIn(v)
        PROVE  MileagePoints \subseteq MileagePoints' \cup released
    <3>1. /\ current' \in NextMileage(entry[v].miles)
          /\ current' \in Miles
          /\ readings \cup entry[v].archived \subseteq readings'
      BY <2>2, SavedCheckIn
    <3>2. Logged' = Logged
      BY <2>2 DEF SaveCheckIn, Logged
    <3>3. entry[v].miles \in Miles /\ current' # Unknown
      BY <2>2, <3>1 DEF SaveCheckIn, Saving, TypeOK, CheckIn, Miles
    <3>4. CASE current = current'
      <4>1. ~(entry[v].miles > current)
        BY <3>1, <3>3, <3>4, NextTyped DEF Miles
      <4>2. currentOn' = currentOn
        BY <2>2, <3>3, <3>4, <4>1 DEF SaveCheckIn
      <4>3. VehiclePoint' = VehiclePoint
        BY <3>4, <4>2 DEF VehiclePoint
      <4> QED BY <3>1, <3>2, <4>3 DEF MileagePoints, Point, Days, Miles
    <3>5. CASE current # current'
      <4>1. VehiclePoint \subseteq entry[v].archived \cup Logged \cup released
        BY <2>2, <3>1, <3>5 DEF ArchiveHolds, SaveCheckIn
      <4>2. VehiclePoint \subseteq Point
        BY VehiclePointTyped
      <4> QED BY <3>1, <3>2, <4>1, <4>2 DEF MileagePoints, Point, Days, Miles
    <3> QED BY <3>4, <3>5
  <2> QED BY <2>1, <2>2, EntryChanges
<1> QED BY <1>1, ArchiveAlwaysHolds, MileageTypeCorrect, PTL DEF Spec, OnlyReleasedLost

(* No check-in lowers the vehicle's mileage, confirmed or not.              *)
THEOREM ChecksNeverLower == Spec => CheckInNeverLowers
<1>1. TypeOK /\ [Next]_vars => [entry' # entry => NoneBelow(KnownMiles, KnownMiles')]_vars
  <2> SUFFICES ASSUME TypeOK, Next, entry' # entry
               PROVE  NoneBelow(KnownMiles, KnownMiles')
    OBVIOUS
  <2>0. KnownMiles \subseteq Miles \cup {Unknown}
    BY MileagesTyped
  <2>1. CASE UNCHANGED <<vehicle, readings, log>>
    <3>1. KnownMiles' = KnownMiles
      BY <2>1 DEF KnownMiles, RecordMiles, Logged, vehicle
    <3> QED BY <2>0, <3>1 DEF NoneBelow, Miles
  <2>2. ASSUME NEW v \in Visitors, SaveCheckIn(v)
        PROVE  NoneBelow(KnownMiles, KnownMiles')
    <3>1. current' \in NextMileage(entry[v].miles) /\ current' \in Miles
      BY <2>2, SavedCheckIn
    <3>2. entry[v].miles \in Miles
      BY <2>2 DEF SaveCheckIn, Saving, TypeOK, CheckIn
    <3>3. current # Unknown => current <= current'
      BY <3>1, <3>2, NextTyped
    <3>4. RecordMiles' = RecordMiles
      BY <2>2 DEF SaveCheckIn, RecordMiles, Logged
    <3> SUFFICES ASSUME NEW m \in KnownMiles, m # Unknown
                 PROVE  \E n \in KnownMiles' \ {Unknown} : m <= n
      BY DEF NoneBelow
    <3>5. CASE m = current
      <4>1. current' \in KnownMiles' \ {Unknown}
        BY <3>1 DEF KnownMiles, Miles
      <4> QED BY <3>3, <3>5, <4>1
    <3>6. CASE m \in RecordMiles
      <4>1. m \in KnownMiles' \ {Unknown} /\ m \in Int
        BY <2>0, <3>4, <3>6 DEF KnownMiles, Miles
      <4> QED BY <4>1
    <3> QED BY <3>5, <3>6 DEF KnownMiles
  <2> QED BY <2>1, <2>2, EntryChanges
<1> QED BY <1>1, MileageTypeCorrect, PTL DEF Spec, CheckInNeverLowers
=============================================================================

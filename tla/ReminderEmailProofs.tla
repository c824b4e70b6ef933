------------------------ MODULE ReminderEmailProofs ------------------------
(***************************************************************************)
(* Proofs about ReminderEmail, for any number of replicas and reminders:   *)
(* what the mail server has accepted is recorded, whatever shutdowns come  *)
(* between, until there is a fault; and every duplicate has a fault that   *)
(* pays for it.                                                            *)
(***************************************************************************)
EXTENDS ReminderEmail, FiniteSetTheorems, TLAPS

USE EmailConstants

-----------------------------------------------------------------------------
(* The inductive invariant.                                                 *)

(* Until there is a fault, the lock keeps the runs apart. *)
OneRun == faults = 0 => \A r \in Replicas : run[r] # Nothing => lock = r

(* The pool is open as long as a run may need it. *)
PoolOpen == \A r \in Replicas : life[r] = "up" \/ run[r] # Nothing => pool[r]

(* What a run is about to record is the newest email about its reminder,    *)
(* and it still has the candidate it was sent for.                          *)
RecordsNewest ==
  \A r \in Replicas :
    /\ At(r, "send") \/ At(r, "record") => run[r].current \in Candidate
    /\ At(r, "record") => run[r].sent \in Row
    /\ At(r, "record") /\ faults = 0 =>
         \A m \in mails : m.reminder = run[r].current.reminder => run[r].sent.age <= m.age

EmailInv == TypeOK /\ OneRun /\ PoolOpen /\ RecordsNewest /\ AcceptedIsRecorded

-----------------------------------------------------------------------------
(* What the steps do to a run, to the mail and overnight.                   *)

LEMMA AtJob ==
  ASSUME TypeOK, NEW r \in Replicas, NEW step, At(r, step)
  PROVE  run[r] \in Job
  BY DEF TypeOK, At

(* A candidate is done with. *)
LEMMA WithoutTyped ==
  ASSUME TypeOK, NEW r \in Replicas, run[r] \in Job, NEW c
  PROVE  /\ Without(r, c) \in [Replicas -> Job \cup {Nothing}]
         /\ Without(r, c)[r] \in Job /\ Without(r, c)[r].at = "next"
<1>1. /\ Without(r, c) = [run EXCEPT ![r] = Without(r, c)[r]]
      /\ Without(r, c)[r] = [run[r] EXCEPT !.at = "next", !.todo = @ \ {c}, !.current = Nothing, !.sent = Nothing]
  BY DEF Without, TypeOK
<1>2. run[r].todo \ {c} \in SUBSET Candidate
  BY DEF Job
<1>3. Without(r, c)[r] \in Job /\ Without(r, c)[r].at = "next"
  BY <1>1, <1>2 DEF Job
<1>4. Without(r, c) \in [Replicas -> Job \cup {Nothing}]
  BY <1>1, <1>3 DEF TypeOK
<1> QED BY <1>3, <1>4

LEMMA DeliveredTyped ==
  ASSUME TypeOK, NEW c \in Candidate, Delivered(c)
  PROVE  mails' \subseteq Mail /\ IsFiniteSet(mails')
<1> DEFINE mail == [reminder |-> c.reminder, cycle |-> c.cycle, age |-> 0, copy |-> Cardinality(Copies(c))]
<1>1. Copies(c) \subseteq mails
  BY DEF Copies
<1>2. IsFiniteSet(mails) /\ IsFiniteSet(Copies(c))
  BY <1>1, FS_Subset DEF TypeOK
<1>3. Cardinality(Copies(c)) \in Nat
  BY <1>2, FS_CardinalityType
<1>4. mail \in Mail
  BY <1>3 DEF Mail, Candidate
<1>5. mails' = mails \cup {mail}
  BY DEF Delivered
<1>6. IsFiniteSet(mails')
  BY <1>2, <1>5, FS_AddElement
<1> QED BY <1>4, <1>5, <1>6 DEF TypeOK

(* Midnight: everything is a day older. *)
LEMMA DayPassed ==
  ASSUME TypeOK, NextDay
  PROVE  /\ notified' \in [Reminders -> Row \cup {Nothing}]
         /\ \A x \in Reminders :
              notified[x] # Nothing /\ notified[x].age <= Window =>
                notified'[x] # Nothing /\ notified'[x].age = notified[x].age + 1
         /\ mails' \subseteq Mail /\ IsFiniteSet(mails')
         /\ \A m \in mails' : /\ m.age < Window
                               /\ \E n \in mails : m.reminder = n.reminder /\ m.age = n.age + 1
         /\ run' \in [Replicas -> Job \cup {Nothing}]
         /\ \A r \in Replicas :
              /\ run'[r] = Nothing <=> run[r] = Nothing
              /\ run[r] # Nothing => /\ run'[r].at = run[r].at
                                     /\ run'[r].current = run[r].current
                                     /\ run[r].sent \in Row => /\ run'[r].sent \in Row
                                                                /\ run'[r].sent.age = run[r].sent.age + 1
         /\ UNCHANGED <<house, lock, life, pool, budget>>
<1>1. \A row \in Row : Older(row) \in Row /\ Older(row).age = row.age + 1 /\ Older(row) # Nothing
  BY DEF Older, Row
<1>2. \A m \in Mail : Older(m) \in Mail /\ Older(m).age = m.age + 1 /\ Older(m).reminder = m.reminder
  BY DEF Older, Mail
<1>3. /\ notified' \in [Reminders -> Row \cup {Nothing}]
      /\ \A x \in Reminders :
           notified[x] # Nothing /\ notified[x].age <= Window =>
             notified'[x] # Nothing /\ notified'[x].age = notified[x].age + 1
  <2>1. notified' = [x \in Reminders |->
          IF notified[x] = Nothing \/ notified[x].age > Window THEN Nothing ELSE Older(notified[x])]
    BY DEF NextDay
  <2>2. \A x \in Reminders : notified[x] # Nothing => notified[x] \in Row /\ notified[x].age \in Nat
    BY DEF TypeOK, Row
  <2>3. \A x \in Reminders : notified'[x] \in Row \cup {Nothing}
    BY <1>1, <2>1, <2>2
  <2>4. \A x \in Reminders :
          notified[x] # Nothing /\ notified[x].age <= Window => notified'[x] = Older(notified[x])
    BY <2>1, <2>2
  <2> QED BY <1>1, <2>1, <2>2, <2>3, <2>4
<1>4. /\ mails' \subseteq Mail /\ IsFiniteSet(mails')
      /\ \A m \in mails' : /\ m.age < Window
                            /\ \E n \in mails : m.reminder = n.reminder /\ m.age = n.age + 1
  <2> DEFINE older == {Older(n) : n \in mails}
  <2>1. IsFiniteSet(older)
    <3> DEFINE f == [n \in mails |-> Older(n)]
    <3>1. f \in Surjection(mails, older)
      BY DEF Surjection
    <3> QED BY <3>1, FS_Surjection DEF TypeOK
  <2>2. mails' = {m \in older : m.age < Window}
    BY DEF NextDay
  <2>3. IsFiniteSet(mails')
    BY <2>1, <2>2, FS_Subset
  <2> QED BY <1>2, <2>2, <2>3 DEF TypeOK
<1>5. /\ run' \in [Replicas -> Job \cup {Nothing}]
      /\ \A r \in Replicas :
           /\ run'[r] = Nothing <=> run[r] = Nothing
           /\ run[r] # Nothing => /\ run'[r].at = run[r].at
                                  /\ run'[r].current = run[r].current
                                  /\ run[r].sent \in Row => /\ run'[r].sent \in Row
                                                             /\ run'[r].sent.age = run[r].sent.age + 1
  <2>1. run' = [r \in Replicas |-> IF run[r] = Nothing THEN Nothing ELSE Overnight(run[r])]
    BY DEF NextDay
  <2>2. ASSUME NEW job \in Job
        PROVE  /\ Overnight(job) \in Job /\ Overnight(job) # Nothing
               /\ Overnight(job).at = job.at /\ Overnight(job).current = job.current
               /\ job.sent \in Row => Overnight(job).sent \in Row /\ Overnight(job).sent.age = job.sent.age + 1
    <3> DEFINE sent == IF job.sent = Nothing THEN Nothing ELSE Older(job.sent)
    <3>1. Overnight(job) = [job EXCEPT !.days = 1, !.sent = sent]
      BY DEF Overnight, Job
    <3>2. sent \in Row \cup {Nothing} /\ (job.sent \in Row => sent = Older(job.sent))
      BY <1>1 DEF Job
    <3> HIDE DEF sent
    <3>3. /\ Overnight(job) \in Job /\ Overnight(job).at = job.at
          /\ Overnight(job).current = job.current /\ Overnight(job).sent = sent
      BY <3>1, <3>2 DEF Job
    <3> QED BY <1>1, <3>2, <3>3
  <2>3. \A r \in Replicas : run[r] # Nothing => run[r] \in Job
    BY DEF TypeOK
  <2> QED BY <2>1, <2>2, <2>3
<1> QED BY <1>3, <1>4, <1>5 DEF NextDay

-----------------------------------------------------------------------------
(* Every step keeps the types. *)
LEMMA TypeOKStep == EmailInv /\ [Next]_vars => TypeOK'
<1> SUFFICES ASSUME EmailInv, [Next]_vars PROVE TypeOK'
  OBVIOUS
<1> USE DEF EmailInv, TypeOK, house, process, budget, At, Job, Row
<1>1. CASE UNCHANGED vars
  BY <1>1 DEF vars
<1>2. CASE NextDay
  <2>1. ran' \subseteq Replicas
    BY <1>2 DEF NextDay
  <2> QED BY <1>2, <2>1, DayPassed
<1>3. ASSUME NEW x \in Reminders, BecomesDue(x) PROVE TypeOK'
  BY <1>3 DEF BecomesDue
<1>4. ASSUME NEW x \in Reminders, PutOff(x) PROVE TypeOK'
  BY <1>4 DEF PutOff
<1>5. ASSUME NEW x \in Reminders, LogRecord(x) PROVE TypeOK'
  BY <1>5 DEF LogRecord
<1>6. ASSUME NEW r \in Replicas, TryLock(r) PROVE TypeOK'
  BY <1>6 DEF TryLock
<1>7. ASSUME NEW r \in Replicas, List(r) PROVE TypeOK'
  <2> DEFINE listed == {[reminder |-> x, cycle |-> cycle[x]] : x \in {y \in Reminders : due[y]}}
  <2>1. listed \in SUBSET Candidate
    BY DEF Candidate
  <2>2. run[r] \in Job
    BY <1>7, AtJob DEF List
  <2> HIDE DEF listed
  <2>3. run' = [run EXCEPT ![r].at = "next", ![r].todo = listed]
    BY <1>7 DEF List, listed
  <2>4. [run[r] EXCEPT !.at = "next", !.todo = listed] \in Job
    BY <2>1, <2>2
  <2>5. run' \in [Replicas -> Job \cup {Nothing}]
    BY <2>3, <2>4
  <2> QED BY <1>7, <2>5 DEF List
<1>8. ASSUME NEW r \in Replicas, Send(r) PROVE TypeOK'
  <2> DEFINE row == [age |-> 0, cycle |-> cycle[run[r].current.reminder]]
  <2>1. run[r] \in Job /\ run[r].current \in Candidate
    BY <1>8, AtJob DEF Send, RecordsNewest
  <2>2. mails' \subseteq Mail /\ IsFiniteSet(mails')
    BY <1>8, <2>1, DeliveredTyped DEF Send
  <2>3. row \in Row
    BY <2>1 DEF Candidate
  <2> HIDE DEF row
  <2>4. run' = [run EXCEPT ![r].at = "record", ![r].sent = row]
    BY <1>8 DEF Send, row
  <2>5. [run[r] EXCEPT !.at = "record", !.sent = row] \in Job
    <3> HIDE DEF Row
    <3> QED BY <2>1, <2>3
  <2>6. run' \in [Replicas -> Job \cup {Nothing}]
    BY <2>4, <2>5
  <2> QED BY <1>8, <2>2, <2>6 DEF Send
<1>9. ASSUME NEW r \in Replicas, Record(r) PROVE TypeOK'
  <2>1. run[r] \in Job /\ run[r].current \in Candidate /\ run[r].sent \in Row
    BY <1>9, AtJob DEF Record, RecordsNewest
  <2>2. run' \in [Replicas -> Job \cup {Nothing}]
    BY <1>9, <2>1, WithoutTyped DEF Record
  <2>3. notified' \in [Reminders -> Row \cup {Nothing}]
    BY <1>9, <2>1 DEF Record, Recorded, Candidate
  <2> QED BY <1>9, <2>2, <2>3 DEF Record
<1>10. ASSUME NEW r \in Replicas, Finish(r) PROVE TypeOK'
  BY <1>10 DEF Finish, End, Unlocked
<1>11. ASSUME NEW r \in Replicas, SendRejected(r) PROVE TypeOK'
  <2>1. run' \in [Replicas -> Job \cup {Nothing}]
    BY <1>11, AtJob, WithoutTyped DEF SendRejected, GoOn
  <2> QED BY <1>11, <2>1 DEF SendRejected, Setback
<1>12. ASSUME NEW r \in Replicas, SendReplyLost(r) PROVE TypeOK'
  <2>1. run[r] \in Job /\ run[r].current \in Candidate
    BY <1>12, AtJob DEF SendReplyLost, RecordsNewest
  <2>2. run' \in [Replicas -> Job \cup {Nothing}]
    BY <1>12, <2>1, WithoutTyped DEF SendReplyLost, GoOn
  <2>3. mails' \subseteq Mail /\ IsFiniteSet(mails')
    BY <1>12, <2>1, DeliveredTyped DEF SendReplyLost
  <2> QED BY <1>12, <2>2, <2>3 DEF SendReplyLost, Fault
<1>13. ASSUME NEW r \in Replicas, RecordFails(r) PROVE TypeOK'
  <2>1. run' \in [Replicas -> Job \cup {Nothing}]
    BY <1>13, AtJob, WithoutTyped DEF RecordFails
  <2> QED BY <1>13, <2>1 DEF RecordFails, Fault
<1>14. ASSUME NEW r \in Replicas, RunFails(r) PROVE TypeOK'
  BY <1>14 DEF RunFails, End, Unlocked, Setback
<1>15. ASSUME NEW r \in Replicas, SessionDropped(r) PROVE TypeOK'
  BY <1>15 DEF SessionDropped, Fault
<1>16. ASSUME NEW r \in Replicas, Stop(r) PROVE TypeOK'
  BY <1>16 DEF Stop, Setback
<1>17. ASSUME NEW r \in Replicas, CloseStore(r) PROVE TypeOK'
  BY <1>17 DEF CloseStore, SchedulersDone
<1>18. ASSUME NEW r \in Replicas, Exit(r) PROVE TypeOK'
  BY <1>18 DEF Exit
<1>19. ASSUME NEW r \in Replicas, ExitTimedOut(r) PROVE TypeOK'
  BY <1>19 DEF ExitTimedOut, Dies, End, Unlocked
<1>20. ASSUME NEW r \in Replicas, Crash(r) PROVE TypeOK'
  BY <1>20 DEF Crash, Dies, End, Unlocked, Fault
<1>21. ASSUME NEW r \in Replicas, Restart(r) PROVE TypeOK'
  BY <1>21 DEF Restart
<1>22. ASSUME NEW r \in Replicas, NEW c \in Candidates, Suppress(r, c) PROVE TypeOK'
  BY <1>22 DEF Suppress, Without
<1>23. ASSUME NEW r \in Replicas, NEW c \in Candidates, NotSuppressed(r, c) PROVE TypeOK'
  <2>1. run[r] \in Job /\ c \in Candidate
    BY <1>23, AtJob DEF NotSuppressed, Job
  <2>2. run' = [run EXCEPT ![r].at = "send", ![r].current = c]
    BY <1>23 DEF NotSuppressed
  <2>3. [run[r] EXCEPT !.at = "send", !.current = c] \in Job
    BY <2>1
  <2>4. run' \in [Replicas -> Job \cup {Nothing}]
    BY <2>2, <2>3
  <2> QED BY <1>23, <2>4 DEF NotSuppressed
<1>24. ASSUME NEW r \in Replicas, NEW c \in Candidates, CheckFails(r, c) PROVE TypeOK'
  BY <1>24 DEF CheckFails, Without, Setback
<1> QED
  BY <1>1, <1>2, <1>3, <1>4, <1>5, <1>6, <1>7, <1>8, <1>9, <1>10,
     <1>11, <1>12, <1>13, <1>14, <1>15, <1>16, <1>17, <1>18, <1>19, <1>20, <1>21, <1>22, <1>23, <1>24
     DEF Next, Step, Failure

(* The lock is lost under a run only by a fault. *)
LEMMA OneRunStep == EmailInv /\ [Next]_vars => OneRun'
<1> SUFFICES ASSUME EmailInv, [Next]_vars PROVE OneRun'
  OBVIOUS
<1> USE DEF EmailInv, TypeOK, house, process, budget, At, OneRun
<1>1. CASE UNCHANGED vars
  BY <1>1 DEF vars
<1>2. CASE NextDay
  BY <1>2 DEF NextDay, Older, Overnight
<1>3. ASSUME NEW x \in Reminders, BecomesDue(x) PROVE OneRun'
  BY <1>3 DEF BecomesDue
<1>4. ASSUME NEW x \in Reminders, PutOff(x) PROVE OneRun'
  BY <1>4 DEF PutOff
<1>5. ASSUME NEW x \in Reminders, LogRecord(x) PROVE OneRun'
  BY <1>5 DEF LogRecord
<1>6. ASSUME NEW r \in Replicas, TryLock(r) PROVE OneRun'
  BY <1>6 DEF TryLock
<1>7. ASSUME NEW r \in Replicas, List(r) PROVE OneRun'
  BY <1>7 DEF List
<1>8. ASSUME NEW r \in Replicas, Send(r) PROVE OneRun'
  BY <1>8 DEF Send, Delivered
<1>9. ASSUME NEW r \in Replicas, Record(r) PROVE OneRun'
  BY <1>9 DEF Record, Recorded, Without
<1>10. ASSUME NEW r \in Replicas, Finish(r) PROVE OneRun'
  BY <1>10 DEF Finish, End, Unlocked
<1>11. ASSUME NEW r \in Replicas, SendRejected(r) PROVE OneRun'
  BY <1>11 DEF SendRejected, GoOn, Without, Setback
<1>12. ASSUME NEW r \in Replicas, SendReplyLost(r) PROVE OneRun'
  BY <1>12 DEF SendReplyLost, GoOn, Without, Fault, Delivered
<1>13. ASSUME NEW r \in Replicas, RecordFails(r) PROVE OneRun'
  BY <1>13 DEF RecordFails, Without, Fault
<1>14. ASSUME NEW r \in Replicas, RunFails(r) PROVE OneRun'
  BY <1>14 DEF RunFails, End, Unlocked, Setback
<1>15. ASSUME NEW r \in Replicas, SessionDropped(r) PROVE OneRun'
  BY <1>15 DEF SessionDropped, Fault
<1>16. ASSUME NEW r \in Replicas, Stop(r) PROVE OneRun'
  BY <1>16 DEF Stop, Setback
<1>17. ASSUME NEW r \in Replicas, CloseStore(r) PROVE OneRun'
  BY <1>17 DEF CloseStore, SchedulersDone
<1>18. ASSUME NEW r \in Replicas, Exit(r) PROVE OneRun'
  BY <1>18 DEF Exit
<1>19. ASSUME NEW r \in Replicas, ExitTimedOut(r) PROVE OneRun'
  BY <1>19 DEF ExitTimedOut, Dies, End, Unlocked
<1>20. ASSUME NEW r \in Replicas, Crash(r) PROVE OneRun'
  BY <1>20 DEF Crash, Dies, End, Unlocked, Fault
<1>21. ASSUME NEW r \in Replicas, Restart(r) PROVE OneRun'
  BY <1>21 DEF Restart
<1>22. ASSUME NEW r \in Replicas, NEW c \in Candidates, Suppress(r, c) PROVE OneRun'
  BY <1>22 DEF Suppress, Without
<1>23. ASSUME NEW r \in Replicas, NEW c \in Candidates, NotSuppressed(r, c) PROVE OneRun'
  BY <1>23 DEF NotSuppressed
<1>24. ASSUME NEW r \in Replicas, NEW c \in Candidates, CheckFails(r, c) PROVE OneRun'
  BY <1>24 DEF CheckFails, Without, Setback
<1> QED
  BY <1>1, <1>2, <1>3, <1>4, <1>5, <1>6, <1>7, <1>8, <1>9, <1>10,
     <1>11, <1>12, <1>13, <1>14, <1>15, <1>16, <1>17, <1>18, <1>19, <1>20, <1>21, <1>22, <1>23, <1>24
     DEF Next, Step, Failure

(* A pool is closed only after the schedulers. *)
LEMMA PoolOpenStep == EmailInv /\ [Next]_vars => PoolOpen'
<1> SUFFICES ASSUME EmailInv, [Next]_vars PROVE PoolOpen'
  OBVIOUS
<1> USE DEF EmailInv, TypeOK, house, process, budget, At, PoolOpen
<1>1. CASE UNCHANGED vars
  BY <1>1 DEF vars
<1>2. CASE NextDay
  BY <1>2 DEF NextDay, Older, Overnight
<1>3. ASSUME NEW x \in Reminders, BecomesDue(x) PROVE PoolOpen'
  BY <1>3 DEF BecomesDue
<1>4. ASSUME NEW x \in Reminders, PutOff(x) PROVE PoolOpen'
  BY <1>4 DEF PutOff
<1>5. ASSUME NEW x \in Reminders, LogRecord(x) PROVE PoolOpen'
  BY <1>5 DEF LogRecord
<1>6. ASSUME NEW r \in Replicas, TryLock(r) PROVE PoolOpen'
  BY <1>6 DEF TryLock
<1>7. ASSUME NEW r \in Replicas, List(r) PROVE PoolOpen'
  BY <1>7 DEF List
<1>8. ASSUME NEW r \in Replicas, Send(r) PROVE PoolOpen'
  BY <1>8 DEF Send, Delivered
<1>9. ASSUME NEW r \in Replicas, Record(r) PROVE PoolOpen'
  BY <1>9 DEF Record, Recorded, Without
<1>10. ASSUME NEW r \in Replicas, Finish(r) PROVE PoolOpen'
  BY <1>10 DEF Finish, End, Unlocked
<1>11. ASSUME NEW r \in Replicas, SendRejected(r) PROVE PoolOpen'
  BY <1>11 DEF SendRejected, GoOn, Without, Setback
<1>12. ASSUME NEW r \in Replicas, SendReplyLost(r) PROVE PoolOpen'
  BY <1>12 DEF SendReplyLost, GoOn, Without, Fault, Delivered
<1>13. ASSUME NEW r \in Replicas, RecordFails(r) PROVE PoolOpen'
  BY <1>13 DEF RecordFails, Without, Fault
<1>14. ASSUME NEW r \in Replicas, RunFails(r) PROVE PoolOpen'
  BY <1>14 DEF RunFails, End, Unlocked, Setback
<1>15. ASSUME NEW r \in Replicas, SessionDropped(r) PROVE PoolOpen'
  BY <1>15 DEF SessionDropped, Fault
<1>16. ASSUME NEW r \in Replicas, Stop(r) PROVE PoolOpen'
  BY <1>16 DEF Stop, Setback
<1>17. ASSUME NEW r \in Replicas, CloseStore(r) PROVE PoolOpen'
  BY <1>17 DEF CloseStore, SchedulersDone
<1>18. ASSUME NEW r \in Replicas, Exit(r) PROVE PoolOpen'
  BY <1>18 DEF Exit
<1>19. ASSUME NEW r \in Replicas, ExitTimedOut(r) PROVE PoolOpen'
  BY <1>19 DEF ExitTimedOut, Dies, End, Unlocked
<1>20. ASSUME NEW r \in Replicas, Crash(r) PROVE PoolOpen'
  BY <1>20 DEF Crash, Dies, End, Unlocked, Fault
<1>21. ASSUME NEW r \in Replicas, Restart(r) PROVE PoolOpen'
  BY <1>21 DEF Restart
<1>22. ASSUME NEW r \in Replicas, NEW c \in Candidates, Suppress(r, c) PROVE PoolOpen'
  BY <1>22 DEF Suppress, Without
<1>23. ASSUME NEW r \in Replicas, NEW c \in Candidates, NotSuppressed(r, c) PROVE PoolOpen'
  BY <1>23 DEF NotSuppressed
<1>24. ASSUME NEW r \in Replicas, NEW c \in Candidates, CheckFails(r, c) PROVE PoolOpen'
  BY <1>24 DEF CheckFails, Without, Setback
<1> QED
  BY <1>1, <1>2, <1>3, <1>4, <1>5, <1>6, <1>7, <1>8, <1>9, <1>10,
     <1>11, <1>12, <1>13, <1>14, <1>15, <1>16, <1>17, <1>18, <1>19, <1>20, <1>21, <1>22, <1>23, <1>24
     DEF Next, Step, Failure

(* While a run records, no other run sends. *)
LEMMA RecordsNewestStep == EmailInv /\ [Next]_vars => RecordsNewest'
<1> SUFFICES ASSUME EmailInv, [Next]_vars PROVE RecordsNewest'
  OBVIOUS
<1> USE DEF EmailInv, TypeOK, house, process, budget, At, RecordsNewest, OneRun, Job, Row, Mail
<1>1. CASE UNCHANGED vars
  BY <1>1 DEF vars
<1>2. CASE NextDay
  <2>1. \A r \in Replicas, step \in {"send", "record"} : At(r, step)' <=> At(r, step)
    BY <1>2, DayPassed
  <2>2. \A r \in Replicas : At(r, "send")' \/ At(r, "record")' => run'[r].current \in Candidate
    BY <1>2, DayPassed
  <2>3. \A r \in Replicas : At(r, "record")' => /\ run'[r].sent \in Row
                                                /\ run'[r].sent.age = run[r].sent.age + 1
                                                /\ run'[r].current = run[r].current
    BY <1>2, DayPassed
  <2>4. \A m \in mails' : \E n \in mails : m.reminder = n.reminder /\ m.age = n.age + 1
    BY <1>2, DayPassed
  <2>5. faults' = faults
    BY <1>2 DEF NextDay
  <2>6. \A n \in mails : n.age \in Nat
    OBVIOUS
  <2>7. \A r \in Replicas : At(r, "record") => run[r].sent.age \in Nat
    OBVIOUS
  <2> HIDE DEF At
  <2>8. ASSUME NEW r \in Replicas, At(r, "record")', faults' = 0, NEW m \in mails',
               m.reminder = run'[r].current.reminder
        PROVE  run'[r].sent.age <= m.age
    <3>1. PICK n \in mails : m.reminder = n.reminder /\ m.age = n.age + 1
      BY <2>4
    <3>2. At(r, "record") /\ faults = 0
      BY <2>1, <2>5, <2>8
    <3>3. run[r].sent.age <= n.age
      BY <2>3, <2>8, <3>1, <3>2
    <3> QED BY <2>3, <2>6, <2>7, <2>8, <3>1, <3>2, <3>3
  <2> QED BY <2>2, <2>3, <2>8
<1>3. ASSUME NEW x \in Reminders, BecomesDue(x) PROVE RecordsNewest'
  BY <1>3 DEF BecomesDue
<1>4. ASSUME NEW x \in Reminders, PutOff(x) PROVE RecordsNewest'
  BY <1>4 DEF PutOff
<1>5. ASSUME NEW x \in Reminders, LogRecord(x) PROVE RecordsNewest'
  BY <1>5 DEF LogRecord
<1>6. ASSUME NEW r \in Replicas, TryLock(r) PROVE RecordsNewest'
  BY <1>6 DEF TryLock
<1>7. ASSUME NEW r \in Replicas, List(r) PROVE RecordsNewest'
  BY <1>7 DEF List
<1>8. ASSUME NEW r \in Replicas, Send(r) PROVE RecordsNewest'
  <2>1. run[r] \in Job /\ run[r].current \in Candidate
    BY <1>8, AtJob DEF Send
  <2>2. /\ run' = [run EXCEPT ![r] = run'[r]]
        /\ run'[r].at = "record" /\ run'[r].current = run[r].current
        /\ run'[r].sent = [age |-> 0, cycle |-> cycle[run[r].current.reminder]]
    BY <1>8, <2>1 DEF Send
  <2>3. cycle[run[r].current.reminder] \in Nat
    BY <2>1 DEF Candidate
  <2>4. mails' \subseteq Mail
    BY <1>8, <2>1, DeliveredTyped DEF Send
  <2>5. \A m \in mails' : 0 <= m.age
    BY <2>4
  <2>6. run'[r].sent \in Row /\ run'[r].sent.age = 0
    BY <2>2, <2>3
  <2>7. ASSUME NEW s \in Replicas \ {r}, At(s, "record"), faults = 0 PROVE FALSE
    BY <1>8, <2>7 DEF Send
  <2>8. faults' = faults
    BY <1>8 DEF Send
  <2>9. \A s \in Replicas \ {r} : run'[s] = run[s]
    BY <2>2
  <2> QED BY <2>1, <2>2, <2>5, <2>6, <2>7, <2>8, <2>9
<1>9. ASSUME NEW r \in Replicas, Record(r) PROVE RecordsNewest'
  BY <1>9 DEF Record, Recorded, Without
<1>10. ASSUME NEW r \in Replicas, Finish(r) PROVE RecordsNewest'
  BY <1>10 DEF Finish, End, Unlocked
<1>11. ASSUME NEW r \in Replicas, SendRejected(r) PROVE RecordsNewest'
  BY <1>11 DEF SendRejected, GoOn, Without, Setback
<1>12. ASSUME NEW r \in Replicas, SendReplyLost(r) PROVE RecordsNewest'
  <2>1. faults' # 0
    BY <1>12 DEF SendReplyLost, Fault
  <2>2. \A q \in Replicas \ {r} : run'[q] = run[q]
    BY <1>12 DEF SendReplyLost, GoOn, Without
  <2>3. run'[r].at = "next"
    BY <1>12 DEF SendReplyLost, GoOn, Without
  <2> QED BY <2>1, <2>2, <2>3
<1>13. ASSUME NEW r \in Replicas, RecordFails(r) PROVE RecordsNewest'
  BY <1>13 DEF RecordFails, Without, Fault
<1>14. ASSUME NEW r \in Replicas, RunFails(r) PROVE RecordsNewest'
  BY <1>14 DEF RunFails, End, Unlocked, Setback
<1>15. ASSUME NEW r \in Replicas, SessionDropped(r) PROVE RecordsNewest'
  BY <1>15 DEF SessionDropped, Fault
<1>16. ASSUME NEW r \in Replicas, Stop(r) PROVE RecordsNewest'
  BY <1>16 DEF Stop, Setback
<1>17. ASSUME NEW r \in Replicas, CloseStore(r) PROVE RecordsNewest'
  BY <1>17 DEF CloseStore, SchedulersDone
<1>18. ASSUME NEW r \in Replicas, Exit(r) PROVE RecordsNewest'
  BY <1>18 DEF Exit
<1>19. ASSUME NEW r \in Replicas, ExitTimedOut(r) PROVE RecordsNewest'
  BY <1>19 DEF ExitTimedOut, Dies, End, Unlocked
<1>20. ASSUME NEW r \in Replicas, Crash(r) PROVE RecordsNewest'
  BY <1>20 DEF Crash, Dies, End, Unlocked, Fault
<1>21. ASSUME NEW r \in Replicas, Restart(r) PROVE RecordsNewest'
  BY <1>21 DEF Restart
<1>22. ASSUME NEW r \in Replicas, NEW c \in Candidates, Suppress(r, c) PROVE RecordsNewest'
  BY <1>22 DEF Suppress, Without
<1>23. ASSUME NEW r \in Replicas, NEW c \in Candidates, NotSuppressed(r, c) PROVE RecordsNewest'
  BY <1>23 DEF NotSuppressed
<1>24. ASSUME NEW r \in Replicas, NEW c \in Candidates, CheckFails(r, c) PROVE RecordsNewest'
  BY <1>24 DEF CheckFails, Without, Setback
<1> QED
  BY <1>1, <1>2, <1>3, <1>4, <1>5, <1>6, <1>7, <1>8, <1>9, <1>10,
     <1>11, <1>12, <1>13, <1>14, <1>15, <1>16, <1>17, <1>18, <1>19, <1>20, <1>21, <1>22, <1>23, <1>24
     DEF Next, Step, Failure

(* A record is not lost: its run is not ended and its pool not closed. *)
LEMMA AcceptedIsRecordedStep == EmailInv /\ [Next]_vars => AcceptedIsRecorded'
<1> SUFFICES ASSUME EmailInv, [Next]_vars PROVE AcceptedIsRecorded'
  OBVIOUS
<1> USE DEF EmailInv, TypeOK, house, process, budget, At,
            AcceptedIsRecorded, PoolOpen, OneRun, RecordsNewest, Job, Row, Mail
<1>1. CASE UNCHANGED vars
  BY <1>1 DEF vars
<1>2. CASE NextDay
  <2> SUFFICES ASSUME faults' = 0, NEW m \in mails'
               PROVE  \/ notified'[m.reminder] # Nothing /\ notified'[m.reminder].age <= m.age
                      \/ \E r \in Replicas : /\ At(r, "record")'
                                            /\ run'[r].current.reminder = m.reminder
                                            /\ run'[r].sent.age = m.age
    OBVIOUS
  <2>1. PICK n \in mails : m.reminder = n.reminder /\ m.age = n.age + 1 /\ m.age < Window
    BY <1>2, DayPassed
  <2>2. faults = 0 /\ n.age \in Nat /\ n.reminder \in Reminders
    BY <1>2 DEF NextDay
  <2>3. CASE notified[n.reminder] # Nothing /\ notified[n.reminder].age <= n.age
    <3>1. notified[n.reminder].age \in Nat /\ notified[n.reminder].age <= Window
      BY <2>1, <2>2, <2>3
    <3>2. notified'[n.reminder] # Nothing /\ notified'[n.reminder].age = notified[n.reminder].age + 1
      BY <1>2, <2>2, <2>3, <3>1, DayPassed
    <3> QED BY <2>1, <2>2, <2>3, <3>1, <3>2
  <2>4. CASE \E r \in Replicas : /\ At(r, "record")
                                /\ run[r].current.reminder = n.reminder /\ run[r].sent.age = n.age
    <3>1. PICK r \in Replicas : /\ At(r, "record")
                                /\ run[r].current.reminder = n.reminder /\ run[r].sent.age = n.age
      BY <2>4
    <3>2. /\ run'[r] # Nothing /\ run'[r].at = "record" /\ run'[r].current = run[r].current
          /\ run'[r].sent.age = run[r].sent.age + 1
      BY <1>2, <3>1, DayPassed
    <3> QED BY <2>1, <3>1, <3>2
  <2> QED BY <2>2, <2>3, <2>4
<1>3. ASSUME NEW x \in Reminders, BecomesDue(x) PROVE AcceptedIsRecorded'
  BY <1>3 DEF BecomesDue
<1>4. ASSUME NEW x \in Reminders, PutOff(x) PROVE AcceptedIsRecorded'
  BY <1>4 DEF PutOff
<1>5. ASSUME NEW x \in Reminders, LogRecord(x) PROVE AcceptedIsRecorded'
  BY <1>5 DEF LogRecord
<1>6. ASSUME NEW r \in Replicas, TryLock(r) PROVE AcceptedIsRecorded'
  BY <1>6 DEF TryLock
<1>7. ASSUME NEW r \in Replicas, List(r) PROVE AcceptedIsRecorded'
  BY <1>7 DEF List
<1>8. ASSUME NEW r \in Replicas, Send(r) PROVE AcceptedIsRecorded'
  <2>1. run[r] \in Job /\ run[r].current \in Candidate
    BY <1>8, AtJob DEF Send
  <2>2. /\ run'[r] = [run[r] EXCEPT !.at = "record",
                                    !.sent = [age |-> 0, cycle |-> cycle[run[r].current.reminder]]]
        /\ \A q \in Replicas \ {r} : run'[q] = run[q]
    BY <1>8 DEF Send
  <2>3. [age |-> 0, cycle |-> cycle[run[r].current.reminder]] \in Row
    <3>1. run[r].current.reminder \in Reminders
      BY <2>1 DEF Candidate
    <3>2. cycle[run[r].current.reminder] \in Nat
      BY <3>1
    <3> QED BY <3>2
  <2>4. run'[r] \in Job /\ run'[r].at = "record" /\ run'[r].current = run[r].current /\ run'[r].sent.age = 0
    <3> DEFINE sent == [age |-> 0, cycle |-> cycle[run[r].current.reminder]]
    <3>1. sent \in Row /\ sent.age = 0
      BY <2>3
    <3>2. run'[r] = [run[r] EXCEPT !.at = "record", !.sent = sent]
      BY <2>2
    <3> HIDE DEF sent, Row
    <3> QED BY <2>1, <3>1, <3>2
  <2>5. run'[r] # Nothing
    BY <2>4
  <2>6. /\ notified' = notified /\ faults' = faults
        /\ \A m \in mails' : m \in mails \/ (m.reminder = run[r].current.reminder /\ m.age = 0)
    BY <1>8 DEF Send, Delivered
  <2>7. \A q \in Replicas : At(q, "record") => At(q, "record")' /\ run'[q] = run[q]
    BY <1>8, <2>2 DEF Send
  <2>8. ASSUME faults' = 0, NEW m \in mails'
        PROVE  \/ notified'[m.reminder] # Nothing /\ notified'[m.reminder].age <= m.age
               \/ \E q \in Replicas : /\ At(q, "record")'
                                     /\ run'[q].current.reminder = m.reminder
                                     /\ run'[q].sent.age = m.age
    <3>1. CASE m \in mails
      <4> HIDE DEF At
      <4> QED BY <2>6, <2>7, <2>8, <3>1
    <3>2. CASE m.reminder = run[r].current.reminder /\ m.age = 0
      BY <2>4, <2>5, <3>2
    <3> QED BY <2>6, <3>1, <3>2
  <2> QED BY <2>8
<1>9. ASSUME NEW r \in Replicas, Record(r) PROVE AcceptedIsRecorded'
  BY <1>9 DEF Record, Recorded, Without
<1>10. ASSUME NEW r \in Replicas, Finish(r) PROVE AcceptedIsRecorded'
  BY <1>10 DEF Finish, End, Unlocked
<1>11. ASSUME NEW r \in Replicas, SendRejected(r) PROVE AcceptedIsRecorded'
  BY <1>11 DEF SendRejected, GoOn, Without, Setback
<1>12. ASSUME NEW r \in Replicas, SendReplyLost(r) PROVE AcceptedIsRecorded'
  BY <1>12 DEF SendReplyLost, GoOn, Without, Fault, Delivered
<1>13. ASSUME NEW r \in Replicas, RecordFails(r) PROVE AcceptedIsRecorded'
  BY <1>13 DEF RecordFails, Without, Fault
<1>14. ASSUME NEW r \in Replicas, RunFails(r) PROVE AcceptedIsRecorded'
  BY <1>14 DEF RunFails, End, Unlocked, Setback
<1>15. ASSUME NEW r \in Replicas, SessionDropped(r) PROVE AcceptedIsRecorded'
  BY <1>15 DEF SessionDropped, Fault
<1>16. ASSUME NEW r \in Replicas, Stop(r) PROVE AcceptedIsRecorded'
  BY <1>16 DEF Stop, Setback
<1>17. ASSUME NEW r \in Replicas, CloseStore(r) PROVE AcceptedIsRecorded'
  BY <1>17 DEF CloseStore, SchedulersDone
<1>18. ASSUME NEW r \in Replicas, Exit(r) PROVE AcceptedIsRecorded'
  BY <1>18 DEF Exit
<1>19. ASSUME NEW r \in Replicas, ExitTimedOut(r) PROVE AcceptedIsRecorded'
  BY <1>19 DEF ExitTimedOut, Dies, End, Unlocked
<1>20. ASSUME NEW r \in Replicas, Crash(r) PROVE AcceptedIsRecorded'
  BY <1>20 DEF Crash, Dies, End, Unlocked, Fault
<1>21. ASSUME NEW r \in Replicas, Restart(r) PROVE AcceptedIsRecorded'
  BY <1>21 DEF Restart
<1>22. ASSUME NEW r \in Replicas, NEW c \in Candidates, Suppress(r, c) PROVE AcceptedIsRecorded'
  BY <1>22 DEF Suppress, Without
<1>23. ASSUME NEW r \in Replicas, NEW c \in Candidates, NotSuppressed(r, c) PROVE AcceptedIsRecorded'
  BY <1>23 DEF NotSuppressed
<1>24. ASSUME NEW r \in Replicas, NEW c \in Candidates, CheckFails(r, c) PROVE AcceptedIsRecorded'
  BY <1>24 DEF CheckFails, Without, Setback
<1> QED
  BY <1>1, <1>2, <1>3, <1>4, <1>5, <1>6, <1>7, <1>8, <1>9, <1>10,
     <1>11, <1>12, <1>13, <1>14, <1>15, <1>16, <1>17, <1>18, <1>19, <1>20, <1>21, <1>22, <1>23, <1>24
     DEF Next, Step, Failure

-----------------------------------------------------------------------------
(* The invariant holds: as long as the lock keeps the runs apart, what a    *)
(* run has sent is recorded before another run sends.                       *)
THEOREM EmailInvariant == Spec => []EmailInv
<1>1. Init => EmailInv
  <2>1. IsFiniteSet({})
    BY FS_EmptySet
  <2> QED BY <2>1 DEF Init, EmailInv, TypeOK, OneRun, PoolOpen, RecordsNewest, AcceptedIsRecorded, At
<1>2. EmailInv /\ [Next]_vars => EmailInv'
  BY TypeOKStep, OneRunStep, PoolOpenStep, RecordsNewestStep, AcceptedIsRecordedStep DEF EmailInv
<1> QED BY <1>1, <1>2, PTL DEF Spec

(* Every variable keeps its type. *)
THEOREM EmailTyped == Spec => []TypeOK
<1>1. EmailInv => TypeOK
  BY DEF EmailInv
<1> QED BY <1>1, EmailInvariant, PTL

(* Until there is a fault, every accepted email is recorded or about to be, *)
(* though its process was told to stop in between (WithoutCancel,           *)
(* closeStoreAfterSchedulers).                                              *)
THEOREM SentIsKnown == Spec => []AcceptedIsRecorded
<1>1. EmailInv => AcceptedIsRecorded
  BY DEF EmailInv
<1> QED BY <1>1, EmailInvariant, PTL

-----------------------------------------------------------------------------
(* What a duplicate costs.  The inductive invariant behind                  *)
(* DuplicatesCostFaults follows, for each cycle of a reminder, the emails   *)
(* that are out and the runs that may still send one.                       *)

MailsOf(c) == {m \in mails : m.reminder = c.reminder /\ m.cycle = c.cycle}

Pending(x) == {r \in Replicas : At(r, "record") /\ run[r].current.reminder = x}

(* The rows that suppress the next email of a reminder, or soon will: the   *)
(* newest one, and the one that the lock's owner is about to record.        *)
RowsOf(x)   == ({notified[x]} \ {Nothing}) \cup {run[r].sent : r \in Pending(x)}
GuardsOf(x) == ({notified[x]} \ {Nothing}) \cup {run[r].sent : r \in {s \in Pending(x) : lock = s}}

Covers(row, m) == row.cycle >= m.cycle /\ row.age <= m.age

(* Emails that outlast the rows which suppress the next one. *)
Exposed(c) == {m \in MailsOf(c) : \A row \in GuardsOf(c.reminder) : ~Covers(row, m)}

(* Runs that have lost the lock and may still send one. *)
MayMail(r, c) ==
  \/ At(r, "list")
  \/ (At(r, "next") \/ At(r, "send")) /\ c \in run[r].todo
  \/ At(r, "record") /\ c \in run[r].todo \ {run[r].current}

Strays(c) == {r \in Replicas : lock # r /\ MayMail(r, c)}

(* The lock's owner is about to send one. *)
InHand(c) == IF \E r \in Replicas : lock = r /\ At(r, "send") /\ run[r].current = c THEN 1 ELSE 0

(* Each candidate is listed once, with a cycle that has begun; what is sent *)
(* is recorded in the cycle it was listed in or a later one; and of two     *)
(* rows of a reminder the newer one is of the later cycle.                  *)
ListedOnce ==
  \A r \in Replicas : run[r] # Nothing =>
    /\ \A c, d \in run[r].todo : c.reminder = d.reminder => c = d
    /\ \A c \in run[r].todo : c.cycle <= cycle[c.reminder]

CurrentListed ==
  \A r \in Replicas :
    /\ At(r, "send") \/ At(r, "record") => run[r].current \in run[r].todo
    /\ At(r, "record") => run[r].sent.cycle >= run[r].current.cycle

RowsOrdered ==
  \A x \in Reminders : \A row \in RowsOf(x) :
    /\ row.cycle <= cycle[x]
    /\ \A other \in RowsOf(x) : row.age < other.age => row.cycle >= other.cycle

(* Emails older than the window are forgotten. *)
MailsRecent == \A m \in mails : m.age < Window

Orderly == ListedOnce /\ CurrentListed /\ RowsOrdered /\ MailsRecent

(* Every email that nothing suppresses and every stray run has its fault;   *)
(* and so has every email but one, also the one that is about to be sent.   *)
PricedFor(c) ==
  /\ IsFiniteSet(Strays(c))
  /\ Cardinality(Exposed(c)) + Cardinality(Strays(c)) <= faults
  /\ Cardinality(MailsOf(c)) + Cardinality(Strays(c)) + InHand(c) <= 1 + faults

Priced == \A c \in Candidate : PricedFor(c)

-----------------------------------------------------------------------------
LEMMA Fewer ==
  ASSUME NEW S, IsFiniteSet(S), NEW T, T \subseteq S
  PROVE  /\ IsFiniteSet(T) /\ Cardinality(T) \in Nat /\ Cardinality(S) \in Nat
         /\ Cardinality(T) <= Cardinality(S)
  BY FS_Subset, FS_CardinalityType

LEMMA OneMore ==
  ASSUME NEW S, IsFiniteSet(S), NEW x, NEW T, T \subseteq S \cup {x}
  PROVE  /\ IsFiniteSet(T) /\ Cardinality(T) \in Nat /\ Cardinality(S) \in Nat
         /\ Cardinality(T) <= Cardinality(S) + 1
<1>1. IsFiniteSet(S \cup {x}) /\ Cardinality(S \cup {x}) <= Cardinality(S) + 1
  <2>1. Cardinality(S) \in Nat
    BY FS_CardinalityType
  <2>2. /\ IsFiniteSet(S \cup {x})
        /\ Cardinality(S \cup {x}) = IF x \in S THEN Cardinality(S) ELSE Cardinality(S) + 1
    BY FS_AddElement
  <2>3. CASE x \in S
    BY <2>1, <2>2, <2>3
  <2>4. CASE x \notin S
    BY <2>1, <2>2, <2>4
  <2> QED BY <2>3, <2>4
<1>2. IsFiniteSet(T) /\ Cardinality(T) <= Cardinality(S \cup {x})
  BY <1>1, FS_Subset
<1> QED BY <1>1, <1>2, FS_CardinalityType

LEMMA MailsFinite ==
  ASSUME TypeOK, NEW c
  PROVE  IsFiniteSet(MailsOf(c)) /\ IsFiniteSet(Exposed(c)) /\ InHand(c) \in {0, 1}
<1>1. MailsOf(c) \subseteq mails /\ Exposed(c) \subseteq mails
  BY DEF MailsOf, Exposed
<1> QED BY <1>1, Fewer DEF TypeOK, InHand

(* A step that sends nothing, loses no row and strays no run. *)
LEMMA PriceKept ==
  ASSUME TypeOK, TypeOK', NEW c \in Candidate, PricedFor(c),
         MailsOf(c)' \subseteq MailsOf(c), Exposed(c)' \subseteq Exposed(c),
         Strays(c)' \subseteq Strays(c), InHand(c)' <= InHand(c), faults' >= faults
  PROVE  PricedFor(c)'
<1>1. IsFiniteSet(MailsOf(c)) /\ IsFiniteSet(Exposed(c)) /\ InHand(c) \in {0, 1}
  BY MailsFinite
<1>2. InHand(c)' \in {0, 1}
  BY DEF InHand
<1>3. Cardinality(MailsOf(c)') <= Cardinality(MailsOf(c))
      /\ Cardinality(MailsOf(c)') \in Nat /\ Cardinality(MailsOf(c)) \in Nat
  BY <1>1, Fewer
<1>4. Cardinality(Exposed(c)') <= Cardinality(Exposed(c))
      /\ Cardinality(Exposed(c)') \in Nat /\ Cardinality(Exposed(c)) \in Nat
  BY <1>1, Fewer
<1>5. Cardinality(Strays(c)') <= Cardinality(Strays(c)) /\ IsFiniteSet(Strays(c)')
      /\ Cardinality(Strays(c)') \in Nat /\ Cardinality(Strays(c)) \in Nat
  BY Fewer DEF PricedFor
<1>6. faults \in Nat /\ faults' \in Nat
  BY DEF TypeOK
<1> QED BY <1>1, <1>2, <1>3, <1>4, <1>5, <1>6 DEF PricedFor

(* A fault pays for one email or one stray, or for a row that is lost. *)
LEMMA FaultPays ==
  ASSUME TypeOK, TypeOK', NEW c \in Candidate, PricedFor(c), NEW m, NEW r,
         InHand(c)' <= InHand(c), faults' = faults + 1,
         \/ MailsOf(c)' \subseteq MailsOf(c) /\ Strays(c)' \subseteq Strays(c)
         \/ /\ MailsOf(c)' \subseteq MailsOf(c) /\ Exposed(c)' \subseteq Exposed(c)
            /\ Strays(c)' \subseteq Strays(c) \cup {r}
         \/ /\ MailsOf(c)' \subseteq MailsOf(c) \cup {m}
            /\ Exposed(c)' \subseteq Exposed(c) \cup {m}
            /\ Strays(c)' \subseteq Strays(c)
  PROVE  PricedFor(c)'
<1>1. IsFiniteSet(MailsOf(c)) /\ IsFiniteSet(Exposed(c)) /\ InHand(c) \in {0, 1}
  BY MailsFinite
<1>2. InHand(c)' \in {0, 1}
  BY DEF InHand
<1>3. faults \in Nat /\ faults' \in Nat
  BY DEF TypeOK
<1>4. CASE MailsOf(c)' \subseteq MailsOf(c) /\ Strays(c)' \subseteq Strays(c)
  <2>1. Exposed(c)' \subseteq MailsOf(c)
    BY <1>4 DEF Exposed
  <2>2. Cardinality(MailsOf(c)') <= Cardinality(MailsOf(c))
        /\ Cardinality(MailsOf(c)') \in Nat /\ Cardinality(MailsOf(c)) \in Nat
    BY <1>1, <1>4, Fewer
  <2>3. Cardinality(Exposed(c)') <= Cardinality(MailsOf(c)) /\ Cardinality(Exposed(c)') \in Nat
    BY <1>1, <2>1, Fewer
  <2>4. Cardinality(Strays(c)') <= Cardinality(Strays(c)) /\ IsFiniteSet(Strays(c)')
        /\ Cardinality(Strays(c)') \in Nat /\ Cardinality(Strays(c)) \in Nat
    BY <1>4, Fewer DEF PricedFor
  <2> QED BY <1>1, <1>2, <1>3, <2>2, <2>3, <2>4 DEF PricedFor
<1>5. CASE /\ MailsOf(c)' \subseteq MailsOf(c) /\ Exposed(c)' \subseteq Exposed(c)
           /\ Strays(c)' \subseteq Strays(c) \cup {r}
  <2>1. Cardinality(MailsOf(c)') <= Cardinality(MailsOf(c))
        /\ Cardinality(MailsOf(c)') \in Nat /\ Cardinality(MailsOf(c)) \in Nat
    BY <1>1, <1>5, Fewer
  <2>2. Cardinality(Exposed(c)') <= Cardinality(Exposed(c))
        /\ Cardinality(Exposed(c)') \in Nat /\ Cardinality(Exposed(c)) \in Nat
    BY <1>1, <1>5, Fewer
  <2>3. Cardinality(Strays(c)') <= Cardinality(Strays(c)) + 1 /\ IsFiniteSet(Strays(c)')
        /\ Cardinality(Strays(c)') \in Nat /\ Cardinality(Strays(c)) \in Nat
    BY <1>5, OneMore DEF PricedFor
  <2> QED BY <1>1, <1>2, <1>3, <2>1, <2>2, <2>3 DEF PricedFor
<1>6. CASE /\ MailsOf(c)' \subseteq MailsOf(c) \cup {m}
           /\ Exposed(c)' \subseteq Exposed(c) \cup {m}
           /\ Strays(c)' \subseteq Strays(c)
  <2>1. Cardinality(MailsOf(c)') <= Cardinality(MailsOf(c)) + 1
        /\ Cardinality(MailsOf(c)') \in Nat /\ Cardinality(MailsOf(c)) \in Nat
    BY <1>1, <1>6, OneMore
  <2>2. Cardinality(Exposed(c)') <= Cardinality(Exposed(c)) + 1
        /\ Cardinality(Exposed(c)') \in Nat /\ Cardinality(Exposed(c)) \in Nat
    BY <1>1, <1>6, OneMore
  <2>3. Cardinality(Strays(c)') <= Cardinality(Strays(c)) /\ IsFiniteSet(Strays(c)')
        /\ Cardinality(Strays(c)') \in Nat /\ Cardinality(Strays(c)) \in Nat
    BY <1>6, Fewer DEF PricedFor
  <2> QED BY <1>1, <1>2, <1>3, <2>1, <2>2, <2>3 DEF PricedFor
<1> QED BY <1>4, <1>5, <1>6

(* The owner's email was in hand and is guarded by its row; a stray's email *)
(* takes the stray's place.                                                 *)
LEMMA SendPaid ==
  ASSUME TypeOK, TypeOK', NEW c \in Candidate, PricedFor(c), NEW m, NEW r,
         MailsOf(c)' \subseteq MailsOf(c) \cup {m}, faults' = faults,
         \/ /\ InHand(c) = 1 /\ InHand(c)' = 0
            /\ Exposed(c)' \subseteq Exposed(c) /\ Strays(c)' \subseteq Strays(c)
         \/ /\ InHand(c)' <= InHand(c)
            /\ Exposed(c)' \subseteq Exposed(c) \cup {m}
            /\ r \in Strays(c) /\ Strays(c)' \subseteq Strays(c) \ {r}
  PROVE  PricedFor(c)'
<1>1. IsFiniteSet(MailsOf(c)) /\ IsFiniteSet(Exposed(c)) /\ InHand(c) \in {0, 1}
  BY MailsFinite
<1>2. InHand(c)' \in {0, 1}
  BY DEF InHand
<1>3. faults \in Nat
  BY DEF TypeOK
<1>4. Cardinality(MailsOf(c)') <= Cardinality(MailsOf(c)) + 1
      /\ Cardinality(MailsOf(c)') \in Nat /\ Cardinality(MailsOf(c)) \in Nat
  BY <1>1, OneMore
<1>5. CASE /\ InHand(c) = 1 /\ InHand(c)' = 0
           /\ Exposed(c)' \subseteq Exposed(c) /\ Strays(c)' \subseteq Strays(c)
  <2>1. Cardinality(Exposed(c)') <= Cardinality(Exposed(c))
        /\ Cardinality(Exposed(c)') \in Nat /\ Cardinality(Exposed(c)) \in Nat
    BY <1>1, <1>5, Fewer
  <2>2. Cardinality(Strays(c)') <= Cardinality(Strays(c)) /\ IsFiniteSet(Strays(c)')
        /\ Cardinality(Strays(c)') \in Nat /\ Cardinality(Strays(c)) \in Nat
    BY <1>5, Fewer DEF PricedFor
  <2> QED BY <1>3, <1>4, <1>5, <2>1, <2>2 DEF PricedFor
<1>6. CASE /\ InHand(c)' <= InHand(c)
           /\ Exposed(c)' \subseteq Exposed(c) \cup {m}
           /\ r \in Strays(c) /\ Strays(c)' \subseteq Strays(c) \ {r}
  <2>1. Cardinality(Exposed(c)') <= Cardinality(Exposed(c)) + 1
        /\ Cardinality(Exposed(c)') \in Nat /\ Cardinality(Exposed(c)) \in Nat
    BY <1>1, <1>6, OneMore
  <2>2. IsFiniteSet(Strays(c) \ {r}) /\ Cardinality(Strays(c) \ {r}) = Cardinality(Strays(c)) - 1
    BY <1>6, FS_RemoveElement DEF PricedFor
  <2>3. Cardinality(Strays(c)') <= Cardinality(Strays(c)) - 1 /\ IsFiniteSet(Strays(c)')
        /\ Cardinality(Strays(c)') \in Nat /\ Cardinality(Strays(c)) \in Nat
    BY <1>6, <2>2, Fewer, FS_CardinalityType DEF PricedFor
  <2> QED BY <1>1, <1>2, <1>3, <1>4, <1>6, <2>1, <2>3 DEF PricedFor
<1> QED BY <1>5, <1>6

(* The owner may only decide to send when no row suppresses it. *)
LEMMA DecisionPaid ==
  ASSUME TypeOK, TypeOK', NEW c \in Candidate, PricedFor(c),
         Exposed(c) = MailsOf(c), MailsOf(c)' \subseteq MailsOf(c),
         Strays(c)' \subseteq Strays(c), InHand(c) = 0, faults' = faults,
         Exposed(c)' \subseteq Exposed(c)
  PROVE  PricedFor(c)'
<1>1. IsFiniteSet(MailsOf(c))
  BY MailsFinite
<1>2. InHand(c)' \in {0, 1}
  BY DEF InHand
<1>3. Cardinality(MailsOf(c)') <= Cardinality(MailsOf(c))
      /\ Cardinality(MailsOf(c)') \in Nat /\ Cardinality(MailsOf(c)) \in Nat
  BY <1>1, Fewer
<1>4. Cardinality(Strays(c)') <= Cardinality(Strays(c)) /\ IsFiniteSet(Strays(c)')
      /\ Cardinality(Strays(c)') \in Nat /\ Cardinality(Strays(c)) \in Nat
  BY Fewer DEF PricedFor
<1>5. Cardinality(Exposed(c)') <= Cardinality(MailsOf(c)) /\ Cardinality(Exposed(c)') \in Nat
  BY <1>1, Fewer
<1>6. faults \in Nat
  BY DEF TypeOK
<1> QED BY <1>2, <1>3, <1>4, <1>5, <1>6 DEF PricedFor

-----------------------------------------------------------------------------
(* The candidates and the rows stay in order.                               *)

LEMMA RowsTyped ==
  ASSUME EmailInv, NEW x \in Reminders
  PROVE  RowsOf(x) \subseteq Row /\ GuardsOf(x) \subseteq RowsOf(x)
  BY DEF EmailInv, TypeOK, RecordsNewest, RowsOf, GuardsOf, Pending

(* Overnight the rows and the emails of a cycle grow older together. *)
LEMMA CycleKept ==
  ASSUME EmailInv, NextDay
  PROVE  /\ \A x \in Reminders : notified'[x] # Nothing =>
              notified[x] # Nothing /\ notified'[x] = Older(notified[x])
         /\ \A x \in Reminders : notified[x] # Nothing /\ notified[x].age <= Window =>
              notified'[x] = Older(notified[x]) /\ notified'[x] # Nothing
         /\ \A r \in Replicas : run[r] # Nothing =>
              /\ run'[r].todo = run[r].todo
              /\ At(r, "record") => run'[r].sent = Older(run[r].sent)
         /\ \A row \in Row : Older(row).cycle = row.cycle /\ Older(row).age = row.age + 1
         /\ \A m \in Mail : /\ Older(m).reminder = m.reminder /\ Older(m).cycle = m.cycle
                            /\ Older(m).age = m.age + 1
         /\ \A m \in mails' : \E n \in mails : m = Older(n) /\ m.age < Window
<1>1. \A row \in Row : /\ Older(row).cycle = row.cycle /\ Older(row).age = row.age + 1
                       /\ Older(row) \in Row /\ Older(row) # Nothing
  BY DEF Older, Row
<1>2. \A m \in Mail : /\ Older(m).reminder = m.reminder /\ Older(m).cycle = m.cycle
                      /\ Older(m).age = m.age + 1
  BY DEF Older, Mail
<1>3. notified' = [x \in Reminders |->
        IF notified[x] = Nothing \/ notified[x].age > Window THEN Nothing ELSE Older(notified[x])]
  BY DEF NextDay
<1>4. \A x \in Reminders : notified[x] # Nothing => notified[x] \in Row /\ notified[x].age \in Nat
  BY DEF EmailInv, TypeOK, Row
<1>5. \A x \in Reminders : notified'[x] # Nothing =>
        notified[x] # Nothing /\ notified'[x] = Older(notified[x])
  BY <1>3
<1>6. \A x \in Reminders : notified[x] # Nothing /\ notified[x].age <= Window =>
        notified'[x] = Older(notified[x]) /\ notified'[x] # Nothing
  BY <1>1, <1>3, <1>4
<1>7. ASSUME NEW r \in Replicas, run[r] # Nothing
      PROVE  /\ run'[r].todo = run[r].todo
             /\ At(r, "record") => run'[r].sent = Older(run[r].sent)
  <2>1. run[r] \in Job /\ run'[r] = Overnight(run[r])
    BY <1>7 DEF EmailInv, TypeOK, NextDay
  <2>2. run'[r].todo = run[r].todo /\ (run[r].sent # Nothing => run'[r].sent = Older(run[r].sent))
    BY <2>1 DEF Overnight, Job
  <2>3. At(r, "record") => run[r].sent # Nothing
    BY DEF EmailInv, RecordsNewest
  <2> QED BY <2>2, <2>3
<1>8. \A m \in mails' : \E n \in mails : m = Older(n) /\ m.age < Window
  BY DEF NextDay
<1> QED BY <1>1, <1>2, <1>5, <1>6, <1>7, <1>8

(* A run moves on to its next candidate, ends or begins. *)
LEMMA OrderMoves ==
  ASSUME TypeOK, Orderly, NEW r \in Replicas, NEW j, run' = [run EXCEPT ![r] = j],
         j # Nothing => /\ j.at \in {"list", "next"}
                        /\ j.todo = {} \/ (run[r] # Nothing /\ j.todo \subseteq run[r].todo),
         \A x \in Reminders : notified'[x] = notified[x] \/ \E s \in Pending(x) : notified'[x] = run[s].sent,
         cycle' = cycle
  PROVE  ListedOnce' /\ CurrentListed' /\ RowsOrdered'
<1>1. run'[r] = j /\ \A s \in Replicas \ {r} : run'[s] = run[s]
  BY DEF TypeOK
<1>2. ListedOnce'
  BY <1>1 DEF Orderly, ListedOnce
<1>3. CurrentListed'
  BY <1>1 DEF Orderly, CurrentListed, At
<1>4. \A x \in Reminders : RowsOf(x)' \subseteq RowsOf(x)
  <2> SUFFICES ASSUME NEW x \in Reminders, NEW row \in RowsOf(x)' PROVE row \in RowsOf(x)
    OBVIOUS
  <2>1. CASE row = notified'[x] /\ row # Nothing
    BY <2>1 DEF RowsOf
  <2>2. ASSUME NEW s \in Pending(x)', row = run'[s].sent PROVE row \in RowsOf(x)
    <3>1. s # r /\ s \in Replicas
      BY <1>1, <2>2 DEF Pending, At
    <3>2. s \in Pending(x) /\ row = run[s].sent
      BY <1>1, <2>2, <3>1 DEF Pending, At
    <3> QED BY <3>2 DEF RowsOf
  <2> QED BY <2>1, <2>2 DEF RowsOf
<1>5. RowsOrdered'
  BY <1>4 DEF Orderly, RowsOrdered
<1> QED BY <1>2, <1>3, <1>5

LEMMA OrderStep ==
  ASSUME EmailInv, EmailInv', Orderly, [Next]_vars
  PROVE  Orderly'
<1> USE DEF EmailInv, TypeOK, house, process, budget, At
<1>1. ASSUME UNCHANGED <<notified, mails, run>>, \A x \in Reminders : cycle'[x] >= cycle[x]
      PROVE  Orderly'
  <2>1. ListedOnce'
    <3> SUFFICES ASSUME NEW r \in Replicas, run[r] # Nothing, NEW c \in run[r].todo
                 PROVE  c.cycle <= cycle'[c.reminder]
      BY <1>1 DEF Orderly, ListedOnce
    <3>1. c \in Candidate /\ c.cycle <= cycle[c.reminder]
      BY DEF Job, Orderly, ListedOnce
    <3>2. c.reminder \in Reminders /\ c.cycle \in Nat
      BY <3>1 DEF Candidate
    <3> QED BY <1>1, <3>1, <3>2
  <2>2. CurrentListed'
    BY <1>1 DEF Orderly, CurrentListed
  <2>3. RowsOrdered'
    <3>1. \A x \in Reminders : RowsOf(x)' = RowsOf(x)
      BY <1>1 DEF RowsOf, Pending
    <3>2. \A x \in Reminders : \A row \in RowsOf(x) : row.cycle \in Nat
      BY RowsTyped DEF Row
    <3> QED BY <1>1, <3>1, <3>2 DEF Orderly, RowsOrdered
  <2> QED BY <1>1, <2>1, <2>2, <2>3 DEF Orderly, MailsRecent
<1>2. ASSUME NEW r \in Replicas, NEW j, run' = [run EXCEPT ![r] = j],
             j # Nothing => /\ j.at \in {"list", "next"}
                            /\ j.todo = {} \/ (run[r] # Nothing /\ j.todo \subseteq run[r].todo),
             UNCHANGED <<notified, cycle>>, \A m \in mails' \ mails : m.age = 0
      PROVE  Orderly'
  <2>1. ListedOnce' /\ CurrentListed' /\ RowsOrdered'
    BY <1>2, OrderMoves
  <2>2. MailsRecent'
    BY <1>2 DEF Orderly, MailsRecent
  <2> QED BY <2>1, <2>2 DEF Orderly
<1>3. CASE UNCHANGED vars
  BY <1>1, <1>3 DEF vars
<1>4. CASE NextDay
  <2>1. ListedOnce'
    BY <1>4, CycleKept, DayPassed DEF Orderly, ListedOnce
  <2>2. ASSUME NEW r \in Replicas, At(r, "record")'
        PROVE  /\ At(r, "record") /\ run'[r].current = run[r].current
               /\ run[r].sent \in Row /\ run'[r].sent = Older(run[r].sent)
    BY <1>4, <2>2, CycleKept, DayPassed DEF RecordsNewest
  <2>3. CurrentListed'
    <3>1. ASSUME NEW r \in Replicas, At(r, "send")' \/ At(r, "record")'
          PROVE  run'[r].current \in run'[r].todo
      BY <1>4, <3>1, CycleKept, DayPassed DEF Orderly, CurrentListed
    <3>2. ASSUME NEW r \in Replicas, At(r, "record")' PROVE run'[r].sent.cycle >= run'[r].current.cycle
      BY <1>4, <2>2, <3>2, CycleKept DEF Orderly, CurrentListed
    <3> QED BY <3>1, <3>2 DEF CurrentListed
  <2>4. ASSUME NEW x \in Reminders, NEW row \in RowsOf(x)'
        PROVE  \E old \in RowsOf(x) : /\ row.cycle = old.cycle /\ row.age = old.age + 1
                                      /\ old.age \in Nat
    <3>1. CASE row = notified'[x] /\ row # Nothing
      <4>1. notified[x] # Nothing /\ row = Older(notified[x]) /\ notified[x] \in Row
        BY <1>4, <3>1, CycleKept
      <4>2. notified[x] \in RowsOf(x) /\ notified[x].age \in Nat
        BY <4>1 DEF RowsOf, Row
      <4> QED BY <1>4, <4>1, <4>2, CycleKept
    <3>2. ASSUME NEW s \in Pending(x)', row = run'[s].sent
          PROVE  \E old \in RowsOf(x) : /\ row.cycle = old.cycle /\ row.age = old.age + 1
                                        /\ old.age \in Nat
      <4>1. s \in Replicas /\ At(s, "record")' /\ run'[s].current.reminder = x
        BY <3>2 DEF Pending
      <4>2. s \in Pending(x) /\ row = Older(run[s].sent) /\ run[s].sent \in Row
        BY <2>2, <3>2, <4>1 DEF Pending
      <4>3. run[s].sent \in RowsOf(x) /\ run[s].sent.age \in Nat
        BY <4>2 DEF RowsOf, Row
      <4> QED BY <1>4, <4>2, <4>3, CycleKept
    <3> QED BY <2>4, <3>1, <3>2 DEF RowsOf
  <2>5. RowsOrdered'
    <3>1. cycle' = cycle
      BY <1>4 DEF NextDay
    <3> SUFFICES ASSUME NEW x \in Reminders, NEW row \in RowsOf(x)'
                 PROVE  /\ row.cycle <= cycle[x]
                        /\ \A other \in RowsOf(x)' : row.age < other.age => row.cycle >= other.cycle
      BY <3>1 DEF RowsOrdered
    <3>2. PICK old \in RowsOf(x) : row.cycle = old.cycle /\ row.age = old.age + 1 /\ old.age \in Nat
      BY <2>4
    <3>3. ASSUME NEW other \in RowsOf(x)', row.age < other.age PROVE row.cycle >= other.cycle
      <4>1. PICK o \in RowsOf(x) : other.cycle = o.cycle /\ other.age = o.age + 1 /\ o.age \in Nat
        BY <2>4
      <4>2. old.age < o.age
        BY <3>2, <3>3, <4>1
      <4> QED BY <3>2, <4>1, <4>2 DEF Orderly, RowsOrdered
    <3> QED BY <3>2, <3>3 DEF Orderly, RowsOrdered
  <2>6. MailsRecent'
    BY <1>4, CycleKept DEF MailsRecent
  <2> QED BY <2>1, <2>3, <2>5, <2>6 DEF Orderly
<1>5. ASSUME NEW x \in Reminders, BecomesDue(x) \/ PutOff(x) PROVE Orderly'
  BY <1>1, <1>5 DEF BecomesDue, PutOff
<1>6. ASSUME NEW x \in Reminders, LogRecord(x) PROVE Orderly'
  BY <1>1, <1>6 DEF LogRecord
<1>7. ASSUME NEW r \in Replicas,
             SessionDropped(r) \/ Stop(r) \/ CloseStore(r) \/ Exit(r) \/ Restart(r)
      PROVE  Orderly'
  BY <1>1, <1>7 DEF SessionDropped, Stop, CloseStore, Exit, Restart
<1>8. ASSUME NEW r \in Replicas, TryLock(r) PROVE Orderly'
  <2>1. CASE lock = NoOne
    <3> DEFINE j == [at |-> "list", days |-> 0, todo |-> {}, current |-> Nothing, sent |-> Nothing]
    <3>1. run' = [run EXCEPT ![r] = j] /\ j.at = "list" /\ j.todo = {} /\ UNCHANGED <<notified, cycle, mails>>
      BY <1>8, <2>1 DEF TryLock
    <3> HIDE DEF j
    <3> QED BY <1>2, <3>1
  <2>2. CASE lock # NoOne
    BY <1>1, <1>8, <2>2 DEF TryLock
  <2> QED BY <2>1, <2>2
<1>9. ASSUME NEW r \in Replicas, Finish(r) \/ RunFails(r) \/ ExitTimedOut(r) \/ Crash(r) PROVE Orderly'
  <2>1. run' = [run EXCEPT ![r] = Nothing] /\ UNCHANGED <<notified, cycle, mails>>
    BY <1>9 DEF Finish, RunFails, ExitTimedOut, Crash, Dies, End
  <2> QED BY <1>2, <2>1
<1>10. ASSUME NEW r \in Replicas, NEW c, run[r] \in Job, run' = Without(r, c)
       PROVE  \E j : /\ run' = [run EXCEPT ![r] = j] /\ j # Nothing
                     /\ j.at = "next" /\ j.todo = run[r].todo \ {c}
  <2> DEFINE j == [run[r] EXCEPT !.at = "next", !.todo = @ \ {c}, !.current = Nothing, !.sent = Nothing]
  <2>1. run' = [run EXCEPT ![r] = j] /\ j.at = "next" /\ j.todo = run[r].todo \ {c}
    BY <1>10 DEF Without, Job
  <2>2. run'[r] = j
    BY <2>1
  <2>3. j # Nothing
    BY <1>10, <2>2, WithoutTyped
  <2> QED BY <2>1, <2>3
<1>11. ASSUME NEW r \in Replicas, NEW c \in Candidates, Suppress(r, c) \/ CheckFails(r, c) PROVE Orderly'
  <2>1. run[r] \in Job /\ run' = Without(r, c) /\ run[r] # Nothing /\ UNCHANGED <<notified, cycle, mails>>
    BY <1>11 DEF Suppress, CheckFails
  <2> QED BY <1>2, <1>10, <2>1
<1>12. ASSUME NEW r \in Replicas, SendRejected(r) \/ RecordFails(r) PROVE Orderly'
  <2>1. /\ run[r] \in Job /\ run' = Without(r, run[r].current) /\ run[r] # Nothing
        /\ UNCHANGED <<notified, cycle, mails>>
    BY <1>12 DEF SendRejected, RecordFails, GoOn
  <2> QED BY <1>2, <1>10, <2>1
<1>13. ASSUME NEW r \in Replicas, SendReplyLost(r) PROVE Orderly'
  <2>1. /\ run[r] \in Job /\ run' = Without(r, run[r].current) /\ run[r] # Nothing
        /\ UNCHANGED <<notified, cycle>>
    BY <1>13 DEF SendReplyLost, GoOn
  <2>2. \A m \in mails' \ mails : m.age = 0
    BY <1>13 DEF SendReplyLost, Delivered
  <2> QED BY <1>2, <1>10, <2>1, <2>2
<1>14. ASSUME NEW r \in Replicas, Record(r) PROVE Orderly'
  <2>1. /\ run[r] \in Job /\ run' = Without(r, run[r].current) /\ run[r] # Nothing
        /\ UNCHANGED <<cycle, mails>> /\ r \in Pending(run[r].current.reminder)
    BY <1>14 DEF Record, Pending
  <2>2. \A x \in Reminders : notified'[x] = notified[x] \/ \E s \in Pending(x) : notified'[x] = run[s].sent
    BY <1>14, <2>1 DEF Record, Recorded
  <2>3. PICK j : /\ run' = [run EXCEPT ![r] = j] /\ j # Nothing
                 /\ j.at = "next" /\ j.todo = run[r].todo \ {run[r].current}
    BY <1>10, <2>1
  <2>4. ListedOnce' /\ CurrentListed' /\ RowsOrdered'
    BY <2>1, <2>2, <2>3, OrderMoves
  <2>5. MailsRecent'
    BY <2>1 DEF Orderly, MailsRecent
  <2> QED BY <2>4, <2>5 DEF Orderly
<1>15. ASSUME NEW r \in Replicas, List(r) PROVE Orderly'
  <2> DEFINE listed == {[reminder |-> x, cycle |-> cycle[x]] : x \in {y \in Reminders : due[y]}}
  <2>1. run[r] \in Job /\ run[r] # Nothing /\ run[r].at = "list" /\ UNCHANGED <<notified, cycle, mails>>
    BY <1>15 DEF List
  <2>2. \A c, d \in listed : c.reminder = d.reminder => c = d
    OBVIOUS
  <2>3. \A c \in listed : c.cycle <= cycle[c.reminder]
    OBVIOUS
  <2> HIDE DEF listed
  <2>4. run' = [run EXCEPT ![r].at = "next", ![r].todo = listed]
    BY <1>15 DEF List, listed
  <2>5. /\ run'[r].at = "next" /\ run'[r].todo = listed
        /\ \A s \in Replicas \ {r} : run'[s] = run[s]
    BY <2>1, <2>4 DEF Job
  <2>6. ListedOnce'
    BY <2>1, <2>2, <2>3, <2>5 DEF Orderly, ListedOnce
  <2>7. CurrentListed'
    BY <2>1, <2>5 DEF Orderly, CurrentListed
  <2>8. \A x \in Reminders : RowsOf(x)' = RowsOf(x)
    BY <2>1, <2>5 DEF RowsOf, Pending
  <2>9. RowsOrdered'
    BY <2>1, <2>8 DEF Orderly, RowsOrdered
  <2> QED BY <2>1, <2>6, <2>7, <2>9 DEF Orderly, MailsRecent
<1>16. ASSUME NEW r \in Replicas, NEW d \in Candidates, NotSuppressed(r, d) PROVE Orderly'
  <2>1. /\ run[r] \in Job /\ run[r] # Nothing /\ run[r].at = "next" /\ d \in run[r].todo
        /\ UNCHANGED <<notified, cycle, mails>>
    BY <1>16 DEF NotSuppressed
  <2>2. /\ run'[r].at = "send" /\ run'[r].todo = run[r].todo /\ run'[r].current = d
        /\ \A s \in Replicas \ {r} : run'[s] = run[s]
    BY <1>16, <2>1 DEF NotSuppressed, Job
  <2>3. ListedOnce'
    BY <2>1, <2>2 DEF Orderly, ListedOnce
  <2>4. CurrentListed'
    BY <2>1, <2>2 DEF Orderly, CurrentListed
  <2>5. \A x \in Reminders : RowsOf(x)' = RowsOf(x)
    BY <2>1, <2>2 DEF RowsOf, Pending
  <2>6. RowsOrdered'
    BY <2>1, <2>5 DEF Orderly, RowsOrdered
  <2> QED BY <2>1, <2>3, <2>4, <2>6 DEF Orderly, MailsRecent
<1>17. ASSUME NEW r \in Replicas, Send(r) PROVE Orderly'
  <2>1. /\ run[r] \in Job /\ run[r] # Nothing /\ run[r].at = "send" /\ run[r].current \in Candidate
        /\ UNCHANGED <<notified, cycle>>
    BY <1>17 DEF Send, RecordsNewest
  <2>2. /\ run'[r].at = "record" /\ run'[r].todo = run[r].todo /\ run'[r].current = run[r].current
        /\ run'[r].sent.age = 0 /\ run'[r].sent.cycle = cycle[run[r].current.reminder]
        /\ \A s \in Replicas \ {r} : run'[s] = run[s]
    BY <1>17, <2>1 DEF Send, Job
  <2>3. ListedOnce'
    BY <2>1, <2>2 DEF Orderly, ListedOnce
  <2>4. CurrentListed'
    BY <2>1, <2>2 DEF Orderly, CurrentListed, ListedOnce
  <2>5. ASSUME NEW x \in Reminders, NEW row \in RowsOf(x)'
        PROVE  row \in RowsOf(x) \/ (row.age = 0 /\ row.cycle = cycle[x])
    <3>1. CASE row = notified'[x] /\ row # Nothing
      BY <2>1, <3>1 DEF RowsOf
    <3>2. ASSUME NEW s \in Pending(x)', row = run'[s].sent
          PROVE  row \in RowsOf(x) \/ (row.age = 0 /\ row.cycle = cycle[x])
      BY <2>1, <2>2, <3>2 DEF RowsOf, Pending
    <3> QED BY <2>5, <3>1, <3>2 DEF RowsOf
  <2>6. RowsOrdered'
    <3>1. \A x \in Reminders : \A row \in RowsOf(x) : row.age \in Nat /\ row.cycle \in Nat
      BY RowsTyped DEF Row
    <3>2. \A x \in Reminders : cycle[x] \in Nat
      OBVIOUS
    <3> QED BY <2>1, <2>5, <3>1, <3>2 DEF Orderly, RowsOrdered
  <2>7. \A m \in mails' \ mails : m.age = 0
    BY <1>17 DEF Send, Delivered
  <2> QED BY <2>3, <2>4, <2>6, <2>7 DEF Orderly, MailsRecent
<1> QED
  BY <1>3, <1>4, <1>5, <1>6, <1>7, <1>8, <1>9, <1>11, <1>12, <1>13, <1>14, <1>15, <1>16, <1>17
     DEF Next, Step, Failure

-----------------------------------------------------------------------------
(* Every step is paid for.                                                  *)

(* An email loses its cover only with the row that covers it. *)
LEMMA CoverKept ==
  ASSUME EmailInv, EmailInv', NEW c \in Candidate,
         \A g \in GuardsOf(c.reminder) : \E h \in GuardsOf(c.reminder)' :
            h.cycle >= g.cycle /\ h.age <= g.age
  PROVE  \A m \in Exposed(c)' : m \in MailsOf(c) => m \in Exposed(c)
<1> DEFINE x == c.reminder
<1>1. x \in Reminders
  BY DEF Candidate
<1>2. GuardsOf(x) \subseteq Row
  BY <1>1, RowsTyped
<1>3. GuardsOf(x)' \subseteq Row
  BY <1>1 DEF EmailInv, TypeOK, RecordsNewest, GuardsOf, Pending
<1> SUFFICES ASSUME NEW m \in Exposed(c)', m \in MailsOf(c), NEW g \in GuardsOf(x), Covers(g, m)
             PROVE  FALSE
  BY DEF Exposed
<1>4. m.age \in Nat /\ m.cycle \in Nat
  BY DEF MailsOf, EmailInv, TypeOK, Mail
<1>5. PICK h \in GuardsOf(x)' : h.cycle >= g.cycle /\ h.age <= g.age
  OBVIOUS
<1>6. h.cycle \in Nat /\ h.age \in Nat /\ g.cycle \in Nat /\ g.age \in Nat
  BY <1>2, <1>3, <1>5 DEF Row
<1>7. Covers(h, m)
  BY <1>4, <1>5, <1>6 DEF Covers
<1>8. ~Covers(h, m)
  BY <1>5 DEF Exposed
<1> QED BY <1>7, <1>8

(* A run that moves on, ends or begins its list strays no further.  The     *)
(* rows stay, unless the owner gives up the one it has in hand.             *)
LEMMA RunMoves ==
  ASSUME TypeOK, NEW r \in Replicas, NEW j, run' = [run EXCEPT ![r] = j],
         j = Nothing \/ j.at \in {"list", "next"},
         lock' = lock \/ (lock = r /\ lock' = NoOne /\ j = Nothing),
         NEW c \in Candidate, MayMail(r, c)' => MayMail(r, c)
  PROVE  /\ Strays(c)' \subseteq Strays(c)
         /\ InHand(c)' <= InHand(c)
         /\ UNCHANGED notified /\ ~(lock = r /\ At(r, "record")) =>
              GuardsOf(c.reminder) \subseteq GuardsOf(c.reminder)'
<1>1. run'[r] = j /\ \A s \in Replicas \ {r} : run'[s] = run[s]
  BY DEF TypeOK
<1>2. \A s \in Replicas \ {r} : MayMail(s, c)' <=> MayMail(s, c)
  BY <1>1 DEF MayMail, At
<1>3. j = Nothing => ~MayMail(r, c)'
  BY <1>1 DEF MayMail, At
<1>4. Strays(c)' \subseteq Strays(c)
  <2> SUFFICES ASSUME NEW s \in Replicas, lock' # s, MayMail(s, c)' PROVE lock # s /\ MayMail(s, c)
    BY DEF Strays
  <2> QED BY <1>2, <1>3
<1>5. InHand(c)' <= InHand(c)
  <2>1. ASSUME NEW s \in Replicas, lock' = s, At(s, "send")', run'[s].current = c
        PROVE  lock = s /\ At(s, "send") /\ run[s].current = c
    <3>1. s # r
      BY <1>1, <2>1 DEF At
    <3> QED BY <1>1, <2>1, <3>1 DEF At
  <2> QED BY <2>1 DEF InHand
<1>6. ASSUME UNCHANGED notified, ~(lock = r /\ At(r, "record"))
      PROVE  GuardsOf(c.reminder) \subseteq GuardsOf(c.reminder)'
  <2>1. ASSUME NEW s \in Pending(c.reminder), lock = s
        PROVE  s \in Pending(c.reminder)' /\ lock' = s /\ run'[s].sent = run[s].sent
    <3>1. s \in Replicas \ {r}
      BY <1>6, <2>1 DEF Pending
    <3> QED BY <1>1, <2>1, <3>1 DEF Pending, At
  <2> QED BY <1>6, <2>1 DEF GuardsOf
<1> QED BY <1>4, <1>5, <1>6

(* Such a move costs nothing as long as no row is given up. *)
LEMMA MovePaid ==
  ASSUME EmailInv, EmailInv', Priced, NEW r \in Replicas, NEW j, run' = [run EXCEPT ![r] = j],
         j = Nothing \/ j.at \in {"list", "next"},
         lock' = lock \/ (lock = r /\ lock' = NoOne /\ j = Nothing),
         NEW c \in Candidate, MayMail(r, c)' => MayMail(r, c),
         UNCHANGED <<notified, mails>>,
         \/ faults' >= faults /\ ~(lock = r /\ At(r, "record"))
         \/ faults' = faults + 1
  PROVE  PricedFor(c)'
<1>1. TypeOK /\ TypeOK' /\ PricedFor(c)
  BY DEF EmailInv, Priced
<1>2. MailsOf(c)' = MailsOf(c)
  BY DEF MailsOf
<1>3. Strays(c)' \subseteq Strays(c) /\ InHand(c)' <= InHand(c)
  BY <1>1, RunMoves
<1>4. CASE faults' >= faults /\ ~(lock = r /\ At(r, "record"))
  <2>1. GuardsOf(c.reminder) \subseteq GuardsOf(c.reminder)'
    BY <1>1, <1>4, RunMoves
  <2>2. c.reminder \in Reminders
    BY DEF Candidate
  <2>3. Exposed(c)' \subseteq Exposed(c)
    <3>1. \A m \in Exposed(c)' : m \in MailsOf(c)
      BY <1>2 DEF Exposed
    <3> QED BY <1>2, <2>1, <3>1 DEF Exposed
  <2> QED BY <1>1, <1>2, <1>3, <1>4, <2>3, PriceKept
<1>5. CASE faults' = faults + 1
  BY <1>1, <1>2, <1>3, <1>5, FaultPays
<1> QED BY <1>4, <1>5

(* The next candidate's turn. *)
LEMMA NextCandidate ==
  ASSUME TypeOK, NEW r \in Replicas, run[r] \in Job, NEW d, run' = Without(r, d),
         At(r, "next") \/ (d = run[r].current /\ (At(r, "send") \/ At(r, "record")))
  PROVE  \E j : /\ run' = [run EXCEPT ![r] = j] /\ j.at = "next"
                /\ \A c : MayMail(r, c)' => MayMail(r, c)
<1> DEFINE j == [run[r] EXCEPT !.at = "next", !.todo = @ \ {d}, !.current = Nothing, !.sent = Nothing]
<1>1. run' = [run EXCEPT ![r] = j] /\ j.at = "next" /\ j.todo = run[r].todo \ {d}
  BY DEF Without, Job
<1>2. run'[r].at = "next" /\ run'[r].todo = run[r].todo \ {d}
  BY <1>1 DEF TypeOK
<1>3. ASSUME NEW c, MayMail(r, c)' PROVE MayMail(r, c)
  <2>1. c \in run[r].todo \ {d}
    BY <1>2, <1>3 DEF MayMail, At
  <2> QED BY <2>1 DEF MayMail
<1> QED BY <1>1, <1>3

(* What grows older together stays as many. *)
LEMMA OlderNoMore ==
  ASSUME NEW S, IsFiniteSet(S), NEW T, T \subseteq {Older(n) : n \in S}
  PROVE  /\ IsFiniteSet(T) /\ Cardinality(T) \in Nat /\ Cardinality(S) \in Nat
         /\ Cardinality(T) <= Cardinality(S)
<1> DEFINE older == {Older(n) : n \in S}
           f     == [n \in S |-> Older(n)]
<1>1. f \in Surjection(S, older)
  BY DEF Surjection
<1>2. IsFiniteSet(older) /\ Cardinality(older) <= Cardinality(S)
  BY <1>1, FS_Surjection
<1>3. IsFiniteSet(T) /\ Cardinality(T) <= Cardinality(older)
  BY <1>2, FS_Subset
<1> QED BY <1>2, <1>3, FS_CardinalityType

LEMMA NightPaid ==
  ASSUME EmailInv, EmailInv', Orderly, Priced, NextDay, NEW c \in Candidate
  PROVE  PricedFor(c)'
<1> DEFINE x == c.reminder
<1>1. TypeOK /\ TypeOK' /\ PricedFor(c) /\ x \in Reminders
  BY DEF EmailInv, Priced, Candidate
<1>2. /\ \A r \in Replicas : /\ run'[r] = Nothing <=> run[r] = Nothing
                             /\ run[r] # Nothing => /\ run'[r].at = run[r].at
                                                    /\ run'[r].current = run[r].current
                                                    /\ run'[r].todo = run[r].todo
      /\ lock' = lock /\ faults' = faults
  BY <1>1, DayPassed, CycleKept DEF budget
<1>3. Strays(c)' = Strays(c) /\ InHand(c)' = InHand(c)
  <2>1. \A r \in Replicas : MayMail(r, c)' <=> MayMail(r, c)
    BY <1>2 DEF MayMail, At
  <2>2. \A r \in Replicas : At(r, "send")' /\ run'[r].current = c <=> At(r, "send") /\ run[r].current = c
    BY <1>2 DEF At
  <2> QED BY <1>2, <2>1, <2>2 DEF Strays, InHand
<1>4. ASSUME NEW m \in MailsOf(c)'
      PROVE  \E n \in MailsOf(c) : m = Older(n) /\ m.age = n.age + 1 /\ n.age + 1 < Window /\ n.age \in Nat
  <2>1. PICK n \in mails : m = Older(n) /\ m.age < Window
    BY <1>4, CycleKept DEF MailsOf
  <2>2. n \in Mail
    BY <1>1 DEF TypeOK
  <2>3. m.reminder = n.reminder /\ m.cycle = n.cycle /\ m.age = n.age + 1 /\ n.age \in Nat
    BY <2>1, <2>2, CycleKept DEF Mail
  <2>4. n \in MailsOf(c)
    BY <2>3 DEF MailsOf
  <2> QED BY <2>1, <2>3, <2>4
<1>5. ASSUME NEW g \in GuardsOf(x), g.age < Window
      PROVE  Older(g) \in GuardsOf(x)'
  <2>1. CASE g = notified[x] /\ g # Nothing
    <3>1. g.age <= Window
      <4>1. g \in Row
        BY <1>1, RowsTyped
      <4> QED BY <1>5, <4>1 DEF Row
    <3>2. notified'[x] = Older(g) /\ notified'[x] # Nothing
      BY <1>1, <2>1, <3>1, CycleKept
    <3> QED BY <3>2 DEF GuardsOf
  <2>2. ASSUME NEW s \in Pending(x), lock = s, g = run[s].sent
        PROVE  Older(g) \in GuardsOf(x)'
    <3>1. s \in Replicas /\ At(s, "record") /\ run[s] # Nothing
      BY <2>2 DEF Pending, At
    <3>2. run'[s].sent = Older(g)
      BY <2>2, <3>1, CycleKept
    <3>3. s \in Pending(x)'
      BY <1>2, <2>2, <3>1 DEF Pending, At
    <3> QED BY <1>2, <2>2, <3>2, <3>3 DEF GuardsOf
  <2> QED BY <1>5, <2>1, <2>2 DEF GuardsOf
<1>6. MailsOf(c)' \subseteq {Older(n) : n \in MailsOf(c)}
  BY <1>4
<1>7. Exposed(c)' \subseteq {Older(n) : n \in Exposed(c)}
  <2> SUFFICES ASSUME NEW m \in Exposed(c)' PROVE \E n \in Exposed(c) : m = Older(n)
    OBVIOUS
  <2>1. m \in MailsOf(c)'
    BY DEF Exposed
  <2>2. PICK n \in MailsOf(c) : m = Older(n) /\ m.age = n.age + 1 /\ n.age + 1 < Window /\ n.age \in Nat
    BY <1>4, <2>1
  <2>3. n \in Mail /\ m.cycle = n.cycle
    BY <1>1, <2>2, CycleKept DEF MailsOf, TypeOK
  <2>4. ASSUME NEW g \in GuardsOf(x), Covers(g, n) PROVE FALSE
    <3>1. g \in Row
      BY <1>1, RowsTyped
    <3>2. g.age \in Nat /\ g.cycle \in Nat /\ g.age <= n.age /\ g.cycle >= n.cycle /\ n.cycle \in Nat
      BY <2>3, <2>4, <3>1 DEF Covers, Row, Mail
    <3>3. Older(g) \in GuardsOf(x)'
      BY <1>5, <2>2, <3>2
    <3>4. Older(g).cycle = g.cycle /\ Older(g).age = g.age + 1
      BY <3>1, CycleKept
    <3>5. Covers(Older(g), m)
      BY <2>2, <2>3, <3>2, <3>4 DEF Covers
    <3> QED BY <3>3, <3>5 DEF Exposed
  <2> QED BY <2>2, <2>4 DEF Exposed
<1>8. IsFiniteSet(MailsOf(c)) /\ IsFiniteSet(Exposed(c))
  BY <1>1, MailsFinite
<1>9. Cardinality(MailsOf(c)') <= Cardinality(MailsOf(c))
      /\ Cardinality(MailsOf(c)') \in Nat /\ Cardinality(MailsOf(c)) \in Nat
  BY <1>6, <1>8, OlderNoMore
<1>10. Cardinality(Exposed(c)') <= Cardinality(Exposed(c))
      /\ Cardinality(Exposed(c)') \in Nat /\ Cardinality(Exposed(c)) \in Nat
  BY <1>7, <1>8, OlderNoMore
<1>11. Cardinality(Strays(c)) \in Nat /\ IsFiniteSet(Strays(c)) /\ faults \in Nat /\ InHand(c) \in {0, 1}
  BY <1>1, FS_CardinalityType, MailsFinite DEF PricedFor, TypeOK
<1> HIDE DEF x
<1>12. /\ Cardinality(Exposed(c)') + Cardinality(Strays(c)) <= faults
       /\ Cardinality(MailsOf(c)') + Cardinality(Strays(c)) + InHand(c) <= 1 + faults
  BY <1>1, <1>9, <1>10, <1>11 DEF PricedFor
<1>13. PricedFor(c)' <=>
         /\ IsFiniteSet(Strays(c)')
         /\ Cardinality(Exposed(c)') + Cardinality(Strays(c)') <= faults'
         /\ Cardinality(MailsOf(c)') + Cardinality(Strays(c)') + InHand(c)' <= 1 + faults'
  BY DEF PricedFor
<1> QED BY <1>2, <1>3, <1>11, <1>12, <1>13

(* The email that goes out. *)
LEMMA NewMail ==
  ASSUME TypeOK, NEW d \in Candidate, Delivered(d)
  PROVE  \E m : /\ mails' = mails \cup {m} /\ m.reminder = d.reminder /\ m.cycle = d.cycle /\ m.age = 0
                /\ \A c : MailsOf(c)' \subseteq MailsOf(c) \cup {m}
                /\ \A c \in Candidate : c # d => MailsOf(c)' = MailsOf(c)
<1> DEFINE m == [reminder |-> d.reminder, cycle |-> d.cycle, age |-> 0, copy |-> Cardinality(Copies(d))]
<1>1. mails' = mails \cup {m} /\ m.reminder = d.reminder /\ m.cycle = d.cycle /\ m.age = 0
  BY DEF Delivered
<1> HIDE DEF m
<1>2. \A c : MailsOf(c)' \subseteq MailsOf(c) \cup {m}
  BY <1>1 DEF MailsOf
<1>3. ASSUME NEW c \in Candidate, c # d PROVE MailsOf(c)' = MailsOf(c)
  <2>1. c.reminder # d.reminder \/ c.cycle # d.cycle
    BY <1>3 DEF Candidate
  <2> QED BY <1>1, <2>1 DEF MailsOf
<1> QED BY <1>1, <1>2, <1>3

LEMMA SendPays ==
  ASSUME EmailInv, EmailInv', Orderly, Priced, NEW r \in Replicas, Send(r), NEW c \in Candidate
  PROVE  PricedFor(c)'
<1> DEFINE x == c.reminder
           d == run[r].current
<1>1. TypeOK /\ TypeOK' /\ PricedFor(c) /\ x \in Reminders
  BY DEF EmailInv, Priced, Candidate
<1>2. /\ run[r] \in Job /\ run[r] # Nothing /\ run[r].at = "send" /\ d \in Candidate
      /\ d \in run[r].todo /\ d.cycle <= cycle[d.reminder]
  BY <1>1, AtJob DEF Send, At, EmailInv, RecordsNewest, Orderly, CurrentListed, ListedOnce
<1>3. Delivered(d) /\ UNCHANGED <<notified, lock, faults>>
  BY DEF Send, budget
<1>4. /\ run'[r].at = "record" /\ run'[r].todo = run[r].todo /\ run'[r].current = d /\ run'[r] # Nothing
      /\ run'[r].sent = [age |-> 0, cycle |-> cycle[d.reminder]]
      /\ \A s \in Replicas \ {r} : run'[s] = run[s]
  <2>1. run' = [run EXCEPT ![r].at = "record", ![r].sent = [age |-> 0, cycle |-> cycle[d.reminder]]]
    BY DEF Send
  <2>2. run'[r].at = "record"
    BY <1>1, <1>2, <2>1 DEF TypeOK, Job
  <2>3. run'[r] \in Job
    BY <1>1, <1>2, <2>1, <2>2 DEF TypeOK, Job
  <2> QED BY <1>1, <1>2, <2>1, <2>3 DEF TypeOK, Job
<1>5. PICK m : /\ mails' = mails \cup {m} /\ m.reminder = d.reminder /\ m.cycle = d.cycle /\ m.age = 0
               /\ MailsOf(c)' \subseteq MailsOf(c) \cup {m}
               /\ c # d => MailsOf(c)' = MailsOf(c)
  BY <1>1, <1>2, <1>3, NewMail
<1> HIDE DEF d
<1>6. \A s \in Replicas \ {r} : MayMail(s, c)' <=> MayMail(s, c)
  BY <1>4 DEF MayMail, At
<1>7. MayMail(r, c)' => MayMail(r, c) /\ c # d
  BY <1>2, <1>4 DEF MayMail, At
<1>8. Strays(c)' \subseteq Strays(c)
  BY <1>3, <1>6, <1>7 DEF Strays
<1>9. InHand(c)' <= InHand(c) /\ (lock = r => InHand(c)' = 0)
  <2>1. ASSUME NEW s \in Replicas, lock' = s, At(s, "send")', run'[s].current = c
        PROVE  lock = s /\ At(s, "send") /\ run[s].current = c /\ s # r
    <3>1. s # r
      BY <1>4, <2>1 DEF At
    <3> QED BY <1>3, <1>4, <2>1, <3>1 DEF At
  <2> QED BY <2>1 DEF InHand
<1>10. GuardsOf(x) \subseteq GuardsOf(x)'
  <2>1. ASSUME NEW s \in Pending(x), lock = s
        PROVE  s \in Pending(x)' /\ lock' = s /\ run'[s].sent = run[s].sent
    <3>1. s \in Replicas \ {r}
      BY <1>2, <2>1 DEF Pending, At
    <3> QED BY <1>3, <1>4, <2>1, <3>1 DEF Pending, At
  <2> QED BY <1>3, <2>1 DEF GuardsOf
<1>11. \A n \in Exposed(c)' : n \in Exposed(c) \/ n = m
  BY <1>5, <1>10 DEF Exposed
<1>12. CASE c # d
  <2>1. Exposed(c)' \subseteq Exposed(c)
    <3>1. \A n \in Exposed(c)' : n \in MailsOf(c)
      BY <1>5, <1>12 DEF Exposed
    <3> QED BY <1>10, <3>1 DEF Exposed
  <2> QED BY <1>1, <1>3, <1>5, <1>8, <1>9, <1>12, <2>1, PriceKept DEF TypeOK
<1>13. CASE c = d /\ lock = r
  <2>1. InHand(c) = 1
    BY <1>2, <1>13 DEF InHand, At, d
  <2>2. m \notin Exposed(c)'
    <3>1. r \in Pending(x)' /\ lock' = r
      BY <1>3, <1>4, <1>13 DEF Pending, At
    <3>2. run'[r].sent \in GuardsOf(x)'
      BY <3>1 DEF GuardsOf
    <3>3. Covers(run'[r].sent, m)
      BY <1>2, <1>4, <1>5 DEF Covers
    <3> QED BY <3>2, <3>3 DEF Exposed
  <2>3. Exposed(c)' \subseteq Exposed(c)
    BY <1>11, <2>2
  <2> QED BY <1>1, <1>3, <1>5, <1>8, <1>9, <1>13, <2>1, <2>3, SendPaid
<1>14. CASE c = d /\ lock # r
  <2>1. r \in Strays(c)
    BY <1>2, <1>14 DEF Strays, MayMail, At
  <2>2. Strays(c)' \subseteq Strays(c) \ {r}
    BY <1>7, <1>8, <1>14 DEF Strays
  <2> QED BY <1>1, <1>3, <1>5, <1>9, <1>11, <2>1, <2>2, SendPaid
<1> QED BY <1>12, <1>13, <1>14

(* The answer is lost: nothing will be recorded. *)
LEMMA LostReplyPays ==
  ASSUME EmailInv, EmailInv', Orderly, Priced, NEW r \in Replicas, SendReplyLost(r), NEW c \in Candidate
  PROVE  PricedFor(c)'
<1> DEFINE d == run[r].current
<1>1. TypeOK /\ TypeOK' /\ PricedFor(c)
  BY DEF EmailInv, Priced
<1>2. /\ run[r] \in Job /\ At(r, "send") /\ d \in Candidate /\ Delivered(d)
      /\ run' = Without(r, d) /\ UNCHANGED <<notified, lock>> /\ faults' = faults + 1
  BY <1>1, AtJob DEF SendReplyLost, GoOn, Fault, EmailInv, RecordsNewest
<1>3. PICK j : run' = [run EXCEPT ![r] = j] /\ j.at = "next" /\ (MayMail(r, c)' => MayMail(r, c))
  BY <1>1, <1>2, NextCandidate
<1>4. /\ Strays(c)' \subseteq Strays(c) /\ InHand(c)' <= InHand(c)
      /\ GuardsOf(c.reminder) \subseteq GuardsOf(c.reminder)'
  <2>1. ~At(r, "record")
    BY <1>2 DEF At
  <2> QED BY <1>1, <1>2, <1>3, <2>1, RunMoves
<1>5. PICK m : MailsOf(c)' \subseteq MailsOf(c) \cup {m}
  BY <1>1, <1>2, NewMail
<1>6. Exposed(c)' \subseteq Exposed(c) \cup {m}
  BY <1>4, <1>5 DEF Exposed
<1> QED BY <1>1, <1>2, <1>4, <1>5, <1>6, FaultPays

(* What a run records suppresses at least what it suppressed before. *)
LEMMA RecordPays ==
  ASSUME EmailInv, EmailInv', Orderly, Priced, NEW r \in Replicas, Record(r), NEW c \in Candidate
  PROVE  PricedFor(c)'
<1> DEFINE x == c.reminder
           y == run[r].current.reminder
           row == run[r].sent
<1>1. TypeOK /\ TypeOK' /\ PricedFor(c) /\ x \in Reminders
  BY DEF EmailInv, Priced, Candidate
<1>2. /\ run[r] \in Job /\ At(r, "record") /\ y \in Reminders /\ row \in Row
      /\ run' = Without(r, run[r].current) /\ notified' = Recorded(y, row)
      /\ UNCHANGED <<mails, lock, faults>>
  BY <1>1, AtJob DEF Record, EmailInv, RecordsNewest, Candidate, budget
<1>3. PICK j : run' = [run EXCEPT ![r] = j] /\ j.at = "next" /\ (MayMail(r, c)' => MayMail(r, c))
  BY <1>1, <1>2, NextCandidate
<1>4. Strays(c)' \subseteq Strays(c) /\ InHand(c)' <= InHand(c)
  BY <1>1, <1>2, <1>3, RunMoves
<1>5. MailsOf(c)' = MailsOf(c)
  BY <1>2 DEF MailsOf
<1>6. ASSUME NEW s \in Pending(x), lock = s, s # r
      PROVE  run[s].sent \in GuardsOf(x)'
  <2>1. s \in Replicas /\ run'[s] = run[s]
    BY <1>1, <1>3, <1>6 DEF Pending, TypeOK
  <2>2. s \in Pending(x)' /\ lock' = s
    BY <1>2, <1>6, <2>1 DEF Pending, At
  <2> QED BY <2>1, <2>2 DEF GuardsOf
<1>7. CASE x # y
  <2>1. notified'[x] = notified[x] /\ r \notin Pending(x)
    BY <1>1, <1>2, <1>7 DEF Recorded, TypeOK, Pending
  <2>2. GuardsOf(x) \subseteq GuardsOf(x)'
    BY <1>6, <2>1 DEF GuardsOf
  <2>3. Exposed(c)' \subseteq Exposed(c)
    BY <1>5, <2>2 DEF Exposed
  <2> QED BY <1>1, <1>2, <1>4, <1>5, <2>3, PriceKept DEF TypeOK
<1>8. CASE x = y
  <2> DEFINE last == notified'[x]
  <2>1. row \in RowsOf(x) /\ (notified[x] # Nothing => notified[x] \in RowsOf(x) /\ notified[x] \in Row)
    BY <1>1, <1>2, <1>8 DEF RowsOf, Pending, TypeOK
  <2>2. last = IF notified[x] # Nothing /\ SentLater(notified[x], row) THEN notified[x] ELSE row
    BY <1>1, <1>2, <1>8 DEF Recorded, TypeOK
  <2>3. last \in GuardsOf(x)'
    BY <1>2, <2>1, <2>2 DEF GuardsOf
  <2>4. last.cycle >= row.cycle /\ last.age <= row.age
    <3>1. CASE notified[x] # Nothing /\ SentLater(notified[x], row)
      <4>1. /\ notified[x].age < row.age => notified[x].cycle >= row.cycle
            /\ row.age < notified[x].age => row.cycle >= notified[x].cycle
        BY <1>1, <2>1, <3>1 DEF Orderly, RowsOrdered
      <4>2. /\ notified[x].age \in Nat /\ notified[x].cycle \in Nat /\ row.age \in Nat /\ row.cycle \in Nat
            /\ notified[x].age < row.age \/ notified[x].cycle > row.cycle
        BY <1>2, <2>1, <3>1 DEF Row, SentLater
      <4> QED BY <2>2, <3>1, <4>1, <4>2
    <3>2. CASE ~(notified[x] # Nothing /\ SentLater(notified[x], row))
      BY <1>2, <2>2, <3>2 DEF Row
    <3> QED BY <3>1, <3>2
  <2>5. notified[x] # Nothing => last.cycle >= notified[x].cycle /\ last.age <= notified[x].age
    BY <1>2, <2>1, <2>2 DEF Row, SentLater
  <2>6. \A g \in GuardsOf(x) : \E h \in GuardsOf(x)' : h.cycle >= g.cycle /\ h.age <= g.age
    <3> SUFFICES ASSUME NEW g \in GuardsOf(x)
                 PROVE  \E h \in GuardsOf(x)' : h.cycle >= g.cycle /\ h.age <= g.age
      OBVIOUS
    <3> HIDE DEF last
    <3>1. CASE g = notified[x] /\ g # Nothing
      BY <2>3, <2>5, <3>1
    <3>2. CASE g = row
      BY <2>3, <2>4, <3>2
    <3>3. ASSUME NEW s \in Pending(x), lock = s, s # r, g = run[s].sent
          PROVE  \E h \in GuardsOf(x)' : h.cycle >= g.cycle /\ h.age <= g.age
      <4>1. g \in Row
        BY <1>1, RowsTyped
      <4>2. g.cycle >= g.cycle /\ g.age <= g.age
        BY <4>1 DEF Row
      <4> QED BY <1>6, <3>3, <4>2
    <3> QED BY <3>1, <3>2, <3>3 DEF GuardsOf
  <2>7. Exposed(c)' \subseteq Exposed(c)
    <3>1. \A m \in Exposed(c)' : m \in MailsOf(c)
      BY <1>5 DEF Exposed
    <3> QED BY <2>6, <3>1, CoverKept
  <2> QED BY <1>1, <1>2, <1>4, <1>5, <2>7, PriceKept DEF TypeOK
<1> QED BY <1>7, <1>8

(* The owner decides to send when no row covers what has been sent. *)
LEMMA DecisionPays ==
  ASSUME EmailInv, EmailInv', Orderly, Priced, NEW r \in Replicas, NEW d \in Candidates, NotSuppressed(r, d),
         NEW c \in Candidate
  PROVE  PricedFor(c)'
<1> DEFINE x == c.reminder
<1>1. TypeOK /\ TypeOK' /\ PricedFor(c) /\ x \in Reminders
  BY DEF EmailInv, Priced, Candidate
<1>2. /\ run[r] \in Job /\ At(r, "next") /\ d \in run[r].todo /\ MaySend(r, d)
      /\ UNCHANGED <<notified, mails, lock, faults>>
  BY <1>1, AtJob DEF NotSuppressed, budget
<1>3. /\ run'[r].at = "send" /\ run'[r].todo = run[r].todo /\ run'[r].current = d /\ run'[r] # Nothing
      /\ \A s \in Replicas \ {r} : run'[s] = run[s]
  <2>1. run' = [run EXCEPT ![r].at = "send", ![r].current = d]
    BY DEF NotSuppressed
  <2>2. run'[r].at = "send"
    BY <1>1, <1>2, <2>1 DEF TypeOK, Job
  <2>3. run'[r] \in Job
    BY <1>1, <1>2, <2>1, <2>2 DEF TypeOK, Job
  <2> QED BY <1>1, <1>2, <2>1, <2>3 DEF TypeOK, Job
<1>4. MailsOf(c)' = MailsOf(c)
  BY <1>2 DEF MailsOf
<1>5. Strays(c)' \subseteq Strays(c)
  <2>1. \A s \in Replicas \ {r} : MayMail(s, c)' <=> MayMail(s, c)
    BY <1>3 DEF MayMail, At
  <2>2. MayMail(r, c)' => MayMail(r, c)
    BY <1>2, <1>3 DEF MayMail, At
  <2> QED BY <1>2, <2>1, <2>2 DEF Strays
<1>6. \A s \in Pending(x) : s \in Pending(x)' /\ run'[s].sent = run[s].sent /\ s # r
  <2> SUFFICES ASSUME NEW s \in Pending(x)
               PROVE  s \in Pending(x)' /\ run'[s].sent = run[s].sent /\ s # r
    OBVIOUS
  <2>1. s \in Replicas \ {r}
    BY <1>2 DEF Pending, At
  <2> QED BY <1>3, <2>1 DEF Pending, At
<1>7. Exposed(c)' \subseteq Exposed(c)
  <2>1. GuardsOf(x) \subseteq GuardsOf(x)'
    BY <1>2, <1>6 DEF GuardsOf
  <2> QED BY <1>4, <2>1 DEF Exposed
<1>8. CASE ~(lock = r /\ c = d)
  <2>1. ASSUME NEW s \in Replicas, lock' = s, At(s, "send")', run'[s].current = c
        PROVE  lock = s /\ At(s, "send") /\ run[s].current = c
    <3>1. s # r
      BY <1>2, <1>3, <1>8, <2>1
    <3> QED BY <1>2, <1>3, <2>1, <3>1 DEF At
  <2>2. InHand(c)' <= InHand(c)
    BY <2>1 DEF InHand
  <2> QED BY <1>1, <1>2, <1>4, <1>5, <1>7, <2>2, PriceKept DEF TypeOK
<1>9. CASE lock = r /\ c = d
  <2>1. InHand(c) = 0
    BY <1>2, <1>9 DEF InHand, At
  <2>2. \A g \in GuardsOf(x) : g = notified[x] /\ g # Nothing
    <3>1. \A s \in Pending(x) : lock # s
      BY <1>6, <1>9
    <3> QED BY <3>1 DEF GuardsOf
  <2>3. ASSUME NEW m \in MailsOf(c), notified[x] # Nothing, Covers(notified[x], m) PROVE FALSE
    <3>1. /\ notified[x] \in Row /\ m.age \in Nat /\ m.cycle = c.cycle /\ m.age < Window
          /\ run[r].days \in {0, 1}
      BY <1>1, <1>2, <2>3 DEF TypeOK, Mail, MailsOf, Orderly, MailsRecent, Job
    <3>2. notified[x].cycle >= c.cycle /\ notified[x].age <= m.age
      BY <2>3, <3>1 DEF Covers
    <3>3. notified[x].age - run[r].days >= Window
      BY <1>2, <1>9, <2>3, <3>2 DEF MaySend, SinceBaseline, Age
    <3> QED BY <3>1, <3>2, <3>3 DEF Row
  <2>4. Exposed(c) = MailsOf(c)
    BY <2>2, <2>3 DEF Exposed
  <2> QED BY <1>1, <1>2, <1>4, <1>5, <1>7, <2>1, <2>4, DecisionPaid
<1> QED BY <1>8, <1>9

(* The lock's session is dropped: its owner strays, or its row is lost. *)
LEMMA DropPays ==
  ASSUME EmailInv, EmailInv', Orderly, Priced, NEW r \in Replicas, SessionDropped(r), NEW c \in Candidate
  PROVE  PricedFor(c)'
<1>1. TypeOK /\ TypeOK' /\ PricedFor(c)
  BY DEF EmailInv, Priced
<1>2. /\ lock = r /\ lock' = NoOne /\ faults' = faults + 1
      /\ UNCHANGED <<notified, mails, run>>
  BY DEF SessionDropped, Fault
<1>3. MailsOf(c)' = MailsOf(c) /\ InHand(c)' <= InHand(c)
  BY <1>2 DEF MailsOf, InHand
<1>4. \A s \in Replicas : MayMail(s, c)' <=> MayMail(s, c)
  BY <1>2 DEF MayMail, At
<1>5. CASE r \in Pending(c.reminder)
  <2>1. run[r].current \in run[r].todo /\ run[r].current.reminder = c.reminder
        /\ At(r, "record") /\ run[r] # Nothing
    BY <1>5 DEF Pending, Orderly, CurrentListed, At
  <2>2. ~MayMail(r, c)
    BY <2>1 DEF MayMail, At, Orderly, ListedOnce
  <2>3. Strays(c)' \subseteq Strays(c)
    BY <1>2, <1>4, <2>2 DEF Strays
  <2> QED BY <1>1, <1>2, <1>3, <2>3, FaultPays
<1>6. CASE r \notin Pending(c.reminder)
  <2>1. GuardsOf(c.reminder) \subseteq GuardsOf(c.reminder)'
    BY <1>2, <1>6 DEF GuardsOf
  <2>2. Exposed(c)' \subseteq Exposed(c)
    BY <1>3, <2>1 DEF Exposed
  <2>3. Strays(c)' \subseteq Strays(c) \cup {r}
    BY <1>2, <1>4 DEF Strays
  <2> QED BY <1>1, <1>2, <1>3, <2>2, <2>3, FaultPays
<1> QED BY <1>5, <1>6

LEMMA PriceStep ==
  ASSUME EmailInv, EmailInv', Orderly, Priced, [Next]_vars
  PROVE  Priced'
<1> SUFFICES ASSUME NEW c \in Candidate PROVE PricedFor(c)'
  BY DEF Priced
<1>1. TypeOK /\ TypeOK' /\ PricedFor(c) /\ faults \in Nat
  BY DEF EmailInv, Priced, TypeOK
<1>2. ASSUME UNCHANGED <<notified, mails, lock, run, faults>> PROVE PricedFor(c)'
  <2>1. /\ MailsOf(c)' = MailsOf(c) /\ Exposed(c)' = Exposed(c)
        /\ Strays(c)' = Strays(c) /\ InHand(c)' = InHand(c)
    BY <1>2 DEF MailsOf, Exposed, GuardsOf, Covers, Pending, Strays, MayMail, InHand, At
  <2> QED BY <1>1, <1>2, <2>1 DEF PricedFor
<1>3. CASE UNCHANGED vars
  BY <1>2, <1>3 DEF vars, budget
<1>4. CASE NextDay
  BY <1>4, NightPaid
<1>5. ASSUME NEW x \in Reminders, BecomesDue(x) \/ PutOff(x) \/ LogRecord(x) PROVE PricedFor(c)'
  BY <1>2, <1>5 DEF BecomesDue, PutOff, LogRecord, budget
<1>6. ASSUME NEW r \in Replicas, Stop(r) \/ CloseStore(r) \/ Exit(r) \/ Restart(r) PROVE PricedFor(c)'
  BY <1>2, <1>6 DEF Stop, CloseStore, Exit, Restart, Setback, budget
<1>7. ASSUME NEW r \in Replicas, TryLock(r) PROVE PricedFor(c)'
  <2>1. CASE lock # NoOne
    BY <1>2, <1>7, <2>1 DEF TryLock, budget
  <2>2. CASE lock = NoOne
    <3>1. /\ UNCHANGED <<notified, mails, faults>> /\ lock' = r /\ run'[r].at = "list"
          /\ \A s \in Replicas \ {r} : run'[s] = run[s]
      BY <1>1, <1>7, <2>2 DEF TryLock, TypeOK, budget
    <3>2. \A s \in Replicas : lock # s
      BY <2>2
    <3>3. MailsOf(c)' = MailsOf(c) /\ InHand(c)' <= InHand(c)
      BY <3>1 DEF MailsOf, InHand, At
    <3>4. Strays(c)' \subseteq Strays(c)
      <4>1. \A s \in Replicas \ {r} : MayMail(s, c)' <=> MayMail(s, c)
        BY <3>1 DEF MayMail, At
      <4> QED BY <3>1, <3>2, <4>1 DEF Strays
    <3>5. GuardsOf(c.reminder) \subseteq GuardsOf(c.reminder)'
      BY <3>1, <3>2 DEF GuardsOf, Pending
    <3>6. Exposed(c)' \subseteq Exposed(c)
      BY <3>3, <3>5 DEF Exposed
    <3> QED BY <1>1, <3>1, <3>3, <3>4, <3>6, PriceKept
  <2> QED BY <2>1, <2>2
<1>8. ASSUME NEW r \in Replicas, List(r) PROVE PricedFor(c)'
  <2> DEFINE listed == {[reminder |-> x, cycle |-> cycle[x]] : x \in {y \in Reminders : due[y]}}
             j == [run[r] EXCEPT !.at = "next", !.todo = listed]
  <2>1. run[r] \in Job /\ At(r, "list") /\ UNCHANGED <<notified, mails, lock, faults>>
    BY <1>1, <1>8, AtJob DEF List, budget
  <2>2. run' = [run EXCEPT ![r] = j] /\ j.at = "next"
    BY <1>8, <2>1 DEF List, Job
  <2>3. MayMail(r, c) /\ ~At(r, "record") /\ faults' >= faults
    BY <1>1, <2>1 DEF MayMail, At
  <2> HIDE DEF j
  <2> QED BY <2>1, <2>2, <2>3, MovePaid
<1>9. ASSUME NEW r \in Replicas, NEW d \in Candidates, Suppress(r, d) \/ CheckFails(r, d) PROVE PricedFor(c)'
  <2>1. /\ run[r] \in Job /\ At(r, "next") /\ run' = Without(r, d)
        /\ UNCHANGED <<notified, mails, lock, faults>>
    BY <1>1, <1>9, AtJob DEF Suppress, CheckFails, Setback, budget
  <2>2. PICK j : run' = [run EXCEPT ![r] = j] /\ j.at = "next" /\ (MayMail(r, c)' => MayMail(r, c))
    BY <1>1, <2>1, NextCandidate
  <2>3. ~At(r, "record") /\ faults' >= faults
    BY <1>1, <2>1 DEF At
  <2> QED BY <2>1, <2>2, <2>3, MovePaid
<1>10. ASSUME NEW r \in Replicas, SendRejected(r) PROVE PricedFor(c)'
  <2>1. /\ run[r] \in Job /\ At(r, "send") /\ run' = Without(r, run[r].current)
        /\ UNCHANGED <<notified, mails, lock, faults>>
    BY <1>1, <1>10, AtJob DEF SendRejected, GoOn, Setback, budget
  <2>2. PICK j : run' = [run EXCEPT ![r] = j] /\ j.at = "next" /\ (MayMail(r, c)' => MayMail(r, c))
    BY <1>1, <2>1, NextCandidate
  <2>3. ~At(r, "record") /\ faults' >= faults
    BY <1>1, <2>1 DEF At
  <2> QED BY <2>1, <2>2, <2>3, MovePaid
<1>11. ASSUME NEW r \in Replicas, RecordFails(r) PROVE PricedFor(c)'
  <2>1. pool[r]
    BY <1>11 DEF RecordFails, At, EmailInv, PoolOpen
  <2>2. /\ run[r] \in Job /\ At(r, "record") /\ run' = Without(r, run[r].current)
        /\ UNCHANGED <<notified, mails, lock>> /\ faults' = faults + 1
    BY <1>1, <1>11, <2>1, AtJob DEF RecordFails, Fault
  <2>3. PICK j : run' = [run EXCEPT ![r] = j] /\ j.at = "next" /\ (MayMail(r, c)' => MayMail(r, c))
    BY <1>1, <2>2, NextCandidate
  <2> QED BY <2>2, <2>3, MovePaid
<1>12. ASSUME NEW r \in Replicas, End(r), UNCHANGED <<notified, mails>>,
              \/ faults' = faults /\ ~At(r, "record")
              \/ faults' = faults + 1
       PROVE  PricedFor(c)'
  <2>1. run' = [run EXCEPT ![r] = Nothing] /\ (lock' = lock \/ (lock = r /\ lock' = NoOne))
    BY <1>12 DEF End, Unlocked
  <2>2. ~MayMail(r, c)'
    BY <1>1, <2>1 DEF MayMail, At, TypeOK
  <2>3. faults' = faults => faults' >= faults
    BY <1>1
  <2> QED BY <1>12, <2>1, <2>2, <2>3, MovePaid
<1>13. ASSUME NEW r \in Replicas, Finish(r) \/ RunFails(r) PROVE PricedFor(c)'
  <2>1. ~At(r, "record")
    BY <1>13 DEF Finish, RunFails, At
  <2> QED BY <1>12, <1>13, <2>1 DEF Finish, RunFails, Setback, budget
<1>14. ASSUME NEW r \in Replicas, ExitTimedOut(r) \/ Crash(r) PROVE PricedFor(c)'
  BY <1>12, <1>14 DEF ExitTimedOut, Crash, Dies, Fault
<1> QED
  BY <1>3, <1>4, <1>5, <1>6, <1>7, <1>8, <1>9, <1>10, <1>11, <1>13, <1>14,
     SendPays, LostReplyPays, RecordPays, DecisionPays, DropPays
     DEF Next, Step, Failure

(* The emails have their price at every step, for any number of replicas,   *)
(* reminders and faults. *)
THEOREM PriceInvariant == Spec => [](EmailInv /\ Orderly /\ Priced)
<1>1. Init => EmailInv /\ Orderly /\ Priced
  <2> SUFFICES ASSUME Init PROVE EmailInv /\ Orderly /\ Priced
    OBVIOUS
  <2>1. IsFiniteSet({}) /\ Cardinality({}) = 0
    BY FS_EmptySet
  <2>2. EmailInv
    BY <2>1 DEF Init, EmailInv, TypeOK, OneRun, PoolOpen, RecordsNewest, AcceptedIsRecorded, At
  <2>3. Orderly
    BY DEF Init, Orderly, ListedOnce, CurrentListed, RowsOrdered, RowsOf, Pending, MailsRecent, At
  <2>4. ASSUME NEW c \in Candidate PROVE PricedFor(c)
    <3>1. MailsOf(c) = {} /\ Exposed(c) = {} /\ Strays(c) = {} /\ InHand(c) = 0 /\ faults = 0
      BY DEF Init, MailsOf, Exposed, Strays, MayMail, InHand, At
    <3> QED BY <2>1, <3>1 DEF PricedFor
  <2> QED BY <2>2, <2>3, <2>4 DEF Priced
<1>2. EmailInv /\ Orderly /\ Priced /\ [Next]_vars => EmailInv' /\ Orderly' /\ Priced'
  <2>1. EmailInv /\ [Next]_vars => EmailInv'
    BY TypeOKStep, OneRunStep, PoolOpenStep, RecordsNewestStep, AcceptedIsRecordedStep DEF EmailInv
  <2> QED BY <2>1, OrderStep, PriceStep
<1> QED BY <1>1, <1>2, PTL DEF Spec

(* A duplicate has a price: in one cycle of one reminder, within the        *)
(* window, there is one email and at most one more for every fault          *)
(* (Runner.Run, CreateReminderNotification under WithoutCancel).            *)
THEOREM DuplicatesHaveTheirPrice == Spec => []DuplicatesCostFaults
<1>1. EmailInv /\ Orderly /\ Priced => DuplicatesCostFaults
  <2> SUFFICES ASSUME EmailInv, Priced, NEW x \in Reminders, NEW n \in 0 .. MaxCycle
               PROVE  Cardinality({m \in mails : m.reminder = x /\ m.cycle = n}) <= 1 + faults
    BY DEF DuplicatesCostFaults
  <2> DEFINE c == [reminder |-> x, cycle |-> n]
  <2>1. c \in Candidate /\ c.reminder = x /\ c.cycle = n
    BY DEF Candidate
  <2> HIDE DEF c
  <2>2. PricedFor(c) /\ MailsOf(c) = {m \in mails : m.reminder = x /\ m.cycle = n}
    BY <2>1 DEF Priced, MailsOf
  <2>3. /\ IsFiniteSet(MailsOf(c)) /\ InHand(c) \in {0, 1} /\ faults \in Nat
    BY MailsFinite DEF EmailInv, TypeOK
  <2>4. Cardinality(MailsOf(c)) \in Nat /\ Cardinality(Strays(c)) \in Nat
    BY <2>2, <2>3, FS_CardinalityType DEF PricedFor
  <2> QED BY <2>2, <2>3, <2>4 DEF PricedFor
<1> QED BY <1>1, PriceInvariant, PTL

=============================================================================

--------------------------- MODULE ReminderEmail ---------------------------
(***************************************************************************)
(* The daily email about an overdue reminder                               *)
(* (internal/reminderemail/runner.go, internal/repository/                 *)
(* reminder_email.go), run by the scheduler of every replica under one     *)
(* advisory lock, and the replica's own life: start, shutdown with its     *)
(* bounded wait for the jobs, crash (cmd/carma/main.go).                   *)
(*                                                                         *)
(* An email is sent first and recorded afterwards; the record suppresses   *)
(* the next one for Window days, or until a newer matching record starts a *)
(* new cycle.  Time is kept as ages in days.  A reminder's cycle is the    *)
(* number of matching records logged: a notification was sent at or after  *)
(* the creation of a baseline exactly when as many were logged by then.    *)
(* Dry runs and the command's target options are left out.                 *)
(***************************************************************************)
EXTENDS Integers, FiniteSets

CONSTANTS
  Replicas,
  Reminders,
  Broken,       \* reminders whose message the mail server always refuses
  Window,       \* days an email suppresses the next one
  MaxCycle,     \* bound: matching records logged per reminder
  MaxTroubles,  \* bound: faults and setbacks
  NoOne,        \* nobody holds the lock
  Nothing       \* no run, no notification

Candidate == [reminder : Reminders, cycle : Nat]
Row       == [age : Nat, cycle : Nat]
Mail      == [reminder : Reminders, cycle : Nat, age : Nat, copy : Nat]

Job == [at : {"list", "next", "send", "record"}, days : {0, 1}, todo : SUBSET Candidate,
        current : Candidate \cup {Nothing}, sent : Row \cup {Nothing}]

VARIABLES
  due,          \* what Evaluate says of the reminders
  cycle,        \* matching records logged so far
  notified,     \* the newest row of reminder_notifications: [age, cycle]
  mails,        \* history: accepted emails [reminder, cycle, age, copy]
  lock,         \* whose session holds the advisory lock
  life,         \* of each replica: up, stopping or down
  pool,         \* of each replica: the connection pool is open
  ran,          \* replicas whose scheduler has run today
  run,          \* the run under way in each replica
  faults,       \* troubles that may cost a duplicate
  setbacks      \* the others: refusals, failed queries, shutdowns

house    == <<due, cycle>>
process  == <<life, pool, ran>>
budget   == <<faults, setbacks>>
vars     == <<house, notified, mails, lock, process, run, budget>>

ASSUME EmailConstants ==
  /\ Window \in Nat \ {0} /\ MaxCycle \in Nat /\ MaxTroubles \in Nat
  /\ Broken \subseteq Reminders
  /\ NoOne \notin Replicas
  /\ Nothing \notin Job /\ Nothing \notin Row

-----------------------------------------------------------------------------
Fault   == faults + setbacks < MaxTroubles /\ faults' = faults + 1 /\ UNCHANGED setbacks
Setback == faults + setbacks < MaxTroubles /\ setbacks' = setbacks + 1 /\ UNCHANGED faults

At(r, step) == run[r] # Nothing /\ run[r].at = step

Init ==
  /\ due = [x \in Reminders |-> FALSE]
  /\ cycle = [x \in Reminders |-> 0]
  /\ notified = [x \in Reminders |-> Nothing]
  /\ mails = {}
  /\ lock = NoOne
  /\ life = [r \in Replicas |-> "up"]
  /\ pool = [r \in Replicas |-> TRUE]
  /\ ran = {}
  /\ run = [r \in Replicas |-> Nothing]
  /\ faults = 0 /\ setbacks = 0

-----------------------------------------------------------------------------
(* The household.                                                           *)

(* A date or a mileage is reached, or a snooze passes. *)
BecomesDue(x) ==
  /\ ~due[x]
  /\ due' = [due EXCEPT ![x] = TRUE]
  /\ UNCHANGED <<cycle, notified, mails, lock, process, run, budget>>

(* Snoozed, edited or disabled. *)
PutOff(x) ==
  /\ due[x]
  /\ due' = [due EXCEPT ![x] = FALSE]
  /\ UNCHANGED <<cycle, notified, mails, lock, process, run, budget>>

(* A matching record is logged. *)
LogRecord(x) ==
  /\ cycle[x] < MaxCycle
  /\ cycle' = [cycle EXCEPT ![x] = @ + 1]
  /\ due' = [due EXCEPT ![x] = FALSE]
  /\ UNCHANGED <<notified, mails, lock, process, run, budget>>

Older(row) == [row EXCEPT !.age = @ + 1]

Overnight(job) == [job EXCEPT !.days = 1, !.sent = IF @ = Nothing THEN Nothing ELSE Older(@)]

(* Midnight.  A run is over within half an hour, so it sees one at most;    *)
(* what is older than the window is forgotten.                              *)
NextDay ==
  /\ \A r \in Replicas : run[r] # Nothing => run[r].days = 0
  /\ notified' = [x \in Reminders |->
       IF notified[x] = Nothing \/ notified[x].age > Window THEN Nothing ELSE Older(notified[x])]
  /\ mails' = {m \in {Older(n) : n \in mails} : m.age < Window}
  /\ ran' = {r \in Replicas : run[r] # Nothing}
  /\ run' = [r \in Replicas |-> IF run[r] = Nothing THEN Nothing ELSE Overnight(run[r])]
  /\ UNCHANGED <<house, lock, life, pool, budget>>

-----------------------------------------------------------------------------
(* A run: Runner.Run.                                                       *)

(* The scheduler calls the job at startup and every day; the lock is taken  *)
(* or found taken.                                                          *)
TryLock(r) ==
  /\ life[r] = "up" /\ run[r] = Nothing /\ r \notin ran
  /\ ran' = ran \cup {r}
  /\ IF lock = NoOne
     THEN /\ lock' = r
          /\ run' = [run EXCEPT ![r] = [at |-> "list", days |-> 0, todo |-> {},
                                   current |-> Nothing, sent |-> Nothing]]
     ELSE UNCHANGED <<lock, run>>
  /\ UNCHANGED <<house, notified, mails, life, pool, budget>>

(* ListReminders, evaluated on the day of the run.  A candidate keeps the   *)
(* baseline it was listed with.                                             *)
List(r) ==
  /\ At(r, "list")
  /\ life[r] = "up"
  /\ run' = [run EXCEPT ![r].at = "next",
                        ![r].todo = {[reminder |-> x, cycle |-> cycle[x]] : x \in {y \in Reminders : due[y]}}]
  /\ UNCHANGED <<house, notified, mails, lock, process, budget>>

(* sent_at >= cutoff.  Whether a notification exactly as old as the window  *)
(* counts depends on the hour.                                              *)
SinceBaseline(c) == notified[c.reminder] # Nothing /\ notified[c.reminder].cycle >= c.cycle

Age(r, c) == notified[c.reminder].age - run[r].days

MaySuppress(r, c) == SinceBaseline(c) /\ Age(r, c) <= Window
MaySend(r, c) == SinceBaseline(c) => Age(r, c) >= Window

Without(r, c) ==
  [run EXCEPT ![r].at = "next", ![r].todo = @ \ {c}, ![r].current = Nothing, ![r].sent = Nothing]

(* ReminderNotificationSince *)
Suppress(r, c) ==
  /\ At(r, "next") /\ c \in run[r].todo
  /\ life[r] = "up"
  /\ MaySuppress(r, c)
  /\ run' = Without(r, c)
  /\ UNCHANGED <<house, notified, mails, lock, process, budget>>

NotSuppressed(r, c) ==
  /\ At(r, "next") /\ c \in run[r].todo
  /\ life[r] = "up"
  /\ MaySend(r, c)
  /\ run' = [run EXCEPT ![r].at = "send", ![r].current = c]
  /\ UNCHANGED <<house, notified, mails, lock, process, budget>>

(* The suppression cannot be checked: the next candidate is tried. *)
CheckFails(r, c) ==
  /\ At(r, "next") /\ c \in run[r].todo
  /\ Setback
  /\ run' = Without(r, c)
  /\ UNCHANGED <<house, notified, mails, lock, process>>

Copies(c) == {m \in mails : m.reminder = c.reminder /\ m.cycle = c.cycle /\ m.age = 0}

Delivered(c) ==
  mails' = mails \cup {[reminder |-> c.reminder, cycle |-> c.cycle, age |-> 0, copy |-> Cardinality(Copies(c))]}

(* The mail server accepts the message, and says so: SentAt is taken.  The  *)
(* run's context may have ended meanwhile.                                  *)
Send(r) ==
  /\ At(r, "send")
  /\ run[r].current.reminder \notin Broken
  /\ Delivered(run[r].current)
  /\ run' = [run EXCEPT ![r].at = "record",
                        ![r].sent = [age |-> 0, cycle |-> cycle[run[r].current.reminder]]]
  /\ UNCHANGED <<house, notified, lock, process, budget>>

MutStopAtFailure(r) == [Without(r, run[r].current) EXCEPT ![r].todo = {}]

(* The message is refused: the next candidate is tried. *)
GoOn(r) == Without(r, run[r].current)

SendRejected(r) ==
  /\ At(r, "send")
  /\ IF run[r].current.reminder \in Broken \/ life[r] # "up" THEN UNCHANGED budget ELSE Setback
  /\ run' = GoOn(r)
  /\ UNCHANGED <<house, notified, mails, lock, process>>

(* It is accepted but the answer is lost. *)
SendReplyLost(r) ==
  /\ At(r, "send")
  /\ run[r].current.reminder \notin Broken
  /\ Fault
  /\ Delivered(run[r].current)
  /\ run' = GoOn(r)
  /\ UNCHANGED <<house, notified, lock, process>>

MutForget(x, row) == notified

(* Of two rows of a reminder the one sent later: records are only added. *)
SentLater(row, other) == row.age < other.age \/ row.cycle > other.cycle

(* The row is added; the newest one is what the suppression looks for. *)
Recorded(x, row) ==
  [notified EXCEPT ![x] = IF @ # Nothing /\ SentLater(@, row) THEN @ ELSE row]

(* CreateReminderNotification, though the run may have been cancelled. *)
Record(r) ==
  /\ At(r, "record")
  /\ pool[r]
  /\ notified' = Recorded(run[r].current.reminder, run[r].sent)
  /\ run' = Without(r, run[r].current)
  /\ UNCHANGED <<house, mails, lock, process, budget>>

(* A closed pool refuses every query. *)
RecordFails(r) ==
  /\ At(r, "record")
  /\ IF pool[r] THEN Fault ELSE UNCHANGED budget
  /\ run' = Without(r, run[r].current)
  /\ UNCHANGED <<house, notified, mails, lock, process>>

Unlocked(r) == IF lock = r THEN NoOne ELSE lock

End(r) ==
  /\ lock' = Unlocked(r)
  /\ run' = [run EXCEPT ![r] = Nothing]

(* All candidates are done, or the context has ended. *)
Finish(r) ==
  /\ At(r, "next") \/ At(r, "list")
  /\ life[r] # "up" \/ (At(r, "next") /\ run[r].todo = {})
  /\ End(r)
  /\ UNCHANGED <<house, notified, mails, process, budget>>

(* The list or the recipients cannot be read, or nobody may receive mail. *)
RunFails(r) ==
  /\ At(r, "list") \/ At(r, "send")
  /\ Setback
  /\ End(r)
  /\ UNCHANGED <<house, notified, mails, process>>

(* The lock's session is dropped; the run does not notice. *)
SessionDropped(r) ==
  /\ lock = r
  /\ Fault
  /\ lock' = NoOne
  /\ UNCHANGED <<house, notified, mails, process, run>>

-----------------------------------------------------------------------------
(* A replica.                                                               *)

(* SIGTERM, or the listener fails: every job's context ends at once.        *)
Stop(r) ==
  /\ life[r] = "up"
  /\ Setback
  /\ life' = [life EXCEPT ![r] = "stopping"]
  /\ UNCHANGED <<house, notified, mails, lock, pool, ran, run>>

MutDoNotWait(r) == TRUE

(* The schedulers' WaitGroup. *)
SchedulersDone(r) == run[r] = Nothing

CloseStore(r) ==
  /\ life[r] = "stopping" /\ pool[r]
  /\ SchedulersDone(r)
  /\ pool' = [pool EXCEPT ![r] = FALSE]
  /\ UNCHANGED <<house, notified, mails, lock, life, ran, run, budget>>

Exit(r) ==
  /\ life[r] = "stopping" /\ ~pool[r]
  /\ life' = [life EXCEPT ![r] = "down"]
  /\ UNCHANGED <<house, notified, mails, lock, pool, ran, run, budget>>

Dies(r) ==
  /\ life' = [life EXCEPT ![r] = "down"]
  /\ End(r)

MutWaitForever(r) == FALSE

(* schedulerShutdownTimeout *)
TimedOut(r) == ~SchedulersDone(r)

(* errSchedulerShutdownTimeout: the pool is left open and the process exits *)
(* under the job.                                                           *)
ExitTimedOut(r) ==
  /\ life[r] = "stopping" /\ pool[r]
  /\ TimedOut(r)
  /\ Dies(r)
  /\ faults' = IF At(r, "record") THEN faults + 1 ELSE faults
  /\ UNCHANGED setbacks
  /\ UNCHANGED <<house, notified, mails, pool, ran>>

Crash(r) ==
  /\ life[r] # "down"
  /\ Fault
  /\ Dies(r)
  /\ UNCHANGED <<house, notified, mails, pool, ran>>

(* The scheduler of a new process runs its jobs at once. *)
Restart(r) ==
  /\ life[r] = "down"
  /\ life' = [life EXCEPT ![r] = "up"]
  /\ pool' = [pool EXCEPT ![r] = TRUE]
  /\ ran' = ran \ {r}
  /\ UNCHANGED <<house, notified, mails, lock, run, budget>>

-----------------------------------------------------------------------------
Candidates == [reminder : Reminders, cycle : 0 .. MaxCycle]

(* What a run does when nothing goes wrong. *)
Step(r) ==
  \/ List(r) \/ Send(r) \/ Record(r) \/ Finish(r)
  \/ \E c \in Candidates : Suppress(r, c) \/ NotSuppressed(r, c)

Failure(r) ==
  \/ SendRejected(r) \/ SendReplyLost(r) \/ RecordFails(r) \/ RunFails(r) \/ SessionDropped(r)
  \/ \E c \in Candidates : CheckFails(r, c)

Next ==
  \/ NextDay
  \/ \E x \in Reminders : BecomesDue(x) \/ PutOff(x) \/ LogRecord(x)
  \/ \E r \in Replicas :
       \/ TryLock(r) \/ Step(r) \/ Failure(r)
       \/ Stop(r) \/ CloseStore(r) \/ Exit(r) \/ ExitTimedOut(r) \/ Crash(r) \/ Restart(r)

(* Days pass; the scheduler calls its jobs and a run goes on or is refused  *)
(* as long as the process is up; a shutdown goes on, its timer included,    *)
(* though what its jobs wait for may never come; a replica is started       *)
(* again.                                                                   *)
Fairness ==
  /\ WF_vars(NextDay)
  /\ \A r \in Replicas :
       /\ WF_vars(TryLock(r)) /\ WF_vars(life[r] = "up" /\ (Step(r) \/ SendRejected(r)))
       /\ WF_vars(CloseStore(r)) /\ WF_vars(Exit(r)) /\ WF_vars(ExitTimedOut(r)) /\ WF_vars(Restart(r))

Spec == Init /\ [][Next]_vars
FairSpec == Spec /\ Fairness

-----------------------------------------------------------------------------
TypeOK ==
  /\ due \in [Reminders -> BOOLEAN]
  /\ cycle \in [Reminders -> Nat]
  /\ notified \in [Reminders -> Row \cup {Nothing}]
  /\ mails \subseteq Mail /\ IsFiniteSet(mails)
  /\ lock \in Replicas \cup {NoOne}
  /\ life \in [Replicas -> {"up", "stopping", "down"}]
  /\ pool \in [Replicas -> BOOLEAN]
  /\ ran \subseteq Replicas
  /\ run \in [Replicas -> Job \cup {Nothing}]
  /\ faults \in Nat /\ setbacks \in Nat

(* A duplicate has a price.  In one cycle of one reminder, fewer than       *)
(* Window days apart, there is one email and at most one more for every     *)
(* fault: a lost reply, a record that fails, a session dropped under the    *)
(* run, a process that dies.  Shutdowns in time, refused messages and       *)
(* failed checks cost none (Runner.Run, CreateReminderNotification under    *)
(* WithoutCancel).                                                          *)
DuplicatesCostFaults ==
  \A x \in Reminders, n \in 0 .. MaxCycle :
    Cardinality({m \in mails : m.reminder = x /\ m.cycle = n}) <= 1 + faults

(* What was sent is known.  Until there is a fault, every email the server  *)
(* has accepted is recorded, or about to be by the run that sent it: also   *)
(* when the process was told to stop between the two and the pool was       *)
(* closed when the run had ended (WithoutCancel,                            *)
(* closeStoreAfterSchedulers).                                              *)
AcceptedIsRecorded ==
  faults = 0 => \A m \in mails :
    \/ notified[m.reminder] # Nothing /\ notified[m.reminder].age <= m.age
    \/ \E r \in Replicas : /\ At(r, "record")
                          /\ run[r].current.reminder = m.reminder /\ run[r].sent.age = m.age

(* An overdue reminder is not forgotten: it is mailed in its present cycle, *)
(* or is no longer overdue.  The message of another reminder that the       *)
(* server always refuses does not stand in its way, nor does an email of    *)
(* the cycle before that was recorded after the new cycle began: that only  *)
(* delays it by the window (Runner.Run).                                    *)
OverdueMailed ==
  \A x \in Reminders \ Broken :
    due[x] ~> (~due[x] \/ \E m \in mails : m.reminder = x /\ m.cycle = cycle[x])

(* A shutdown ends, whatever its jobs are waiting for (run,                 *)
(* closeStoreAfterSchedulers).                                              *)
ShutdownEnds == \A r \in Replicas : (life[r] = "stopping") ~> (life[r] # "stopping")

=============================================================================

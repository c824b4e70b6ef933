# Carma in TLA+

Carma keeps a household's vehicles: their mileage, service records with
receipts, maintenance reminders, NHTSA recalls, and the emails about them. It is
one Go program over PostgreSQL and a directory of files. It may run as several
replicas, so most of what can go wrong goes wrong between processes: two runs of
the same job, a visitor beside a job, two visitors beside each other, and any of
them failing halfway.

This directory models those parts in TLA+, checks them with TLC on small
instances, and proves the properties that matter most with TLAPS for every size
of instance. `PROJECT.json` lists the components, the runs, the source lines
each definition stands for, the hazards of the code and the theorems.

    cd tla
    tlc -workers 2 -config Digest.cfg Digest           # one run
    tlapm DigestProofs.tla                             # one proof module

## The system

Paths are under `src/`.

| Component | State it keeps | Operations | Talks to |
|---|---|---|---|
| Weekly digest (`internal/reminderemail/digest.go`, `repository/reminder_digest.go`) | `reminder_digests`, `recall_notifications` | one run: lock, look for the week's claim, list, claim, send, complete or release | leader lock, SMTP, recalls, reminders |
| Recall check (`internal/recallcheck`, `repository/recalls.go`) | `vehicle_recalls`, `vehicle_recall_checks`, `recall_dismissals`, baseline rows of `recall_notifications` | one run: lock, list due vehicles, fetch and save each; dismiss, restore | leader lock, NHTSA, vehicles, digest |
| Receipts and photos (`internal/assets`, `server/attachments.go`, `server/vehicles.go`, `server/records.go`) | files under `objects/` and `temporary/`, `attachments`, `vehicles.photo_key` | save, commit, replace, delete, discard | records, vehicles, cleanup |
| Asset cleanup (`internal/assetcleanup`, `assets/pruner.go`) | none of its own | weekly: fix a cutoff, read the references, walk both directories | files, the rows that refer to them |
| Mileage (`repository/postgres_odometer.go`, `postgres_vehicles.go`) | `vehicles.current_odometer_miles/_on`, `odometer_readings` | check-in, vehicle edit | records, reminders |
| Records (`repository/postgres_records.go`) | `records` | create, edit, delete | attachments, mileage, snoozes |
| Reminders (`repository/postgres_reminders.go`, `internal/reminder`) | `reminders` | save, delete, snooze, snooze cleared by records; evaluation (pure) | records, mileage, emails |
| Daily reminder email (`reminderemail/runner.go`) | `reminder_notifications` | one run: lock, evaluate, send, record | leader lock, SMTP |
| Leader locks (`repository/advisory_lock.go`) | PostgreSQL session locks, `leaderSessions` | try, unlock, observe | every job |
| Scheduler and shutdown (`internal/schedule`, `cmd/carma/main.go`) | goroutines, a deadline per run | every interval, never overlapping; stop in order | every job |
| Sign-in (`internal/auth`, `server/auth.go`, `repository/postgres_auth.go`) | `users`, `user_sessions` | login, validate, logout, expire | access policy |
| Readiness (`server/ready.go`) | one probe in flight per dependency | start, join, wait | pool, asset directory |
| Migrations (`internal/database`) | `schema_migrations` | apply in order under a lock | PostgreSQL |
| Pure functions (`model/spend.go`, `model/warranty.go`, `reminder/reminder.go`, `reminder/snooze.go`, `internal/export`) | none | spend, warranty, due status, snooze window, files | |

### What is hard in it

* **Jobs of several replicas.** Each job takes a session advisory lock. The
  lock lives on a connection of its own; if that connection drops, the lock is
  free while the job goes on, and a second run overlaps with it
  (`advisory_lock.go` lines 19-21 say so). The tables must hold the line alone.
* **Sending and recording.** Mail cannot be part of a transaction. The digest
  claims before it sends; the daily email sends before it records. Each choice
  has its own failures.
* **Reading, then acting.** The recall check lists vehicles and fetches for
  minutes; the cleanup reads references and walks afterwards; a form is filled
  in when it is opened; a record's keys are read before it is deleted.
* **Two stores without a common transaction.** Files and rows are kept in step
  by order, by never cleaning up after an unconfirmed commit, and by a cleanup
  with a grace period of 48 hours.
* **Calendar and width.** Intervals in months meet months of different length
  and a leap day; mileages and cents are `int64` and nothing bounds what is
  entered; the driving rate looks at a window that moves with the day.
* **Looking up, then writing.** A sign-in looks its user up before the
  transaction that writes it; a snooze is resolved against a list and stored by
  the row's id.
* **Rows replaced behind the household's back.** Each check deletes and
  reinserts recall rows, so dismissals and marks have to survive elsewhere.

### What makes each part correct

* Digest: one mail per week; each recall announced once; the tables say what
  happened; every open recall is announced in the end.
* Recall check: dismissals stick; pages show only recalls of the vehicle as it
  is; a first check is silent; every due vehicle is checked in the end.
* Files: no row without its file; nothing removed that a row refers to; nothing
  kept for ever that none refers to.
* Mileage: concurrent check-ins are compared with each other; no check-in lowers
  the mileage, or loses a point of the history that records leave alone; a
  reminder's start is set once.
* Reminders: what is overdue really is; time alone never takes it back; a snooze
  defers what it was chosen for and ends exactly when a matching record becomes
  the newest; the page's hint comes true.
* Daily email: every overdue reminder is mailed; a duplicate has a fault as its
  price, and a shutdown is not one.
* Sign-in: one user per person, never handed to a stranger; signing out is final;
  every session ends.
* Money and warranties: two computations of one summary agree; a warranty that
  has ended stays ended.
* Still to come: one readiness probe at a time; migrations apply once, in order.

## The modules

| Module | Models | Proofs | Checked as |
|---|---|---|---|
| `WeeklyMail` | what the digest promises, abstractly | `DigestProofs` | with `Digest` |
| `Digest` | the digest's run and tables | `DigestProofs` | `Digest.cfg` and two more |
| `RecallCheck` | the recall check, dismissals, edits | `RecallProofs` | `MCRecallCheck` |
| `RecallDigest` | both of them over their shared tables | `RecallProofs` | `RecallDigest.cfg` |
| `AssetStore` | files, rows, handlers, cleanup | `AssetProofs` | `AssetStore.cfg` |
| `Mileage` | one vehicle's mileage and what starts from it | `MileageProofs` | `MCMileage` |
| `Calendar` | Go's date arithmetic, as far as it is used | `PagesProofs`, `RemindersProofs` | with `MCReminders` |
| `DueStatus` | `Evaluate`, the driving rate, its hint, `ResolveSnooze` | `PagesProofs`, `RemindersProofs` | with `MCReminders` |
| `Spend` | costs, the spending summary twice, warranties | `PagesProofs` | with `MCReminders` |
| `Pages` | the pages they are computed for, and what they promise there | `PagesProofs` | with `MCReminders` |
| `Reminders` | a vehicle's reminders and records | `RemindersProofs` | `MCReminders` |
| `ReminderEmail` | the daily email and its replicas' lives | `ReminderEmailProofs` | `ReminderEmail.cfg` |
| `Sessions` | sign-in, sessions, the cleanup | `SessionsProofs` | `MCSessions` |

In every module an action is one step between two points where another process
can act: a statement outside a transaction, a commit, a call of the network or
of the file system. The checks a statement makes are the action's guard, its
writes are the primed variables. A transaction is one action unless another
process can be seen between its statements, as far as a property asks;
`RecallCheck`, `Mileage`, `Sessions` and `AssetStore` split theirs, with the locks
PostgreSQL holds meanwhile. Failures are actions without fairness, apart from the
normal ones.

Definitions whose names begin with `Mut` are no part of a model. Each stands
above the definition it would replace and is a plausible bug of the code: a lost
condition, a wrong order, a stale value. Every property of every passing run is
violated by at least one of them, which is how we know that it can be.

### Digest

`pc[r]` is the line of `Run` a runner has reached; `snapshot[r]`, `claimId[r]`
and `runWeek[r]` are its locals `recalls`, `digest.ID` and `report.WeekStart`.
`digests` and `notified` are the two tables, with a `NULL digest_id` as
`Baseline` and a missing row as `Unmarked`. `open` is what the recall check and
the household may change at any moment, and `mailbox` is what the relay has
accepted.

    Start  TryLock  CheckClaimed  ListDue  Reserve  Send  Complete  Unlock
                                                      \-> Release -/

`DbError` is every `return report, err` after the lock was taken,
`ReserveAckLost` a claim whose commit was not acknowledged, `SendRejected` and
`SendReplyLost` the two ways of a failed send, `Crash` the end of a process,
`SessionDropped` the loss of the lock under a running job. Whether a reminder
is due is left open, since the protocol only asks whether there is anything to
report. Weeks are separated by the hours before Monday 08:00: a run of the
scheduler has a deadline of 30 minutes, so it cannot begin in one week and still
run after 08:00 of the next (`SendHour` waits for the runners in `Deadlined`).
A run of `carma-reminders --digest` has none.

`WeeklyMail` says the same without processes or tables: a week is free, claimed
or mailed; a claim may be withdrawn before its letter is out; weeks are mailed
once and in order; no recall is in two letters. `Digest` implements it
(`KeepsPromise`), mapping a week to "mailed" if the mailbox holds its message, to
"claimed" if only the table has it.

### RecallCheck

`rows` and `hidden` are `vehicle_recalls` and its `dismissed_at`; `checked` and
`fresh` are `vehicle_recall_checks` by identity and by age. An identity is a
year, make and model. `SaveRecallCheck` is two actions, `DeleteUnlisted` and
`SaveCheck`, because under READ COMMITTED the DELETE works on what was committed
when it ran; `doomed` are the rows it has locked until the commit, for which
dismissals and other saves wait. `listedFor` is a history variable: the identity
a row was last fetched for.

### RecallDigest

`RecallCheck` and an instance of `Digest` over one `recall_notifications`. The
digest's recalls are (vehicle, campaign) pairs, its `open` is the query of
`ListUnnotifiedRecalls`. Every step of the check must be a step the digest's
module allows its environment (`DigestKept`), so what was checked and proved
about the digest alone holds here.

### AssetStore

A request is uploading, writing a file, deleting a record, or discarding keys.
`Commit` writes the rows of any of the three uploading handlers; `CommitFails`
either changed nothing or did commit and only seemed to fail, and `KeepUploads`
is what the handlers then do: nothing. A record's deletion is two statements,
`ReadRecordKeys` and `RemoveRecord`. `old` are the files older than the cutoff
a cleanup starting now would use.

One assumption about time: a file does not grow 48 hours old while the request
that saved it is still running (`FileAges` waits for `Held`). The code bounds the
reading of a request by 5 minutes, and nothing in a handler waits for long. The
safety of the cleanup rests on this; the mutant `MutNoGracePeriod` shows that it
fails without.

### Mileage

One vehicle. A check-in is three steps, since records may change between its
statements: `BeginCheckIn` is the row lock and the comparison, `ArchiveMileage`
the statement that archives the vehicle's point unless a record holds it, and
`SaveCheckIn` the rest with the commit, until which nobody sees any of it. Its
date is taken by the handler before the lock (`on`). New records and reminders
wait for a check-in's lock through their foreign keys; edits and deletions of
records do not, as in PostgreSQL. `released` is a history variable that no guard
reads: the vehicle's point, once a record that held it has let go of it between
the archive and the commit.

`SubmitForm` takes any mileage and any day up to today, since the form may have
been filled in long before. It and the rest of `SaveCheckIn` are one step each.
Of the records, their statements read only what a pending reminder starts from
and, in `SubmitForm`, the date of the mileage; both may be read from records as
they were a moment before the commit, and no property compares either with the
records of a moment. Equal readings are kept once, where the table may hold them
twice; no property can tell. That is why the properties speak of a step of a
check-in (`entry' # entry`) and not of a new reading. `SaveReminder` inserts a
mileage its handler may have read long before.

### The reminder engine

`DueStatus` and `Spend` are operators, not state machines. A pointer that may be
nil is a set of at most one value, so "if it is set" is a quantifier. Dates are
days since 2023-01-01 over real months (`Calendar`; its leap years are those of
1901 to 2099); `MonthOf` looks among the three months that can be meant, since a
month has 487/16 days on average; `AddMonths` runs past the end of a month as `AddDate` does. Mileages and cents
wrap at `MaxInt`, 2000 in the run, so that a sum can overflow. The driving rate
is a fraction where the code has a `float64`; nothing here depends on its last
bits. What the code accumulates in a loop over the history or the records is a
running sum here (`Sums`, `CappedSums`), and what it selects is the set of the
places that stay. `Spend` has the summary twice, as `AggregateSpend` computes it
and as the query of `VehicleSpend` does. Each is the set of the summaries its
sort may leave, and `SpendAgrees` says among other things that there is only one.

`Pages` opens a page on any input of small sets of mileage histories, days,
readings, form fields, ledgers and warranties, and states what must hold of it.
A page changes no row, so `MCReminders` opens them all before the first row.

### Reminders

`records` and `reminders` are the rows of one vehicle, `reading` its own mileage,
`form` a snooze that has been resolved against the list and not yet stored.
`CreateRecord` and `EditRecord` contain the UPDATE that ends a snooze.
`ClearOnEdit` is the code's second statement, which looks at the record's
previous type and date: `Latest(records, ...)` is the baseline before the edit,
`Latest(recs, ...)` after it. Transactions of two records are one step each;
under READ COMMITTED each may miss the other, but every outcome is one that they
have in one order or the other. `created_at` is taken before the transaction, so
`CreateRecord` may commit an older one later, or two equal ones.

### ReminderEmail

`run[r]` is the run under way: its step, the candidates it still has to do with
the cycle they were listed in, and what was sent. A cycle is the number of
matching records logged. Of the rows of `reminder_notifications` the newest is
kept, also when a run records an email older than the one that is there
(`Recorded`); it has the cycle it was sent in, so "sent at or after the baseline was created" is a
comparison of two numbers. Ages are in whole days; a row exactly as old as the
window may count or not, since the hour decides. `LogRecord` logs a record that
becomes the baseline.

A replica is up, stopping or down. `Stop` ends its jobs' contexts; a run then
stops at its next candidate, but an email under way is still recorded
(`WithoutCancel`). `CloseStore`, `Exit` and `ExitTimedOut` are
`closeStoreAfterSchedulers` and the return from `run`. Nothing is recorded
through a closed pool.

### Sessions

The tabs of one browser share its `cookie`; each waits for one answer. A sign-in
is the lookups of `Login`, the two halves of `UpsertUser` (its advisory lock
between them) and `CreateSession`, all separate steps. A token is its session.
The table's unique indexes are left out on purpose: `OneUserPerPerson` says they
have nothing to refuse. `policy` is the only state of the process, and a restart
may change it.

## The runs

| Run | Instance | Shows |
|---|---|---|
| `digest` | 2 scheduled replicas, 1 recall, 4 claims, 3 weeks, faults in the first two | `OncePerWeek`, `AnnouncedOnce`, `AnnouncedStaysMarked`, `OnlyUnsentReleased`, the inductive invariant `ClaimInv`, the refinement `KeepsPromise` and the liveness property `NewRecallsAnnounced` |
| `digest_worst` | one of two runs without a deadline, replies lost | what still holds then: `RepeatNeedsRelease`, `CompletedWasSent` |
| `digest_lost_reply` | replies lost | a finding, see below |
| `recall_check` | 2 checkers, 1 vehicle, 2 campaigns, 2 identities | `DismissalsMirrored`, `ShownFitsVehicle`, `BaselineIsSilent` |
| `recall_check_live` | 1 checker whose lock session may drop, 2 vehicles, one identity NHTSA never answers for | `DueVehiclesChecked` |
| `recall_check_wrong_vehicle` | 2 checkers, lock sessions drop | a finding |
| `recall_digest` | a checker and a runner, 1 vehicle, 1 campaign, 2 weeks | `RecallAnnouncedOnce`, `DismissedStaysSilent`, `DigestKept` |
| `assets` | 2 requests, 1 record, 1 vehicle, 2 keys, 2 receipts per form | `NoDanglingKey`, `DiscardsAreOrphans`, the inductive invariant `AssetInv`, and the liveness property `OrphansRemoved` |
| `mileage` | 2 visitors, 1 record, mileages 0..2, 2 days | `PendingUntilMileage`, `NoUnconfirmedDrop`, `OnlyReleasedLost`, `CheckInNeverLowers`, `SnapshotFixed` |
| `reminders` | 2 records of 2 services, a reminder that may be deleted and made anew, 3 days; histories and ledgers of up to 3 entries | `OverdueIsReached`, `OverdueStays`, `SnoozeEndsWithPromotion`; on the pages `HintComesTrue`, `SnoozeDefers`, `SpendAgrees`, `WarrantyEndsForGood` |
| `sessions` | 2 tabs, 2 accounts one of which takes the other's address, 2 policies, 2 sessions | `OneUserPerPerson`, `AccountKeepsAnAnchor`, `SignedOutStaysOut`, `SessionsEnd` |
| `reminder_email` | 2 replicas, 2 reminders one of which is always refused, a window of 2 days, 1 new cycle each, 1 fault or interruption | `DuplicatesCostFaults`, `AcceptedIsRecorded`, `OverdueMailed`, `ShutdownEnds` |

Why the bounds are enough for what they are asked: two runners are the least
that overlap, and no guard of the code looks at more than one other run; two
weeks are the least in which a week can be sent again or a recall announced in a
later one; three weeks leave one without faults after two with; a claim more than there are
weeks lets one be claimed, released and claimed again;
two identities let a vehicle be edited away and back; two records of two services let one
become the newest by being logged, edited or moved from the other service, and
cease to be by any of these; the days of `reminders` are January 31, March 2 and
4, 2024: a month from the first ends on the second, past the leap day, and the
third is two days later; a window of two
days has a day inside it and a day at its end; two keys let each of
two requests hold one, or one hold a file while the other's is referred to;
three mileages distinguish lower, equal and higher than a third. `Ids`, `Keys`, `MaxWeek`, `MaxMiles`,
`MaxDay`, `MaxFiles`, `MaxCycle`, `MaxTroubles`, `MaxNow`, `SessionIds`, `Days`,
`RecordDays` and `Times` bound what is unbounded in the program. Where a theorem
covers a property, the bounds no longer matter to it.

Symmetry is used in `recall_check`, `recall_check_wrong_vehicle` and `mileage`, for
checkers, campaigns, visitors and records, which the instance treats alike, and
never in a run of a liveness property.

Deadlock is checked in every run: there is no state in which nothing can happen.

### Fairness

* A digest or a check is started again and again by `schedule.Every`, and a run
  goes on until it ends, so each runner's steps are weakly fair. Faults are not.
* `NewWeek`, `SendHour` and `FileAges` are time passing.
* `OrphanSessionEnds` and `DeadSessionEnds`: PostgreSQL ends the session of a
  dead process.
* In `ReminderEmail` days pass, a run goes on or is refused while its process is
  up, and a stopped process is started again. A run of a stopping process has no
  fairness: it may hang, and the shutdown has to end all the same. Its timer is
  fair.
* In `Sessions` only the clock and the cleanup are fair; nobody has to sign in,
  come back or get an answer.
* `NewRecallsAnnounced` asks for one week without faults after weeks with any, and
  accepts three ways out: the recall stopped being open, a baseline took it, or
  a fault orphaned the claim that holds it. The last is the price of claiming
  first: those recalls are mailed by nobody.
* `digest`, `recall_check_live` and `assets` assume that faults stop some day
  (`<>[][Normal]_vars`); NHTSA may fail for some identities for ever.

## The proofs

Assumptions on constants are the named `ASSUME`s of each module: that null values
are not ordinary values, that bounds, days and mileages are numbers, that what a
form or page holds has its type. No size is fixed. Hypotheses beyond that are
named in the theorem, and there are three, all of them about the environment:

* `~LostReplies`: the relay's answer to an accepted message arrives. Without it
  `OncePerWeek` and what rests on it are false, as `digest_lost_reply` shows.
* `Deadlined = Runners`: every digest is run by the scheduler, which gives it 30
  minutes. A run by hand that loses its lock and crosses into the next week can
  put a recall in two messages.
* `~SessionDrops`: the lock of a check excludes. Without it `ShownFitsVehicle` is
  false, as `recall_check_wrong_vehicle` shows.

**Digest** (`DigestProofs`), in three layers, each with one step per action.

1. `TidyInv` is broken by nothing: claims are unique by week and id; a run between
   its claim and its outcome holds a claim of its own; a run about to send has not
   sent, and one about to complete has; a message and its claim are of one week.
   `TidyInvariant` proves it of `Spec` alone. `TypeCorrect`, `TablesTellTheTruth`
   and `RepeatsNeedRelease` follow, so a second mail in a week means a lost reply.
2. `ClaimInv` needs `~LostReplies`. `OncePerWeek` is not inductive: a second
   message is prevented by the claim, and the claim by the fact that a run may
   release it only while its message is not out. `ClaimInvariant`,
   `MailedOncePerWeek`, `ReleasesOnlyUnsent`.
3. `AnnounceInv` needs `Deadlined = Runners` too. A recall claimed since it was
   listed stays in the message, so the marks alone do not keep it from a second
   one. What does is the week: all runs under way are of one week
   (`RunsOfTheWeek`), whatever became of a recall since a run listed it happened
   in that week (`ListedThisWeek`), and a week has one message. `AnnounceInvariant`,
   `RecallsAnnouncedOnce`, `AnnouncementsStayMarked`.

`PromiseKept` is the refinement: under the invariants of the third layer an
initial state of `Digest` is one of `WeeklyMail`, and every step is one of its
steps or a stutter. A claim is WeeklyMail's claim, `Send` its mailing, `Release`
its withdrawal, which is why only unsent claims may be released; `Complete` and
everything the recall check does are stutters.

**RecallCheck** (`RecallProofs`). `DismissalsStick` is inductive by itself once
one sees that a row locked by a DELETE cannot be dismissed, and holds with
overlapping checks. `ShownAlwaysFits` needs the lock, and the invariant `FitInv`:
only the lock's holder is at work, so the rows its DELETE has locked are all the
vehicle's rows it does not list, and every row was last fetched for the identity
that is saved. It covers crashes, since PostgreSQL frees the lock only after the
process is gone. `FirstChecksAreSilent` adds `CoveredIsCurrent`: what a check has
read about an earlier check of the same identity is still so when it commits.

**RecallDigest** (`RecallProofs` too). `DigestKeepsItsSpecification` goes through
the recall side's actions and shows of each that the digest's module allows its
environment that step: a check may mark unmarked recalls as a baseline and change
which are open, and nothing else. With it `RecallsAnnouncedOnceHere` is the
digest's theorem, instantiated. `DismissedRecallsStaySilent` needs both sides: a
dismissed recall is not among the open ones (`DismissalsMirrored`), so the list of
a run that began after the dismissal does not have it.

**AssetStore** (`AssetProofs`). `NoDanglingKey` needs `AssetInv`: a key being
uploaded is known to nobody else and too young to be scanned; the keys read for
a record about to be deleted belong to no other row; keys are not shared between
rows; and of the files a walk has still to meet, those in use were in use when
the references were read. The last holds because a file enters use only while it
is younger than the cutoff.

**Mileage** (`MileageProofs`). `ComparedWithEachOther` follows from the row lock:
nobody else changes the mileage between a check-in's comparison and its save.
`FirstMileageStarts` and `SnapshotsAreFixed` are the two halves of a reminder's
start. `OnlyReleasedPointsAreLost` and `ChecksNeverLower` are about the steps of a
check-in, of which only `SaveCheckIn` changes what others see. The first needs the
invariant `ArchiveHolds`: from the archive to the commit the vehicle's point, if
the check-in is about to overwrite it, is archived, or on record, or released.
Record edits and deletions are the steps that could break it, and what they take
from the records they add to `released`. The second follows from the type
invariant.

**Sessions** (`SessionsProofs`). `SessionsInv` says that the users a sign-in has
read under the advisory lock are still the ones that match when it writes, that
nothing refers to a user who is not there, that a token is issued once and stays
gone once signed out, and that a request sent later finds no session. Users
change in `WriteUser` only; the lemma `Written` says how. `NobodyTwice`,
`NobodyReplaced` and `NobodyServedLate` follow, for any number of tabs.

**Reminders** (`RemindersProofs`, over the calendar of `PagesProofs`).

* Records: the lemma `BaselineIsNewest` says that the query's baseline is the
  newest record in the sense of the property; with it each action clears the
  snoozes of at most one service, and of that exactly when it promotes a record
  (`SnoozesAreServed`). `OneBaseline`: a service with records has a first one in
  the query's order. There are finitely many, as each is logged in a step, and
  the order is total; a least set of predecessors belongs to it.
* The calendar: every day lies in exactly one month, and `MonthOf` finds it
  (`MonthFound`, from the days of each month of a year and the mean length);
  months are 28 to 31 days. `WholeMonths` relates `AddDate` to counting in whole
  months: a day that far past has that many months behind it, and two days after
  that many months it is past, because an overrun at a month's end is three days
  at most and the day after the month's end counts already.
* `OverdueIsEarned` and `OverdueStaysOverdue` are these two, with the type
  invariant (`RemindersTypeCorrect`) and the wrapped sum of mileages
  (`WrapIsLess`).

The proof corrected the property. `OverdueIsReached` used to ask that *some*
matching record be an interval old, and the days of the run were too few to tell
that from *every*, as they do now. It says every one, and allows two days for the
overrun where it used to allow three.

**The pages** (`PagesProofs`), for any day, history, reading, form and ledger. A
page is what it was opened on (`PagesTyped`), so each theorem is about operators.

* Induction. The library's induction takes an operator as parameter; `NatSet`
  says the same of a set, and follows from `<` being well founded. With it
  `SumsExist` and `SumsAre` show that the recursive running sum of a sequence
  exists and has the two equations one expects, and from these come the sum of
  two columns, of a table by rows and by columns (`SumsOfRows`), of a partition
  (`SumOfParts`) and of marks, which is a cardinality (`CountIsSum`).
* `SpendingIsSummedOnce`. `CappedIsLeast`: adding with a cap at each step gives
  the true sum with one cap at the end, because nothing is negative. So the lines
  of the two summaries agree. The order of the types by uncapped total and then
  by name is total (`SoonerIsOrder`); a finite set has exactly one sequence in
  such an order (`OrderExists`, `OrderIsUnique`), so neither sort has a choice
  (`SortsAgree`). The lines partition the priced records, hence the totals
  (`LinesAdd`, `LinesCount`); those of the year are a part of them (`YearIsPart`).
* `HintsComeTrue`. The window never moves back when the day goes on
  (`WindowFollows`): within a month it moves a day at a time, and over the end of
  a month it rests on that month being at most one day longer than the same month
  a year before (`SameMonthLastYear`). A reading on a day helps exactly when that
  day's window still has one two weeks older (`EnoughIs`). For the 44 days after
  the first reading the window keeps it, being at least 56 days wide, and every
  earlier day lacks one old enough (`AgainComesTrue`). A span of two weeks means
  two different days, and `VarianceIsPositive` shows that the slope's denominator
  is then above zero: n times the sum of squares less the square of the sum grows
  with each day by the squared distances from it, as `SpreadStep` says.
* `AcceptedSnoozesDefer`: `Resolution` lists what a choice can resolve to, and
  `NextMonth` is about `addOneMonth`. `EndedWarrantiesStayEnded` needs nothing
  but the limits' types.

The rate is an exact fraction here. Where the code's `float64` rounds the
covariance of a nearly level history to another sign, the theorem does not speak
of the code.

**ReminderEmail** (`ReminderEmailProofs`). `AcceptedIsRecorded` needs that a row is
never overwritten by an older one. `EmailInv` adds: until there is a fault every
run holds the lock, the pool is open while there is a run, and what a run is
about to record is the newest email about its reminder.

`DuplicatesCostFaults` counts, and its invariant `Priced` counts two things more,
for each cycle of each reminder: the emails no row suppresses any longer
(`Exposed`: the reply or the record was lost, or the run that would record it is
not the lock's owner), and the runs that lost the lock and may still send
(`Strays`). Exposed emails and strays together are at most the faults: each began
with one. Emails and strays, and the email the lock's owner is about to send, are
at most one more, because the owner sends only when no row suppresses it, so that
all the emails of that cycle are exposed (`Orderly` says that rows are in the
order of their cycles, and that a run lists a candidate once). One step per
action; a step that sends nothing, loses no row and strays no run is the lemma
`PriceKept`.

Only model-checked are the liveness properties `NewRecallsAnnounced`,
`DueVehiclesChecked`, `OrphansRemoved`, `SessionsEnd`, `OverdueMailed` and
`ShutdownEnds`: liveness under fairness, and ENABLED, are beyond this prover.
Every safety invariant and every action property of a run is a theorem.

Type invariants are proved where there are proofs, and are not checked a second
time by the runs.

## Where the code and its documents disagree

1. **A lost reply mails twice** (`digest_lost_reply`). `digest.go` line 186
   releases the claim after any error of `Send`. If the relay accepted the message
   and only its answer was lost, the next run sends the week and its recalls
   again. `docs/ARCHITECTURE.md` lines 167-168 say a recall "is announced at most
   once"; `digest.go` lines 161-162 that nothing must lead to a second send once
   the relay may have the message.
2. **Recalls of another model** (`recall_check_wrong_vehicle`). With a dropped
   lock session and an edit between two overlapping checks, rows fetched for the
   old identity are shown under the new one until the next check. The comment at
   `recalls.go` lines 117-118 says they are left out.

**A point lost by a check-in** has no run of its own; it is what the exception in
`OnlyReleasedLost` stands for, and TLC finds it in six states when `released` is
replaced by `{}` there. The archive statement (`postgres_odometer.go` line 56)
skips the vehicle's dated mileage when a record holds the same point. If that
record is edited or deleted before the check-in commits, which takes no lock on
the vehicle, the check-in overwrites the only row that was left to hold the
point, and the projection loses it. The comment at `postgres_vehicles.go` lines
150-151, "check-ins keep history", does not hold then. Nothing else is ever lost.

Seen and not counted, because the documents allow them or no property states
them: a recall dismissed between listing and sending is still mailed; a claim
orphaned by a crash is never mailed and never released; a baseline check that
meets a digest's mark keeps that mark, and a later release removes it; a
point archived only as a record is lost from the projection when that record is
deleted later; a run by hand that loses its lock and crosses into the next week
can put a recall in two messages. A vehicle's form that was opened before a
check-in and is submitted after it, its mileage untouched, writes the old mileage
back and dates it today, as the last form saved wins everywhere. A snooze ends
only when a record is logged or edited into the newest: when the newest is
deleted or moved away and another takes its place, the snooze stays. A mileage
interval near the largest `int64` makes a reminder overdue at once, and "+500 mi"
there is refused by the table's CHECK. "Log mileage again" without a date may no
longer be enough tomorrow, when the first reading is almost a year old.
`AggregateSpend` counts records dated in the future into the lifetime total, as
the query does, though its comment says "through today". An email of an old cycle
that is recorded after a new record was logged counts for the new cycle and
delays its email by up to the window. A sign-in whose user was given another
address by another sign-in between the lookup and the transaction may fail on the
primary key; an account may take over a user with its address, and sessions made
before go on.

## Not modelled

Formatting, HTML, validation messages, metrics (`LeaderLocksHeld` with them),
configuration, exports and the encoding of mail: they change no state and order
nothing. A daily email whose 30 minutes are over while its process is up ends like
one that is stopped, and a lost answer to a sign-in leaves a session without a
cookie, which only the cleanup meets; neither is a step here. A DELETE of a recall
check that has to wait for a row works on the snapshot of its start, where
`DeleteUnlisted` reads what is committed when it goes on. `recall_digest` has a
single identity, so that a vehicle edited to another model and back between
announcements is left to the theorem `RecallsAnnouncedOnceHere`. Two cleanups at once, power failures below the file system, the deletion
of a vehicle or a user (the program does neither), the OAuth state cookie and the
shutdown of the HTTP and metrics listeners before that of the jobs. Readiness and
migrations are planned.

## Plan

Done, in this order: the digest, because it acts on the outside world and cannot
take it back; the recall check, which feeds it; their composition; files,
because lost receipts are lost; mileage, which everything else reads; the
reminder engine and its rows, the daily email with the shutdown, and sign-in.

Done of the proofs: every safety property and action property that a run checks,
and the refinement of `WeeklyMail`.

Left: two small modules with their proofs, `Readiness`, concurrent probes against
a check that hangs, and `Migrate`, ordered scripts under a lock.

----------------------------- MODULE RecallCheck -----------------------------
(***************************************************************************)
(* The NHTSA recall check and the household's answers to it:               *)
(* internal/recallcheck/runner.go over the vehicle_recalls,                *)
(* vehicle_recall_checks, recall_dismissals and recall_notifications       *)
(* tables of internal/repository/recalls.go.                               *)
(*                                                                         *)
(* A check holds the recall check's session advisory lock, lists the       *)
(* vehicles that are due, and for each of them fetches the campaigns of    *)
(* the year, make and model it listed and replaces the vehicle's rows in   *)
(* one READ COMMITTED transaction.  Meanwhile vehicles are edited and      *)
(* archived, recalls dismissed and restored, NHTSA changes its catalogue,  *)
(* fetches and transactions fail, and sessions drop under a running check. *)
(***************************************************************************)
EXTENDS Naturals

CONSTANTS
  Checkers,     \* processes that may run the check: replicas and the CLI
  Vehicles,
  Campaigns,
  Identities,   \* (year, make, model) triples NHTSA can be asked for
  Flaky,        \* identities NHTSA may go on failing to answer for
  SessionDrops, \* may a lock's session drop under a running check?
  NoIdentity,   \* no year, or a blank make or model; also: never checked
  NoOne,        \* no session owns the advisory lock
  Unmarked,     \* the recall has no recall_notifications row
  Baseline      \* its row has a NULL digest_id

ASSUME RecallConstants ==
  /\ NoOne \notin Checkers
  /\ NoIdentity \notin Identities
  /\ Flaky \subseteq Identities
  /\ SessionDrops \in BOOLEAN
  /\ Unmarked # Baseline

VARIABLES
  identity,     \* vehicles: the year, make and model it has now
  archived,     \* vehicles with archived_at set
  catalogue,    \* what NHTSA lists for each identity
  rows,         \* vehicle_recalls: (vehicle, campaign) pairs
  hidden,       \* those of them with dismissed_at set
  dismissals,   \* recall_dismissals
  checked,      \* vehicle_recall_checks: the identity last saved
  fresh,        \* vehicles checked within CheckAge
  notified,     \* recall_notifications: each recall's mark
  listedFor,    \* history: the identity whose fetch last listed a recall
  checkHolder,  \* the checker whose session owns the lock
  at,           \* where each checker's run is
  todo,         \* the (vehicle, identity) jobs it listed and has not begun
  job,          \* the one it works on
  found,        \* the campaigns fetched for it
  covered,      \* SaveRecallCheck: was this identity saved last?
  doomed        \* SaveRecallCheck: the rows its DELETE has locked

garage    == <<identity, archived>>
recallTables == <<rows, hidden, dismissals, checked, fresh, listedFor>>
work      == <<todo, job, found, covered, doomed>>
checkRun  == <<checkHolder, at, work>>
recallVars == <<garage, catalogue, recallTables, notified, checkRun>>

Pairs  == Vehicles \X Campaigns
Jobs   == [vehicle : Vehicles, identity : Identities]
Stages == {"idle", "listing", "choosing", "saving", "committing", "unlocking"}
NoJob  == [vehicle |-> NoOne, identity |-> NoIdentity]

RecallInit ==
  /\ identity \in [Vehicles -> Identities \cup {NoIdentity}]
  /\ archived = {}
  /\ catalogue \in [Identities -> SUBSET Campaigns]
  /\ rows = {} /\ hidden = {} /\ dismissals = {} /\ fresh = {}
  /\ checked = [v \in Vehicles |-> NoIdentity]
  /\ notified = [p \in Pairs |-> Unmarked]
  /\ listedFor = [p \in Pairs |-> NoIdentity]
  /\ checkHolder = NoOne
  /\ at = [k \in Checkers |-> "idle"]
  /\ todo = [k \in Checkers |-> {}]
  /\ job = [k \in Checkers |-> NoJob]
  /\ found = [k \in Checkers |-> {}]
  /\ covered = [k \in Checkers |-> FALSE]
  /\ doomed = [k \in Checkers |-> {}]

-----------------------------------------------------------------------------
(* What the household and the pages see.                                    *)

(* The join on vehicle_recall_checks: campaigns found for an identity the   *)
(* vehicle no longer has are left out.                                      *)
Current(v) == checked[v] # NoIdentity /\ checked[v] = identity[v]

(* ListRecalls: the campaigns a vehicle page shows, dismissed or not. *)
Shown == {p \in rows : Current(p[1])}

(* ListUnnotifiedRecalls before it looks at recall_notifications. *)
Open == {p \in Shown \ hidden : p[1] \notin archived}

-----------------------------------------------------------------------------
(* The household, NHTSA and the calendar.                                   *)

EditVehicle(v, i) ==
  /\ identity[v] # i
  /\ identity' = [identity EXCEPT ![v] = i]
  /\ UNCHANGED <<archived, catalogue, recallTables, notified, checkRun>>

Archive(v) ==
  /\ v \notin archived
  /\ archived' = archived \cup {v}
  /\ UNCHANGED <<identity, catalogue, recallTables, notified, checkRun>>

CatalogueChanges(i, listed) ==
  /\ catalogue[i] # listed
  /\ catalogue' = [catalogue EXCEPT ![i] = listed]
  /\ UNCHANGED <<garage, recallTables, notified, checkRun>>

CheckAges(v) ==
  /\ v \in fresh
  /\ fresh' = fresh \ {v}
  /\ UNCHANGED <<garage, catalogue, rows, hidden, dismissals, checked, listedFor,
                 notified, checkRun>>

(* A row some transaction has deleted and not yet committed stays locked. *)
Locked(p) == \E k \in Checkers : p \in doomed[k]

(* SetRecallDismissed finds no row of a campaign that is not listed. *)
Dismiss(p) ==
  /\ p \in rows
  /\ ~Locked(p)
  /\ hidden' = hidden \cup {p}
  /\ dismissals' = dismissals \cup {p}
  /\ UNCHANGED <<garage, catalogue, rows, checked, fresh, listedFor, notified, checkRun>>

Restore(p) ==
  /\ p \in rows
  /\ ~Locked(p)
  /\ hidden' = hidden \ {p}
  /\ dismissals' = dismissals \ {p}
  /\ UNCHANGED <<garage, catalogue, rows, checked, fresh, listedFor, notified, checkRun>>

-----------------------------------------------------------------------------
(* One check, step by step.                                                 *)

Proceed(k, stage) == at' = [at EXCEPT ![k] = stage]

(* The lock is the run's first statement; a run that does not get it ends. *)
StartCheck(k) ==
  /\ at[k] = "idle"
  /\ checkHolder = NoOne
  /\ checkHolder' = k
  /\ Proceed(k, "listing")
  /\ UNCHANGED <<garage, catalogue, recallTables, notified, work>>

CheckDue(v) ==
  /\ v \notin archived
  /\ identity[v] # NoIdentity
  /\ v \notin fresh \/ checked[v] # identity[v]

(* The vehicles carry the identity they had when they were listed.  The     *)
(* order of the list is left out: the run goes through it in any order.     *)
ListDueVehicles(k) ==
  /\ at[k] = "listing"
  /\ todo' = [todo EXCEPT ![k] =
       {[vehicle |-> v, identity |-> identity[v]] : v \in {u \in Vehicles : CheckDue(u)}}]
  /\ Proceed(k, "choosing")
  /\ UNCHANGED <<garage, catalogue, recallTables, notified, checkHolder,
                 job, found, covered, doomed>>

Fetch(k) ==
  /\ at[k] = "choosing"
  /\ \E j \in todo[k] :
       /\ todo' = [todo EXCEPT ![k] = @ \ {j}]
       /\ job' = [job EXCEPT ![k] = j]
       /\ found' = [found EXCEPT ![k] = catalogue[j.identity]]
  /\ Proceed(k, "saving")
  /\ UNCHANGED <<garage, catalogue, recallTables, notified, checkHolder, covered, doomed>>

Listed(k) == {<<job[k].vehicle, c>> : c \in found[k]}

(* SaveRecallCheck's first two statements: it reads whether the identity is *)
(* covered and deletes the rows no longer listed, of those it can see.  A   *)
(* row another check's transaction has deleted makes it wait.               *)
DeleteUnlisted(k) ==
  LET gone == {p \in rows : p[1] = job[k].vehicle} \ Listed(k) IN
  /\ at[k] = "saving"
  /\ \A p \in gone : ~Locked(p)
  /\ covered' = [covered EXCEPT ![k] = checked[job[k].vehicle] = job[k].identity]
  /\ doomed' = [doomed EXCEPT ![k] = gone]
  /\ Proceed(k, "committing")
  /\ UNCHANGED <<garage, catalogue, recallTables, notified, checkHolder, todo, job, found>>

(* The run is done with the vehicle, and its transaction has ended. *)
ForgetJob(k) ==
  /\ job' = [job EXCEPT ![k] = NoJob]
  /\ found' = [found EXCEPT ![k] = {}]
  /\ covered' = [covered EXCEPT ![k] = FALSE]
  /\ doomed' = [doomed EXCEPT ![k] = {}]

MutHideNothing(inserted) == {}

(* The INSERT's subselect: a recall dismissed earlier comes back dismissed. *)
HiddenOnInsert(inserted) == inserted \cap dismissals

MutMarkNothing(k) == {}

(* The first check of an identity announces nothing: it sets a baseline. *)
BaselineOf(k) == IF covered[k] THEN {} ELSE Listed(k)

MutMarksFollowRows(k) ==
  [p \in Pairs |-> IF p \in doomed[k] THEN Unmarked
                   ELSE IF p \in BaselineOf(k) /\ notified[p] = Unmarked THEN Baseline
                   ELSE notified[p]]

(* ON CONFLICT DO NOTHING: a recall a digest has marked keeps its mark, and *)
(* marks outlive the rows of vehicle_recalls.                               *)
MarksAfterSave(k) ==
  [p \in Pairs |-> IF p \in BaselineOf(k) /\ notified[p] = Unmarked THEN Baseline
                   ELSE notified[p]]

MutSavedCurrent(k) == identity[job[k].vehicle]

SavedIdentity(k) == job[k].identity

(* The rest of SaveRecallCheck: the upserts, the baseline's marks and the   *)
(* vehicle_recall_checks row, made visible together by the COMMIT.  An      *)
(* upsert waits for the transaction that deleted its row.                   *)
SaveCheck(k) ==
  LET v        == job[k].vehicle
      kept     == rows \ doomed[k]
      inserted == Listed(k) \ kept
  IN
  /\ at[k] = "committing"
  /\ \A p \in Listed(k) : ~Locked(p)
  /\ rows' = kept \cup Listed(k)
  /\ hidden' = (hidden \cap kept) \cup HiddenOnInsert(inserted)
  /\ notified' = MarksAfterSave(k)
  /\ checked' = [checked EXCEPT ![v] = SavedIdentity(k)]
  /\ fresh' = fresh \cup {v}
  /\ listedFor' = [p \in Pairs |-> IF p \in Listed(k) THEN job[k].identity ELSE listedFor[p]]
  /\ ForgetJob(k)
  /\ Proceed(k, "choosing")
  /\ UNCHANGED <<garage, catalogue, dismissals, checkHolder, todo>>

AllChecked(k) ==
  /\ at[k] = "choosing"
  /\ todo[k] = {}
  /\ Proceed(k, "unlocking")
  /\ UNCHANGED <<garage, catalogue, recallTables, notified, checkHolder, work>>

(* Closing the session frees the lock only if that session still owns it. *)
UnlockCheck(k) ==
  /\ at[k] = "unlocking"
  /\ checkHolder' = IF checkHolder = k THEN NoOne ELSE checkHolder
  /\ todo' = [todo EXCEPT ![k] = {}]
  /\ Proceed(k, "idle")
  /\ UNCHANGED <<garage, catalogue, recallTables, notified, job, found, covered, doomed>>

CheckStep(k) ==
  \/ StartCheck(k) \/ ListDueVehicles(k) \/ Fetch(k) \/ DeleteUnlisted(k)
  \/ SaveCheck(k) \/ AllChecked(k) \/ UnlockCheck(k)

-----------------------------------------------------------------------------
(* What goes wrong.                                                         *)

MutFetchFailureEndsRun(k, flaky) ==
  /\ at[k] = "choosing"
  /\ \E j \in todo[k] : flaky <=> j.identity \in Flaky
  /\ Proceed(k, "unlocking")
  /\ UNCHANGED <<garage, catalogue, recallTables, notified, checkHolder, work>>

(* NHTSA does not answer for one vehicle: it is logged and the run goes on. *)
FetchFails(k, flaky) ==
  /\ at[k] = "choosing"
  /\ \E j \in todo[k] :
       /\ flaky <=> j.identity \in Flaky
       /\ todo' = [todo EXCEPT ![k] = @ \ {j}]
  /\ UNCHANGED <<garage, catalogue, recallTables, notified, checkHolder, at,
                 job, found, covered, doomed>>

(* The transaction fails or deadlocks and is rolled back; the run goes on. *)
SaveFails(k) ==
  /\ at[k] \in {"saving", "committing"}
  /\ ForgetJob(k)
  /\ Proceed(k, "choosing")
  /\ UNCHANGED <<garage, catalogue, recallTables, notified, checkHolder, todo>>

(* The list cannot be read, or the run's context is cancelled or past its   *)
(* deadline: Run unlocks and returns the errors.                            *)
StopCheck(k) ==
  /\ at[k] \in {"listing", "choosing"}
  /\ Proceed(k, "unlocking")
  /\ UNCHANGED <<garage, catalogue, recallTables, notified, checkHolder, work>>

(* The process dies; PostgreSQL rolls its transaction back, but has not     *)
(* noticed the end of the lock's session yet.                               *)
CheckerDies(k) ==
  /\ at[k] # "idle"
  /\ ForgetJob(k)
  /\ todo' = [todo EXCEPT ![k] = {}]
  /\ Proceed(k, "idle")
  /\ UNCHANGED <<garage, catalogue, recallTables, notified, checkHolder>>

(* The lock's session drops under a running check, which does not notice. *)
CheckSessionDrops ==
  /\ SessionDrops
  /\ checkHolder # NoOne
  /\ at[checkHolder] # "idle"
  /\ checkHolder' = NoOne
  /\ UNCHANGED <<garage, catalogue, recallTables, notified, at, work>>

(* PostgreSQL ends the session of a process that died. *)
DeadSessionEnds ==
  /\ checkHolder # NoOne
  /\ at[checkHolder] = "idle"
  /\ checkHolder' = NoOne
  /\ UNCHANGED <<garage, catalogue, recallTables, notified, at, work>>

CheckFault ==
  \/ CheckSessionDrops
  \/ \E k \in Checkers :
       \/ FetchFails(k, FALSE) \/ SaveFails(k) \/ StopCheck(k) \/ CheckerDies(k)

Household ==
  \/ \E v \in Vehicles : Archive(v) \/ \E i \in Identities \cup {NoIdentity} : EditVehicle(v, i)
  \/ \E p \in Pairs : Dismiss(p) \/ Restore(p)

RecallNormal ==
  \/ Household
  \/ \E v \in Vehicles : CheckAges(v)
  \/ \E i \in Identities, listed \in SUBSET Campaigns : CatalogueChanges(i, listed)
  \/ \E k \in Checkers : CheckStep(k) \/ FetchFails(k, TRUE)
  \/ DeadSessionEnds

RecallNext == RecallNormal \/ CheckFault

RecallSpec == RecallInit /\ [][RecallNext]_recallVars

(* The scheduler starts a check every six hours and a check goes on until   *)
(* it ends; PostgreSQL notices dead sessions; faults die down, except that  *)
(* NHTSA may fail for the flaky identities forever.                         *)
RecallFairness ==
  /\ \A k \in Checkers : WF_recallVars(CheckStep(k))
  /\ WF_recallVars(DeadSessionEnds)
  /\ <>[][RecallNormal]_recallVars

FairRecallSpec == RecallSpec /\ RecallFairness

-----------------------------------------------------------------------------
RecallTypeOK ==
  /\ identity \in [Vehicles -> Identities \cup {NoIdentity}]
  /\ archived \subseteq Vehicles
  /\ catalogue \in [Identities -> SUBSET Campaigns]
  /\ rows \subseteq Pairs /\ hidden \subseteq Pairs /\ dismissals \subseteq Pairs
  /\ checked \in [Vehicles -> Identities \cup {NoIdentity}]
  /\ fresh \subseteq Vehicles
  /\ DOMAIN notified = Pairs
  /\ listedFor \in [Pairs -> Identities \cup {NoIdentity}]
  /\ checkHolder \in Checkers \cup {NoOne}
  /\ at \in [Checkers -> Stages]
  /\ todo \in [Checkers -> SUBSET Jobs]
  /\ job \in [Checkers -> Jobs \cup {NoJob}]
  /\ \A k \in Checkers : at[k] \in {"saving", "committing"} <=> job[k] # NoJob
  /\ found \in [Checkers -> SUBSET Campaigns]
  /\ covered \in [Checkers -> BOOLEAN]
  /\ doomed \in [Checkers -> SUBSET Pairs]

(* dismissed_at of the listed campaigns mirrors recall_dismissals, although *)
(* the checks delete and reinsert the rows behind the household's back: a   *)
(* campaign NHTSA drops and lists again stays dismissed, and one that was   *)
(* restored does not come back dismissed.                                   *)
DismissalsMirrored == hidden = rows \cap dismissals

(* No page shows, and no digest lists, a campaign of a year, make or model  *)
(* that the vehicle does not have now: vehicles are edited while their      *)
(* campaigns are fetched and saved.  Needs the lock to exclude.             *)
ShownFitsVehicle == \A p \in Shown : listedFor[p] = identity[p[1]]

(* A baseline is silent: a listed campaign without a mark was found by a    *)
(* check of an identity already checked before, so what a first check finds *)
(* is never announced as new.  Stated over the steps that make a recall     *)
(* ready to be announced.                                                   *)
Unannounced == {p \in rows : notified[p] = Unmarked}

BaselineIsSilent ==
  [][\A p \in Unannounced' \ Unannounced :
       checked[p[1]] # NoIdentity /\ checked'[p[1]] = checked[p[1]]]_recallVars

(* A vehicle whose campaigns are out of date is checked again, whatever     *)
(* NHTSA does for other identities, unless it is edited or archived first.  *)
DueVehiclesChecked ==
  \A v \in Vehicles : \A i \in Identities \ Flaky :
    (CheckDue(v) /\ identity[v] = i)
      ~> ((v \in fresh /\ checked[v] = i) \/ identity[v] # i \/ v \in archived)
=============================================================================

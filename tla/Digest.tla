------------------------------- MODULE Digest -------------------------------
(***************************************************************************)
(* The weekly reminder digest: internal/reminderemail/digest.go over the   *)
(* reminder_digests and recall_notifications tables of                     *)
(* internal/repository/reminder_digest.go.                                 *)
(*                                                                         *)
(* Every replica runs the job hourly, and carma-reminders --digest runs it *)
(* by hand.  A run reads the clock, takes the digest's session advisory    *)
(* lock, looks for this week's claim, reads what there is to report,       *)
(* claims the week and its recalls in one transaction, sends, and then     *)
(* either completes the claim or releases it.  Between any two of those    *)
(* steps other runs, the recall check, dismissals and the calendar move,   *)
(* a session can drop and a process can die.                               *)
(***************************************************************************)
EXTENDS Naturals, Sequences

CONSTANTS
  Runners,      \* processes that may run the job: replicas and the CLI
  Deadlined,    \* those whose run is cut off after backgroundJobTimeout
  Recalls,      \* (vehicle, campaign) pairs
  Ids,          \* digest uuids
  MaxWeek,      \* the last calendar week of the instance
  FaultyWeeks,  \* the weeks in which something may go wrong
  LostReplies,  \* may the relay accept a message and its reply get lost?
  NoOne,        \* no session owns the advisory lock
  NoId,         \* the run holds no claim
  Unmarked,     \* the recall has no recall_notifications row
  Baseline      \* its row has a NULL digest_id

ASSUME ConstantsAssumption ==
  /\ Deadlined \subseteq Runners
  /\ MaxWeek \in Nat \ {0}
  /\ LostReplies \in BOOLEAN
  /\ NoOne \notin Runners
  /\ NoId \notin Ids
  /\ Unmarked \notin Ids
  /\ Baseline \notin Ids
  /\ Unmarked # Baseline

VARIABLES
  week,         \* the current household week
  early,        \* is it still before Monday 08:00?
  lockHolder,   \* the runner whose session owns the lock
  pc,           \* where each runner's run is
  runWeek,      \* report.WeekStart of the run, read once at its start
  snapshot,     \* the recalls the run listed and renders
  claimId,      \* the uuid of the claim the run holds
  digests,      \* rows of reminder_digests
  notified,     \* recall_notifications: each recall's mark
  open,         \* recalls that are listed, current and not dismissed
  mailbox       \* every message the relay accepted, in order

calendar == <<week, early>>
run      == <<pc, runWeek, snapshot, claimId>>
tables   == <<digests, notified>>
vars     == <<calendar, lockHolder, run, tables, open, mailbox>>

Weeks   == 1..MaxWeek
Digests == [id : Ids, week : Weeks, sent : BOOLEAN]
Mail    == [id : Ids, week : Weeks, recalls : SUBSET Recalls]
Places  == {"idle", "starting", "checking", "listing", "reserving",
            "sending", "releasing", "completing", "unlocking"}

Init ==
  /\ week = 1
  /\ early = TRUE
  /\ lockHolder = NoOne
  /\ pc = [r \in Runners |-> "idle"]
  /\ runWeek = [r \in Runners |-> 1]
  /\ snapshot = [r \in Runners |-> {}]
  /\ claimId = [r \in Runners |-> NoId]
  /\ digests = {}
  /\ notified = [c \in Recalls |-> Unmarked]
  /\ open = {}
  /\ mailbox = <<>>

-----------------------------------------------------------------------------
(* The calendar.  The early hours separate the weeks: a run has a deadline  *)
(* of 30 minutes, so one begun last week is over by Monday 08:00.  A run    *)
(* started by hand has no deadline and may cross into the next week.        *)

NewWeek ==
  /\ ~early
  /\ week < MaxWeek
  /\ week' = week + 1
  /\ early' = TRUE
  /\ UNCHANGED <<lockHolder, run, tables, open, mailbox>>

SendHour ==
  /\ early
  /\ \A r \in Deadlined : pc[r] # "idle" => runWeek[r] = week
  /\ early' = FALSE
  /\ UNCHANGED <<week, lockHolder, run, tables, open, mailbox>>

(* What the recall check and the dismissals do to the recalls a run may     *)
(* list: any of them appears or disappears, and a baseline check marks the  *)
(* recalls it finds, unless they are marked already.                        *)
RecallsChange ==
  \E o, found \in SUBSET Recalls :
    /\ open' = o
    /\ notified' = [c \in Recalls |->
         IF c \in found /\ notified[c] = Unmarked THEN Baseline ELSE notified[c]]
    /\ UNCHANGED <<calendar, lockHolder, run, digests, mailbox>>

-----------------------------------------------------------------------------
(* The repository's statements and transactions.  The definitions named      *)
(* Mut... are not part of the model: each is a bug that a property of this  *)
(* module catches when it takes the place of the definition below it.       *)

MutClaimedIfSent(w) == \E d \in digests : d.week = w /\ d.sent

Claimed(w) == \E d \in digests : d.week = w

MutAllOpen == open

Unnotified == {c \in open : notified[c] = Unmarked}

(* A uuid that names no row, no message and no other run.  Which one does   *)
(* not matter, since uuids are only compared: one is taken, so that runs of *)
(* liveness, which allow no symmetry, stay small.                           *)
FreshIds ==
  LET unused == Ids \ ({d.id : d \in digests}
                       \cup {mailbox[i].id : i \in DOMAIN mailbox}
                       \cup {claimId[r] : r \in Runners})
  IN {i \in unused : i = CHOOSE u \in unused : TRUE}

MutReserveUnmarked(i, w, recalls) ==
  /\ digests' = digests \cup {[id |-> i, week |-> w, sent |-> FALSE]}
  /\ UNCHANGED notified

(* INSERT the claim; mark its recalls, a recall already marked keeps its    *)
(* mark; COMMIT.                                                            *)
ReserveTx(i, w, recalls) ==
  /\ digests' = digests \cup {[id |-> i, week |-> w, sent |-> FALSE]}
  /\ notified' = [c \in Recalls |->
       IF c \in recalls /\ notified[c] = Unmarked THEN i ELSE notified[c]]

(* DELETE the claim unless it was completed; if it was there, its marks too. *)
ReleaseTx(i) ==
  LET unsent == {d \in digests : d.id = i /\ ~d.sent} IN
  /\ digests' = digests \ unsent
  /\ notified' = [c \in Recalls |->
       IF unsent # {} /\ notified[c] = i THEN Unmarked ELSE notified[c]]

CompleteTx(i) ==
  /\ digests' = {IF d.id = i THEN [d EXCEPT !.sent = TRUE] ELSE d : d \in digests}
  /\ UNCHANGED notified

-----------------------------------------------------------------------------
(* One run, step by step.                                                   *)

Goto(r, place) == pc' = [pc EXCEPT ![r] = place]

(* The process forgets the run. *)
EndRun(r) ==
  /\ Goto(r, "idle")
  /\ snapshot' = [snapshot EXCEPT ![r] = {}]
  /\ claimId' = [claimId EXCEPT ![r] = NoId]
  /\ UNCHANGED runWeek

(* Run reads the clock once; before Monday 08:00 it returns at once. *)
Start(r) ==
  /\ pc[r] = "idle"
  /\ ~early
  /\ Goto(r, "starting")
  /\ runWeek' = [runWeek EXCEPT ![r] = week]
  /\ UNCHANGED <<calendar, lockHolder, snapshot, claimId, tables, open, mailbox>>

TryLock(r) ==
  /\ pc[r] = "starting"
  /\ \/ /\ lockHolder = NoOne
        /\ lockHolder' = r
        /\ Goto(r, "checking")
     \/ /\ lockHolder # NoOne
        /\ Goto(r, "idle")
        /\ UNCHANGED lockHolder
  /\ UNCHANGED <<calendar, runWeek, snapshot, claimId, tables, open, mailbox>>

CheckClaimed(r) ==
  /\ pc[r] = "checking"
  /\ Goto(r, IF Claimed(runWeek[r]) THEN "unlocking" ELSE "listing")
  /\ UNCHANGED <<calendar, lockHolder, runWeek, snapshot, claimId, tables, open, mailbox>>

MutOnlyReminders(dueReminders, recalls) == dueReminders

AnythingToReport(dueReminders, recalls) == dueReminders \/ recalls # {}

(* Whether a reminder is due is the environment's choice: the protocol only *)
(* asks whether there is anything to report.                                *)
ListDue(r) ==
  /\ pc[r] = "listing"
  /\ snapshot' = [snapshot EXCEPT ![r] = Unnotified]
  /\ \E dueReminders \in BOOLEAN :
       Goto(r, IF AnythingToReport(dueReminders, Unnotified)
               THEN "reserving" ELSE "unlocking")
  /\ UNCHANGED <<calendar, lockHolder, runWeek, claimId, tables, open, mailbox>>

HoldClaim(r, i) == claimId' = [claimId EXCEPT ![r] = i]

Reserve(r) ==
  /\ pc[r] = "reserving"
  /\ IF Claimed(runWeek[r])
     THEN /\ Goto(r, "unlocking")
          /\ UNCHANGED <<claimId, tables>>
     ELSE \E i \in FreshIds :
            /\ ReserveTx(i, runWeek[r], snapshot[r])
            /\ HoldClaim(r, i)
            /\ Goto(r, "sending")
  /\ UNCHANGED <<calendar, lockHolder, runWeek, snapshot, open, mailbox>>

Message(r) == [id |-> claimId[r], week |-> runWeek[r], recalls |-> snapshot[r]]

Send(r) ==
  /\ pc[r] = "sending"
  /\ mailbox' = Append(mailbox, Message(r))
  /\ Goto(r, "completing")
  /\ UNCHANGED <<calendar, lockHolder, runWeek, snapshot, claimId, tables, open>>

Release(r) ==
  /\ pc[r] = "releasing"
  /\ ReleaseTx(claimId[r])
  /\ Goto(r, "unlocking")
  /\ UNCHANGED <<calendar, lockHolder, runWeek, snapshot, claimId, open, mailbox>>

Complete(r) ==
  /\ pc[r] = "completing"
  /\ CompleteTx(claimId[r])
  /\ Goto(r, "unlocking")
  /\ UNCHANGED <<calendar, lockHolder, runWeek, snapshot, claimId, open, mailbox>>

(* Closing the session frees the lock only if that session still owns it. *)
Unlock(r) ==
  /\ pc[r] = "unlocking"
  /\ EndRun(r)
  /\ lockHolder' = IF lockHolder = r THEN NoOne ELSE lockHolder
  /\ UNCHANGED <<calendar, tables, open, mailbox>>

Step(r) ==
  \/ Start(r) \/ TryLock(r) \/ CheckClaimed(r) \/ ListDue(r) \/ Reserve(r)
  \/ Send(r) \/ Release(r) \/ Complete(r) \/ Unlock(r)

-----------------------------------------------------------------------------
(* What goes wrong.                                                         *)

(* The lock cannot be tried: whatever session there was is closed. *)
LockError(r) ==
  /\ pc[r] = "starting"
  /\ Goto(r, "idle")
  /\ UNCHANGED <<calendar, lockHolder, runWeek, snapshot, claimId, tables, open, mailbox>>

MutAuditFailureReleases(r) ==
  /\ pc[r] \in {"checking", "listing", "reserving", "releasing", "completing"}
  /\ Goto(r, IF pc[r] = "completing" THEN "releasing" ELSE "unlocking")
  /\ UNCHANGED <<calendar, lockHolder, runWeek, snapshot, claimId, tables, open, mailbox>>

(* A statement fails, the context is cancelled or past its deadline, or the *)
(* recipients cannot be resolved: Run returns the error.                    *)
DbError(r) ==
  /\ pc[r] \in {"checking", "listing", "reserving", "releasing", "completing"}
  /\ Goto(r, "unlocking")
  /\ UNCHANGED <<calendar, lockHolder, runWeek, snapshot, claimId, tables, open, mailbox>>

(* The claim commits and its acknowledgement is lost: Run returns the error *)
(* and never sends, and the claim stands.                                   *)
ReserveAckLost(r) ==
  /\ pc[r] = "reserving"
  /\ ~Claimed(runWeek[r])
  /\ \E i \in FreshIds : ReserveTx(i, runWeek[r], snapshot[r])
  /\ Goto(r, "unlocking")
  /\ UNCHANGED <<calendar, lockHolder, runWeek, snapshot, claimId, open, mailbox>>

MutRejectionUnnoticed(r) ==
  /\ pc[r] = "sending"
  /\ Goto(r, "completing")
  /\ UNCHANGED <<calendar, lockHolder, runWeek, snapshot, claimId, tables, open, mailbox>>

(* The relay refuses the message, or is never reached. *)
SendRejected(r) ==
  /\ pc[r] = "sending"
  /\ Goto(r, "releasing")
  /\ UNCHANGED <<calendar, lockHolder, runWeek, snapshot, claimId, tables, open, mailbox>>

(* The relay accepts the message but its answer to DATA never arrives.      *)
SendReplyLost(r) ==
  /\ LostReplies
  /\ pc[r] = "sending"
  /\ mailbox' = Append(mailbox, Message(r))
  /\ Goto(r, "releasing")
  /\ UNCHANGED <<calendar, lockHolder, runWeek, snapshot, claimId, tables, open>>

(* The process dies; PostgreSQL has not noticed its session's end yet. *)
Crash(r) ==
  /\ pc[r] # "idle"
  /\ EndRun(r)
  /\ UNCHANGED <<calendar, lockHolder, tables, open, mailbox>>

(* The lock's session drops under a running job, which does not notice. *)
SessionDropped ==
  /\ lockHolder # NoOne
  /\ pc[lockHolder] \notin {"idle", "starting"}
  /\ lockHolder' = NoOne
  /\ UNCHANGED <<calendar, run, tables, open, mailbox>>

(* PostgreSQL ends the session of a process that died. *)
OrphanSessionEnds ==
  /\ lockHolder # NoOne
  /\ pc[lockHolder] \in {"idle", "starting"}
  /\ lockHolder' = NoOne
  /\ UNCHANGED <<calendar, run, tables, open, mailbox>>

Fault ==
  /\ week \in FaultyWeeks
  /\ \/ SessionDropped
     \/ \E r \in Runners :
          \/ LockError(r) \/ DbError(r) \/ ReserveAckLost(r)
          \/ SendRejected(r) \/ SendReplyLost(r) \/ Crash(r)

Normal ==
  \/ NewWeek \/ SendHour \/ RecallsChange \/ OrphanSessionEnds
  \/ \E r \in Runners : Step(r)

Next == Normal \/ Fault

Spec == Init /\ [][Next]_vars

(* The scheduler runs the job every hour and a run goes on until it ends;   *)
(* time passes; and PostgreSQL notices dead sessions.                       *)
Fairness ==
  /\ \A r \in Runners : WF_vars(Step(r))
  /\ WF_vars(NewWeek) /\ WF_vars(SendHour) /\ WF_vars(OrphanSessionEnds)

FairSpec == Spec /\ Fairness

-----------------------------------------------------------------------------
TypeOK ==
  /\ week \in Weeks
  /\ early \in BOOLEAN
  /\ lockHolder \in Runners \cup {NoOne}
  /\ pc \in [Runners -> Places]
  /\ runWeek \in [Runners -> Weeks]
  /\ snapshot \in [Runners -> SUBSET Recalls]
  /\ claimId \in [Runners -> Ids \cup {NoId}]
  /\ digests \subseteq Digests
  /\ notified \in [Recalls -> Ids \cup {Unmarked, Baseline}]
  /\ open \subseteq Recalls
  /\ mailbox \in Seq(Mail)

(* One email per week: the relay never accepts two messages for a week,     *)
(* whatever runs overlap, sessions drop, writes fail and processes die.     *)
(* digest.go claims the week before it sends, and only a failed send may    *)
(* give the claim back.                                                     *)
OncePerWeek ==
  \A i, j \in DOMAIN mailbox : mailbox[i].week = mailbox[j].week => i = j

(* A recall is announced at most once, although runs list recalls before    *)
(* they claim them and a recall already claimed stays in the message.       *)
AnnouncedOnce ==
  \A i, j \in DOMAIN mailbox :
    mailbox[i].recalls \cap mailbox[j].recalls # {} => i = j

(* Even when a reply is lost, a second message for a week needs the claim   *)
(* of the first to have been given back: no claim that stands is sent again. *)
RepeatNeedsRelease ==
  \A i, j \in DOMAIN mailbox :
    i < j /\ mailbox[i].week = mailbox[j].week
      => \A d \in digests : d.id # mailbox[i].id

(* What was announced stays recorded: its week keeps a claim and its        *)
(* recalls keep a mark, so no later release makes them look new.            *)
AnnouncedStaysMarked ==
  \A i \in DOMAIN mailbox :
    /\ Claimed(mailbox[i].week)
    /\ \A c \in mailbox[i].recalls : notified[c] # Unmarked

(* No recall is silenced by a claim that no longer exists: a mark made by a *)
(* digest belongs to a row of reminder_digests.                             *)
MarksHaveClaim ==
  \A c \in Recalls :
    notified[c] \in Ids => \E d \in digests : d.id = notified[c]

(* sent_at tells the truth: a completed claim's message was accepted.       *)
CompletedWasSent ==
  \A d \in digests : d.sent => \E i \in DOMAIN mailbox : mailbox[i].id = d.id

(* Why a week is never mailed twice: the inductive invariant behind         *)
(* OncePerWeek.  Claims are unique by week and by uuid; a run between its   *)
(* claim and its outcome holds a claim of its own that stands and is not    *)
(* completed; the message of a claim that may still be released is not out; *)
(* and every message that is out has its claim.                             *)
InFlight(r) == pc[r] \in {"sending", "releasing", "completing"}

UniqueClaims ==
  \A d, e \in digests : d.week = e.week \/ d.id = e.id => d = e

InFlightClaims ==
  \A r \in Runners : InFlight(r) =>
    [id |-> claimId[r], week |-> runWeek[r], sent |-> FALSE] \in digests

DistinctHolders ==
  \A r, s \in Runners : claimId[r] = claimId[s] /\ claimId[r] # NoId => r = s

MayReleaseUnsent ==
  \A r \in Runners : pc[r] \in {"sending", "releasing"} =>
    \A i \in DOMAIN mailbox : mailbox[i].id # claimId[r]

CompletingSent ==
  \A r \in Runners : pc[r] = "completing" =>
    \E i \in DOMAIN mailbox : mailbox[i].id = claimId[r]

MailHasClaim ==
  /\ \A i \in DOMAIN mailbox :
       \E d \in digests : d.id = mailbox[i].id /\ d.week = mailbox[i].week
  /\ \A i, j \in DOMAIN mailbox : mailbox[i].id = mailbox[j].id => i = j

ClaimInv ==
  /\ UniqueClaims
  /\ InFlightClaims
  /\ DistinctHolders
  /\ MayReleaseUnsent
  /\ CompletingSent
  /\ MailHasClaim
  /\ CompletedWasSent
  /\ MarksHaveClaim

(* A claim whose message may be out is never released.                      *)
OnlyUnsentReleased ==
  [][\A d \in digests :
       (~\E e \in digests' : e.id = d.id)
         => \A i \in DOMAIN mailbox : mailbox[i].id # d.id]_vars

Announced(c) == \E i \in DOMAIN mailbox : c \in mailbox[i].recalls

(* The recall is marked by a claim no run holds: a fault hit its run between *)
(* the claim and the end of the send.                                       *)
Orphaned(c) == notified[c] \in Ids /\ \A r \in Runners : claimId[r] # notified[c]

(* An open recall no digest announced yet is announced, once a week without *)
(* faults comes, unless it stops being open, a baseline takes it, or a      *)
(* fault orphaned the claim that holds it.  Asked of instances whose last   *)
(* week is free of faults.                                                  *)
NewRecallsAnnounced ==
  \A c \in Recalls :
    (c \in open /\ notified[c] = Unmarked /\ week < MaxWeek)
      ~> (Announced(c) \/ c \notin open \/ notified[c] = Baseline \/ Orphaned(c))

(* The promise of WeeklyMail, kept by the claims table and the messages.    *)
Promise == INSTANCE WeeklyMail WITH
  stage  <- [w \in Weeks |-> IF \E i \in DOMAIN mailbox : mailbox[i].week = w THEN "mailed"
                             ELSE IF Claimed(w) THEN "claimed" ELSE "free"],
  letter <- [w \in Weeks |-> UNION {mailbox[i].recalls :
                                      i \in {j \in DOMAIN mailbox : mailbox[j].week = w}}]

KeepsPromise == Promise!Spec
=============================================================================

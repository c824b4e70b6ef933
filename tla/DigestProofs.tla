---------------------------- MODULE DigestProofs ----------------------------
(***************************************************************************)
(* The weekly digest's safety, for any number of runners, recalls and      *)
(* weeks: what holds whatever goes wrong, what also holds as long as the   *)
(* relay's replies arrive, what the deadline of a run adds to that, and    *)
(* that the digest keeps the promise of WeeklyMail.                        *)
(***************************************************************************)
EXTENDS Digest, Integers, TLAPS

USE ConstantsAssumption

-----------------------------------------------------------------------------
(* The inductive invariant that nothing can break, lost replies included.   *)

(* A run that is about to send has not sent. *)
SendingUnsent ==
  \A r \in Runners : pc[r] = "sending" =>
    \A i \in DOMAIN mailbox : mailbox[i].id # claimId[r]

(* A message is known by its claim's uuid: no two messages share one, and   *)
(* the claim, while it stands, is of the message's week.                    *)
MailOrderly ==
  /\ \A i \in DOMAIN mailbox, d \in digests : d.id = mailbox[i].id => d.week = mailbox[i].week
  /\ \A i, j \in DOMAIN mailbox : mailbox[i].id = mailbox[j].id => i = j
  /\ RepeatNeedsRelease

TidyInv ==
  /\ UniqueClaims
  /\ InFlightClaims
  /\ DistinctHolders
  /\ SendingUnsent
  /\ CompletingSent
  /\ MailOrderly
  /\ CompletedWasSent
  /\ MarksHaveClaim

-----------------------------------------------------------------------------
LEMMA AppendFacts ==
  ASSUME NEW S, NEW s \in Seq(S), NEW x \in S
  PROVE  /\ Append(s, x) \in Seq(S)
         /\ DOMAIN Append(s, x) = DOMAIN s \cup {Len(s) + 1}
         /\ Len(s) + 1 \notin DOMAIN s
         /\ \A i \in DOMAIN s : i < Len(s) + 1 /\ Append(s, x)[i] = s[i]
         /\ Append(s, x)[Len(s) + 1] = x
  OBVIOUS

(* A run that is in flight holds the uuid of a row, so its message is Mail. *)
LEMMA MessageIsMail ==
  ASSUME TypeOK, InFlightClaims, NEW r \in Runners, InFlight(r)
  PROVE  Message(r) \in Mail
  BY DEF TypeOK, InFlightClaims, Message, Mail, Digests, Weeks

LEMMA InitInv == Init => TypeOK /\ TidyInv
  BY DEF Init, TypeOK, Weeks, Places, Digests, Mail, TidyInv, UniqueClaims,
         InFlightClaims, InFlight, DistinctHolders, SendingUnsent,
         CompletingSent, MailOrderly, RepeatNeedsRelease, CompletedWasSent, MarksHaveClaim

LEMMA TypeStep == TypeOK /\ InFlightClaims /\ [Next]_vars => TypeOK'
<1> SUFFICES ASSUME TypeOK, InFlightClaims, [Next]_vars PROVE TypeOK'
  OBVIOUS
<1> USE DEF TypeOK, Weeks, Places, Goto
<1>1. CASE NewWeek
  BY <1>1 DEF NewWeek, run, tables
<1>2. CASE SendHour
  BY <1>2 DEF SendHour, run, tables
<1>3. CASE RecallsChange
  BY <1>3 DEF RecallsChange, run, calendar
<1>4. CASE OrphanSessionEnds \/ SessionDropped
  BY <1>4 DEF OrphanSessionEnds, SessionDropped, run, calendar, tables
<1>5. ASSUME NEW r \in Runners, Start(r) \/ TryLock(r) \/ CheckClaimed(r)
      PROVE  TypeOK'
  <2>1. CASE Start(r)
    BY <2>1 DEF Start, calendar, tables
  <2>2. CASE TryLock(r)
    BY <2>2 DEF TryLock, calendar, tables
  <2>3. CASE CheckClaimed(r)
    BY <2>3 DEF CheckClaimed, calendar, tables
  <2> QED
    BY <1>5, <2>1, <2>2, <2>3
<1>12. ASSUME NEW r \in Runners, ListDue(r)
       PROVE  TypeOK'
  <2>1. \E place \in {"reserving", "unlocking"} : pc' = [pc EXCEPT ![r] = place]
    BY <1>12 DEF ListDue
  <2>2. snapshot' = [snapshot EXCEPT ![r] = Unnotified] /\ Unnotified \subseteq Recalls
    BY <1>12 DEF ListDue, Unnotified
  <2>3. pc' \in [Runners -> Places] /\ snapshot' \in [Runners -> SUBSET Recalls]
    BY <2>1, <2>2
  <2> QED
    BY <1>12, <2>3 DEF ListDue, calendar, tables
<1>6. ASSUME NEW r \in Runners, Reserve(r) \/ ReserveAckLost(r)
      PROVE  TypeOK'
  <2>1. ASSUME NEW i \in Ids, ReserveTx(i, runWeek[r], snapshot[r])
        PROVE  /\ digests' \subseteq Digests
               /\ notified' \in [Recalls -> Ids \cup {Unmarked, Baseline}]
    <3>1. [id |-> i, week |-> runWeek[r], sent |-> FALSE] \in Digests
      BY DEF Digests
    <3>2. digests' \subseteq Digests
      BY <2>1, <3>1 DEF ReserveTx
    <3>3. notified' \in [Recalls -> Ids \cup {Unmarked, Baseline}]
      BY <2>1 DEF ReserveTx
    <3> QED
      BY <3>2, <3>3
  <2>2. CASE Reserve(r) /\ Claimed(runWeek[r])
    BY <2>2 DEF Reserve, calendar, tables
  <2>3. CASE Reserve(r) /\ ~Claimed(runWeek[r])
    <3>1. PICK i \in Ids : /\ ReserveTx(i, runWeek[r], snapshot[r])
                           /\ HoldClaim(r, i)
                           /\ Goto(r, "sending")
      BY <2>3 DEF Reserve, FreshIds
    <3> QED
      BY <2>1, <2>3, <3>1 DEF Reserve, HoldClaim, calendar
  <2>4. CASE ReserveAckLost(r)
    <3>1. PICK i \in Ids : ReserveTx(i, runWeek[r], snapshot[r])
      BY <2>4 DEF ReserveAckLost, FreshIds
    <3> QED
      BY <2>1, <2>4, <3>1 DEF ReserveAckLost, calendar
  <2> QED
    BY <1>6, <2>2, <2>3, <2>4
<1>7. ASSUME NEW r \in Runners, Send(r) \/ SendReplyLost(r)
      PROVE  TypeOK'
  <2>1. InFlight(r)
    BY <1>7 DEF Send, SendReplyLost, InFlight
  <2>2. Message(r) \in Mail
    BY <2>1, MessageIsMail
  <2>3. mailbox' \in Seq(Mail)
    <3>1. mailbox' = Append(mailbox, Message(r))
      BY <1>7 DEF Send, SendReplyLost
    <3> QED
      BY <2>2, <3>1
  <2>4. CASE Send(r)
    BY <2>3, <2>4 DEF Send, calendar, tables
  <2>5. CASE SendReplyLost(r)
    BY <2>3, <2>5 DEF SendReplyLost, calendar, tables
  <2> QED
    BY <1>7, <2>4, <2>5
<1>8. ASSUME NEW r \in Runners, Release(r) \/ Complete(r)
      PROVE  TypeOK'
  <2>1. CASE Release(r)
    BY <2>1 DEF Release, ReleaseTx, calendar
  <2>2. CASE Complete(r)
    <3>1. digests' \subseteq Digests
      <4>1. \A d \in Digests : [d EXCEPT !.sent = TRUE] \in Digests
        BY DEF Digests
      <4>2. digests' = {IF d.id = claimId[r] THEN [d EXCEPT !.sent = TRUE] ELSE d : d \in digests}
        BY <2>2 DEF Complete, CompleteTx
      <4> QED
        BY <4>1, <4>2
    <3> QED
      BY <2>2, <3>1 DEF Complete, CompleteTx, calendar
  <2> QED
    BY <1>8, <2>1, <2>2
<1>9. ASSUME NEW r \in Runners, Unlock(r) \/ Crash(r)
      PROVE  TypeOK'
  BY <1>9 DEF Unlock, Crash, EndRun, calendar, tables
<1>10. ASSUME NEW r \in Runners, LockError(r) \/ DbError(r) \/ SendRejected(r)
       PROVE  TypeOK'
  BY <1>10 DEF LockError, DbError, SendRejected, calendar, tables
<1>11. CASE UNCHANGED vars
  BY <1>11 DEF vars, run, tables, calendar
<1> QED
  BY <1>1, <1>2, <1>3, <1>4, <1>5, <1>6, <1>7, <1>8, <1>9, <1>10, <1>11,
     <1>12 DEF Next, Normal, Step, Fault

(* What a fresh uuid is fresh for. *)
LEMMA FreshFacts ==
  ASSUME TypeOK, NEW i \in FreshIds
  PROVE  /\ i \in Ids
         /\ \A d \in digests : d.id # i
         /\ \A j \in DOMAIN mailbox : mailbox[j].id # i
         /\ \A s \in Runners : claimId[s] # i
  BY DEF FreshIds

(* Claiming a free week under a fresh uuid keeps the tables in order. *)
LEMMA ReserveTxKeeps ==
  ASSUME TypeOK, TidyInv, NEW i \in FreshIds, NEW w \in Weeks,
         NEW S \in SUBSET Recalls, ~Claimed(w), ReserveTx(i, w, S), mailbox' = mailbox
  PROVE  UniqueClaims' /\ MailOrderly' /\ CompletedWasSent' /\ MarksHaveClaim'
<1> DEFINE new == [id |-> i, week |-> w, sent |-> FALSE]
<1>1. digests' = digests \cup {new}
  BY DEF ReserveTx
<1>2. \A d \in digests : d.week # w /\ d.id # i
  BY FreshFacts DEF Claimed
<1>3. UniqueClaims'
  <2>1. new.week = w /\ new.id = i
    OBVIOUS
  <2>2. \A d \in digests' : d \in digests \/ d = new
    BY <1>1
  <2> HIDE DEF new
  <2> QED
    BY <1>2, <2>1, <2>2 DEF TidyInv, UniqueClaims
<1>4. MailOrderly'
  <2>1. \A d \in digests' : d \in digests \/ d.id = i
    BY <1>1
  <2>2. \A j \in DOMAIN mailbox : mailbox[j].id # i
    BY FreshFacts
  <2> QED
    BY <2>1, <2>2 DEF TidyInv, MailOrderly, RepeatNeedsRelease
<1>5. CompletedWasSent'
  <2>1. \A d \in digests' : d.sent => d \in digests
    BY <1>1
  <2> QED
    BY <2>1 DEF TidyInv, CompletedWasSent
<1>6. MarksHaveClaim'
  <2>1. \A c \in Recalls : notified'[c] \in {notified[c], i}
    BY DEF ReserveTx
  <2>2. digests \subseteq digests' /\ new \in digests' /\ new.id = i
    BY <1>1
  <2> QED
    BY <2>1, <2>2 DEF TidyInv, MarksHaveClaim
<1> QED
  BY <1>3, <1>4, <1>5, <1>6

(* A step that leaves the tables and the mail alone and moves a run to a    *)
(* place where it holds no claim.                                           *)
LEMMA LeavesFlight ==
  ASSUME TypeOK, TidyInv, NEW r \in Runners,
         NEW place \in Places \ {"sending", "releasing", "completing"},
         pc' = [pc EXCEPT ![r] = place],
         claimId' = claimId \/ claimId' = [claimId EXCEPT ![r] = NoId],
         \A s \in Runners \ {r} : runWeek'[s] = runWeek[s]
  PROVE  /\ \A s \in Runners : InFlight(s)' =>
              s # r /\ InFlight(s) /\ pc'[s] = pc[s]
         /\ \A s \in Runners \ {r} : claimId'[s] = claimId[s]
         /\ DistinctHolders'
         /\ UNCHANGED mailbox => SendingUnsent' /\ CompletingSent'
<1> USE DEF TypeOK, InFlight
<1>1. \A s \in Runners : InFlight(s)' => s # r /\ InFlight(s) /\ pc'[s] = pc[s]
  OBVIOUS
<1>2. \A s \in Runners \ {r} : claimId'[s] = claimId[s]
  OBVIOUS
<1>3. DistinctHolders'
  BY <1>2 DEF TidyInv, DistinctHolders
<1>4. ASSUME UNCHANGED mailbox PROVE SendingUnsent' /\ CompletingSent'
  <2>1. \A s \in Runners \ {r} : pc'[s] = pc[s]
    OBVIOUS
  <2>2. pc'[r] \notin {"sending", "releasing", "completing"}
    OBVIOUS
  <2>3. SendingUnsent'
    BY <1>2, <1>4, <2>1, <2>2 DEF TidyInv, SendingUnsent
  <2>4. CompletingSent'
    BY <1>2, <1>4, <2>1, <2>2 DEF TidyInv, CompletingSent
  <2> QED BY <2>3, <2>4
<1> QED
  BY <1>1, <1>2, <1>3, <1>4

(* What accepting a message does, whether or not its reply arrives. *)
LEMMA SentFacts ==
  ASSUME TypeOK, InFlightClaims, DistinctHolders, NEW r \in Runners, Send(r) \/ SendReplyLost(r)
  PROVE  /\ pc[r] = "sending" /\ claimId[r] # NoId
         /\ \A s \in Runners \ {r} : claimId[s] # claimId[r]
         /\ pc'[r] \in {"completing", "releasing"} /\ \A s \in Runners \ {r} : pc'[s] = pc[s]
         /\ UNCHANGED <<week, early, claimId, runWeek, snapshot, digests, notified>>
         /\ mailbox' = Append(mailbox, Message(r)) /\ Message(r) \in Mail
         /\ DOMAIN mailbox' = DOMAIN mailbox \cup {Len(mailbox) + 1}
         /\ Len(mailbox) + 1 \notin DOMAIN mailbox
         /\ \A i \in DOMAIN mailbox : i < Len(mailbox) + 1 /\ mailbox'[i] = mailbox[i]
         /\ mailbox'[Len(mailbox) + 1] = Message(r)
         /\ mailbox'[Len(mailbox) + 1].id = claimId[r]
         /\ mailbox'[Len(mailbox) + 1].week = runWeek[r]
         /\ mailbox'[Len(mailbox) + 1].recalls = snapshot[r]
<1>1. /\ pc[r] = "sending"
      /\ \E place \in {"completing", "releasing"} : pc' = [pc EXCEPT ![r] = place]
      /\ UNCHANGED <<week, early, claimId, runWeek, snapshot, digests, notified>>
      /\ mailbox' = Append(mailbox, Message(r))
  BY DEF Send, SendReplyLost, Goto, calendar, tables
<1>2. Message(r) \in Mail
  BY <1>1, MessageIsMail DEF InFlight
<1>3. claimId[r] # NoId
  BY <1>2 DEF Message, Mail
<1>4. \A s \in Runners \ {r} : claimId[s] # claimId[r]
  BY <1>3 DEF DistinctHolders
<1>5. pc'[r] \in {"completing", "releasing"} /\ \A s \in Runners \ {r} : pc'[s] = pc[s]
  BY <1>1 DEF TypeOK
<1>6. /\ DOMAIN mailbox' = DOMAIN mailbox \cup {Len(mailbox) + 1}
      /\ Len(mailbox) + 1 \notin DOMAIN mailbox
      /\ \A i \in DOMAIN mailbox : i < Len(mailbox) + 1 /\ mailbox'[i] = mailbox[i]
      /\ mailbox'[Len(mailbox) + 1] = Message(r)
  BY <1>1, <1>2, AppendFacts DEF TypeOK
<1>7. /\ Message(r).id = claimId[r] /\ Message(r).week = runWeek[r]
      /\ Message(r).recalls = snapshot[r]
  BY DEF Message
<1> QED BY <1>1, <1>2, <1>3, <1>4, <1>5, <1>6, <1>7

LEMMA TidyStep ==
  ASSUME TypeOK, TidyInv, [Next]_vars
  PROVE  TidyInv'
<1>1. ASSUME UNCHANGED <<pc, claimId, runWeek, tables, mailbox>>
      PROVE  TidyInv'
  BY <1>1 DEF TidyInv, UniqueClaims, InFlightClaims, InFlight, DistinctHolders,
              SendingUnsent, CompletingSent, MailOrderly, RepeatNeedsRelease, CompletedWasSent,
              MarksHaveClaim, tables
<1>2. CASE RecallsChange
  <2>1. UNCHANGED <<pc, claimId, runWeek, digests, mailbox>>
    BY <1>2 DEF RecallsChange, run
  <2>2. \A c \in Recalls : notified'[c] \in {notified[c], Baseline}
    BY <1>2 DEF RecallsChange
  <2>3. MarksHaveClaim'
    BY <2>1, <2>2, ConstantsAssumption DEF TidyInv, MarksHaveClaim
  <2> QED
    BY <2>1, <2>3
       DEF TidyInv, UniqueClaims, InFlightClaims, InFlight, DistinctHolders,
           SendingUnsent, CompletingSent, MailOrderly, RepeatNeedsRelease, CompletedWasSent
<1>3. ASSUME NEW r \in Runners, UNCHANGED <<tables, mailbox>>,
             NEW place \in Places \ {"sending", "releasing", "completing"},
             pc' = [pc EXCEPT ![r] = place],
             claimId' = claimId \/ claimId' = [claimId EXCEPT ![r] = NoId],
             \A s \in Runners \ {r} : runWeek'[s] = runWeek[s]
      PROVE  TidyInv'
  <2>1. InFlightClaims'
    BY <1>3, LeavesFlight DEF TidyInv, InFlightClaims, tables
  <2>2. UniqueClaims' /\ MailOrderly' /\ CompletedWasSent' /\ MarksHaveClaim'
    BY <1>3 DEF TidyInv, UniqueClaims, MailOrderly, RepeatNeedsRelease, CompletedWasSent,
                MarksHaveClaim, tables
  <2> QED
    BY <1>3, <2>1, <2>2, LeavesFlight DEF TidyInv
<1>4. ASSUME NEW r \in Runners, Reserve(r), ~Claimed(runWeek[r])
      PROVE  TidyInv'
  <2>1. PICK i \in FreshIds : /\ ReserveTx(i, runWeek[r], snapshot[r])
                              /\ claimId' = [claimId EXCEPT ![r] = i]
                              /\ pc' = [pc EXCEPT ![r] = "sending"]
    BY <1>4 DEF Reserve, HoldClaim, Goto
  <2>2. UNCHANGED <<runWeek, mailbox>>
    BY <1>4 DEF Reserve
  <2>3. UniqueClaims' /\ MailOrderly' /\ CompletedWasSent' /\ MarksHaveClaim'
    BY <1>4, <2>1, <2>2, ReserveTxKeeps DEF TypeOK
  <2>4. /\ claimId'[r] = i /\ pc'[r] = "sending"
        /\ \A s \in Runners \ {r} : claimId'[s] = claimId[s] /\ pc'[s] = pc[s]
    BY <2>1 DEF TypeOK
  <2>5. InFlightClaims'
    <3>1. /\ digests \subseteq digests'
          /\ [id |-> i, week |-> runWeek[r], sent |-> FALSE] \in digests'
      BY <2>1 DEF ReserveTx
    <3> QED
      BY <2>2, <2>4, <3>1 DEF TidyInv, InFlightClaims, InFlight
  <2>6. DistinctHolders'
    BY <2>4, FreshFacts DEF TidyInv, DistinctHolders
  <2>7. SendingUnsent' /\ CompletingSent'
    BY <2>2, <2>4, FreshFacts DEF TidyInv, SendingUnsent, CompletingSent
  <2> QED
    BY <2>3, <2>5, <2>6, <2>7 DEF TidyInv
<1>5. ASSUME NEW r \in Runners, ReserveAckLost(r)
      PROVE  TidyInv'
  <2>1. PICK i \in FreshIds : ReserveTx(i, runWeek[r], snapshot[r])
    BY <1>5 DEF ReserveAckLost
  <2>2. /\ UNCHANGED <<runWeek, claimId, mailbox>> /\ ~Claimed(runWeek[r])
        /\ pc' = [pc EXCEPT ![r] = "unlocking"]
    BY <1>5 DEF ReserveAckLost, Goto
  <2>3. UniqueClaims' /\ MailOrderly' /\ CompletedWasSent' /\ MarksHaveClaim'
    BY <2>1, <2>2, ReserveTxKeeps DEF TypeOK
  <2>4. InFlightClaims'
    BY <2>1, <2>2, LeavesFlight DEF TidyInv, InFlightClaims, ReserveTx, Places
  <2> QED
    BY <2>2, <2>3, <2>4, LeavesFlight DEF TidyInv, Places
<1>6. ASSUME NEW r \in Runners, Send(r) \/ SendReplyLost(r)
      PROVE  TidyInv'
  <2> DEFINE last == Len(mailbox) + 1
  <2>1. /\ pc[r] = "sending" /\ claimId[r] # NoId
        /\ \A s \in Runners \ {r} : claimId[s] # claimId[r]
        /\ pc'[r] \in {"completing", "releasing"} /\ \A s \in Runners \ {r} : pc'[s] = pc[s]
        /\ UNCHANGED <<claimId, runWeek, digests, notified>>
    BY <1>6, SentFacts DEF TidyInv
  <2>2. /\ DOMAIN mailbox' = DOMAIN mailbox \cup {last}
        /\ last \notin DOMAIN mailbox
        /\ \A i \in DOMAIN mailbox : i < last /\ mailbox'[i] = mailbox[i]
        /\ mailbox'[last].id = claimId[r] /\ mailbox'[last].week = runWeek[r]
    BY <1>6, SentFacts DEF TidyInv
  <2> HIDE DEF last
  <2>3. /\ \A i \in DOMAIN mailbox : mailbox[i].id # claimId[r]
        /\ [id |-> claimId[r], week |-> runWeek[r], sent |-> FALSE] \in digests
    BY <2>1 DEF TidyInv, SendingUnsent, InFlightClaims, InFlight
  <2>4. InFlightClaims'
    BY <2>1 DEF TidyInv, InFlightClaims, InFlight
  <2>5. SendingUnsent'
    BY <2>1, <2>2 DEF TidyInv, SendingUnsent
  <2>6. CompletingSent'
    BY <2>1, <2>2 DEF TidyInv, CompletingSent
  <2>7. MailOrderly'
    <3>1. \A d \in digests : d.id = claimId[r] \/ d.week = runWeek[r] => d.id = claimId[r] /\ d.week = runWeek[r]
      BY <2>3 DEF TidyInv, UniqueClaims
    <3>2. \A i \in DOMAIN mailbox', d \in digests' : d.id = mailbox'[i].id => d.week = mailbox'[i].week
      BY <2>1, <2>2, <3>1 DEF TidyInv, MailOrderly
    <3>3. \A i, j \in DOMAIN mailbox' : mailbox'[i].id = mailbox'[j].id => i = j
      BY <2>2, <2>3 DEF TidyInv, MailOrderly
    <3>4. RepeatNeedsRelease'
      <4> SUFFICES ASSUME NEW i \in DOMAIN mailbox', NEW j \in DOMAIN mailbox',
                          i < j, mailbox'[i].week = mailbox'[j].week, NEW d \in digests
                   PROVE  d.id # mailbox'[i].id
        BY <2>1 DEF RepeatNeedsRelease
      <4>1. i \in DOMAIN mailbox /\ mailbox'[i] = mailbox[i]
        <5>1. i # last
          BY <2>2 DEF last
        <5> QED BY <2>2, <5>1
      <4>2. CASE j = last
        BY <2>2, <2>3, <3>1, <4>1, <4>2 DEF TidyInv, MailOrderly
      <4>3. CASE j # last
        BY <2>2, <4>1, <4>3 DEF TidyInv, MailOrderly, RepeatNeedsRelease
      <4> QED BY <4>2, <4>3
    <3> QED BY <3>2, <3>3, <3>4 DEF MailOrderly
  <2>8. CompletedWasSent'
    BY <2>1, <2>2 DEF TidyInv, CompletedWasSent
  <2>9. UniqueClaims' /\ DistinctHolders' /\ MarksHaveClaim'
    BY <2>1 DEF TidyInv, UniqueClaims, DistinctHolders, MarksHaveClaim
  <2> QED
    BY <2>4, <2>5, <2>6, <2>7, <2>8, <2>9 DEF TidyInv
<1>7. ASSUME NEW r \in Runners, SendRejected(r)
      PROVE  TidyInv'
  <2>1. /\ pc[r] = "sending" /\ pc' = [pc EXCEPT ![r] = "releasing"]
        /\ UNCHANGED <<claimId, runWeek, tables, mailbox>>
    BY <1>7 DEF SendRejected, Goto
  <2>2. \A s \in Runners : /\ InFlight(s)' => InFlight(s)
                           /\ pc'[s] \in {"sending", "releasing"} =>
                                pc[s] \in {"sending", "releasing"}
                           /\ pc'[s] = "completing" => pc[s] = "completing"
    BY <2>1 DEF TypeOK, InFlight
  <2> QED
    BY <2>1, <2>2 DEF TidyInv, UniqueClaims, InFlightClaims, DistinctHolders,
         SendingUnsent, CompletingSent, MailOrderly, RepeatNeedsRelease, CompletedWasSent,
         MarksHaveClaim, tables
<1>8. ASSUME NEW r \in Runners, Release(r)
      PROVE  TidyInv'
  <2> DEFINE claim == [id |-> claimId[r], week |-> runWeek[r], sent |-> FALSE]
  <2>1. /\ pc[r] = "releasing" /\ pc' = [pc EXCEPT ![r] = "unlocking"]
        /\ UNCHANGED <<claimId, runWeek, mailbox>>
        /\ ReleaseTx(claimId[r])
    BY <1>8 DEF Release, Goto
  <2>2. claim \in digests /\ claimId[r] # NoId
    BY <2>1, ConstantsAssumption DEF TidyInv, InFlightClaims, InFlight, TypeOK, Digests
  <2>3. digests' = {d \in digests : d.id # claimId[r]}
    <3>1. \A d \in digests : d.id = claimId[r] => d = claim
      BY <2>2 DEF TidyInv, UniqueClaims
    <3> QED
      BY <2>1, <2>2, <3>1 DEF ReleaseTx
  <2>4. \A c \in Recalls : \/ notified[c] = claimId[r] /\ notified'[c] = Unmarked
                           \/ notified[c] # claimId[r] /\ notified'[c] = notified[c]
    BY <2>1, <2>2 DEF ReleaseTx
  <2>5. InFlightClaims'
    <3>1. \A s \in Runners : InFlight(s)' =>
            InFlight(s) /\ claimId[s] # claimId[r]
      BY <2>1, <2>2, LeavesFlight DEF TidyInv, DistinctHolders, Places
    <3> QED
      BY <2>1, <2>3, <3>1 DEF TidyInv, InFlightClaims
  <2>6. UniqueClaims' /\ CompletedWasSent'
    BY <2>1, <2>3 DEF TidyInv, UniqueClaims, CompletedWasSent
  <2>7. MailOrderly'
    BY <2>1, <2>3 DEF TidyInv, MailOrderly, RepeatNeedsRelease
  <2>8. MarksHaveClaim'
    BY <2>3, <2>4, ConstantsAssumption DEF TidyInv, MarksHaveClaim
  <2> QED
    BY <2>1, <2>5, <2>6, <2>7, <2>8, LeavesFlight DEF TidyInv, Places
<1>9. ASSUME NEW r \in Runners, Complete(r)
      PROVE  TidyInv'
  <2> DEFINE Done(d) == IF d.id = claimId[r] THEN [d EXCEPT !.sent = TRUE] ELSE d
  <2>1. /\ pc[r] = "completing" /\ pc' = [pc EXCEPT ![r] = "unlocking"]
        /\ UNCHANGED <<claimId, runWeek, notified, mailbox>>
        /\ digests' = {Done(d) : d \in digests}
    BY <1>9 DEF Complete, CompleteTx, Goto
  <2>2. /\ \A d \in digests : /\ Done(d) \in digests'
                              /\ Done(d).id = d.id /\ Done(d).week = d.week
                              /\ d.id # claimId[r] => Done(d) = d
        /\ \A e \in digests' : \E d \in digests : e = Done(d)
    <3>1. \A d \in digests : /\ [d EXCEPT !.sent = TRUE].id = d.id
                             /\ [d EXCEPT !.sent = TRUE].week = d.week
      BY DEF TypeOK, Digests
    <3>2. \A d \in digests : Done(d) \in digests'
      BY <2>1
    <3>3. \A e \in digests' : \E d \in digests : e = Done(d)
      BY <2>1
    <3> QED
      BY <3>1, <3>2, <3>3
  <2> HIDE DEF Done
  <2>3. claimId[r] # NoId
    <3>1. [id |-> claimId[r], week |-> runWeek[r], sent |-> FALSE] \in Digests
      BY <2>1 DEF TidyInv, InFlightClaims, InFlight, TypeOK
    <3> QED
      BY <3>1, ConstantsAssumption DEF Digests
  <2>4. InFlightClaims'
    <3>1. \A s \in Runners : InFlight(s)' =>
            InFlight(s) /\ claimId[s] # claimId[r]
      BY <2>1, <2>3, LeavesFlight DEF TidyInv, DistinctHolders, Places
    <3> QED
      BY <2>1, <2>2, <3>1 DEF TidyInv, InFlightClaims
  <2>5. UniqueClaims'
    <3> SUFFICES ASSUME NEW e \in digests', NEW f \in digests',
                        e.week = f.week \/ e.id = f.id
                 PROVE  e = f
      BY DEF UniqueClaims
    <3>1. PICK d \in digests : e = Done(d)
      BY <2>2
    <3>2. PICK g \in digests : f = Done(g)
      BY <2>2
    <3>3. d.week = g.week \/ d.id = g.id
      BY <2>2, <3>1, <3>2
    <3> QED
      BY <3>1, <3>2, <3>3 DEF TidyInv, UniqueClaims
  <2>6. MailOrderly' /\ MarksHaveClaim'
    BY <2>1, <2>2 DEF TidyInv, MailOrderly, RepeatNeedsRelease, MarksHaveClaim
  <2>7. CompletedWasSent'
    <3>1. \E i \in DOMAIN mailbox : mailbox[i].id = claimId[r]
      BY <2>1 DEF TidyInv, CompletingSent
    <3> QED
      BY <2>1, <2>2, <3>1 DEF TidyInv, CompletedWasSent
  <2> QED
    BY <2>1, <2>4, <2>5, <2>6, <2>7, LeavesFlight DEF TidyInv, Places
<1>10. CASE NewWeek \/ SendHour \/ OrphanSessionEnds \/ SessionDropped
  BY <1>1, <1>10 DEF NewWeek, SendHour, OrphanSessionEnds, SessionDropped, run
<1>11. ASSUME NEW r \in Runners, Start(r) \/ LockError(r) \/ DbError(r)
       PROVE  TidyInv'
  <2>1. \E place \in {"starting", "idle", "unlocking"} : pc' = [pc EXCEPT ![r] = place]
    BY <1>11 DEF Start, LockError, DbError, Goto
  <2>2. /\ UNCHANGED <<claimId, tables, mailbox>>
        /\ \A s \in Runners \ {r} : runWeek'[s] = runWeek[s]
    BY <1>11 DEF Start, LockError, DbError, TypeOK
  <2> QED
    BY <1>3, <2>1, <2>2 DEF Places
<1>12. ASSUME NEW r \in Runners,
              TryLock(r) \/ CheckClaimed(r) \/ ListDue(r) \/ (Reserve(r) /\ Claimed(runWeek[r]))
       PROVE  TidyInv'
  <2>1. \E place \in {"checking", "idle", "listing", "reserving", "unlocking"} :
          pc' = [pc EXCEPT ![r] = place]
    BY <1>12 DEF TryLock, CheckClaimed, ListDue, Reserve, Goto
  <2>2. UNCHANGED <<claimId, runWeek, tables, mailbox>>
    BY <1>12 DEF TryLock, CheckClaimed, ListDue, Reserve
  <2> QED
    BY <1>3, <2>1, <2>2 DEF Places
<1>13. ASSUME NEW r \in Runners, Unlock(r) \/ Crash(r)
       PROVE  TidyInv'
  <2>1. /\ pc' = [pc EXCEPT ![r] = "idle"]
        /\ claimId' = [claimId EXCEPT ![r] = NoId]
        /\ UNCHANGED <<runWeek, tables, mailbox>>
    BY <1>13 DEF Unlock, Crash, EndRun, Goto
  <2> QED
    BY <1>3, <2>1 DEF Places
<1>14. CASE UNCHANGED vars
  BY <1>1, <1>14 DEF vars, run
<1> QED
  BY <1>2, <1>4, <1>5, <1>6, <1>7, <1>8, <1>9, <1>10, <1>11, <1>12, <1>13,
     <1>14 DEF Next, Normal, Step, Fault

(* The claims, whatever goes wrong: unique by week and by uuid, each held   *)
(* by one run at most, and in step with the messages that are out.  It      *)
(* needs no assumption on deadlines or on the relay: runs of different      *)
(* weeks may overlap, and a message may be out whose claim is given back.   *)
THEOREM TidyInvariant == Spec => [](TypeOK /\ TidyInv)
<1>1. Init => TypeOK /\ TidyInv
  BY InitInv
<1>2. TypeOK /\ TidyInv /\ [Next]_vars => TypeOK' /\ TidyInv'
  BY TypeStep, TidyStep DEF TidyInv
<1> QED
  BY <1>1, <1>2, PTL DEF Spec

(* Type correctness. *)
THEOREM TypeCorrect == Spec => []TypeOK
  BY TidyInvariant, PTL

(* sent_at is written only for messages the relay accepted, and no mark     *)
(* outlives the claim that made it (CompleteReminderDigest,                 *)
(* ReleaseReminderDigest).                                                  *)
THEOREM TablesTellTheTruth == Spec => [](CompletedWasSent /\ MarksHaveClaim)
<1>1. TidyInv => CompletedWasSent /\ MarksHaveClaim
  BY DEF TidyInv
<1> QED
  BY <1>1, TidyInvariant, PTL

(* A second message for a week is sent only after the claim of the first    *)
(* was given back, even when the relay's replies get lost (Run,             *)
(* ReserveReminderDigest).                                                  *)
THEOREM RepeatsNeedRelease == Spec => []RepeatNeedsRelease
<1>1. TidyInv => RepeatNeedsRelease
  BY DEF TidyInv, MailOrderly
<1> QED
  BY <1>1, TidyInvariant, PTL

-----------------------------------------------------------------------------
(* What also holds as long as the relay's replies arrive: a claim that may  *)
(* be released has no message out.                                          *)
LEMMA ClaimInit == Init => ClaimInv
  BY DEF Init, ClaimInv, UniqueClaims, InFlightClaims, InFlight, DistinctHolders,
         MayReleaseUnsent, CompletingSent, MailHasClaim, CompletedWasSent, MarksHaveClaim

LEMMA ClaimStep ==
  ASSUME ~LostReplies, TypeOK, TidyInv, ClaimInv, [Next]_vars, TidyInv'
  PROVE  ClaimInv'
<1> SUFFICES MayReleaseUnsent' /\ MailHasClaim'
  BY DEF TidyInv, ClaimInv
<1>1. ASSUME NEW r \in Runners, Send(r) PROVE MayReleaseUnsent' /\ MailHasClaim'
  <2>1. pc'[r] = "completing"
    BY <1>1 DEF Send, Goto, TypeOK
  <2>2. \A s \in Runners \ {r} : claimId'[s] # claimId'[r] /\ claimId'[s] = claimId[s] /\ pc'[s] = pc[s]
    BY <1>1, SentFacts DEF TidyInv
  <2>3. /\ DOMAIN mailbox' = DOMAIN mailbox \cup {Len(mailbox) + 1}
        /\ \A i \in DOMAIN mailbox : mailbox'[i] = mailbox[i]
        /\ mailbox'[Len(mailbox) + 1].id = claimId'[r]
        /\ mailbox'[Len(mailbox) + 1].week = runWeek[r]
        /\ claimId'[r] = claimId[r] /\ pc[r] = "sending" /\ digests' = digests
    BY <1>1, SentFacts DEF TidyInv
  <2>4. MayReleaseUnsent'
    BY <2>1, <2>2, <2>3 DEF ClaimInv, MayReleaseUnsent
  <2>5. \E d \in digests : d.id = claimId[r] /\ d.week = runWeek[r]
    BY <2>3 DEF TidyInv, InFlightClaims, InFlight
  <2>6. MailHasClaim'
    BY <2>3, <2>5 DEF ClaimInv, MailHasClaim, TidyInv, MailOrderly
  <2> QED BY <2>4, <2>6
<1>2. ASSUME mailbox' = mailbox,
             \A s \in Runners : pc'[s] \in {"sending", "releasing"} =>
               pc[s] \in {"sending", "releasing"} /\ claimId'[s] = claimId[s]
      PROVE  MayReleaseUnsent'
  BY <1>2 DEF ClaimInv, MayReleaseUnsent
<1>3. ASSUME mailbox' = mailbox, \A d \in digests : \E e \in digests' : e.id = d.id /\ e.week = d.week
      PROVE  MailHasClaim'
  BY <1>3 DEF ClaimInv, MailHasClaim
<1>4. ASSUME NEW r \in Runners, Reserve(r), ~Claimed(runWeek[r]) PROVE MayReleaseUnsent' /\ MailHasClaim'
  <2>1. PICK i \in FreshIds : /\ ReserveTx(i, runWeek[r], snapshot[r])
                              /\ claimId' = [claimId EXCEPT ![r] = i]
                              /\ pc' = [pc EXCEPT ![r] = "sending"]
    BY <1>4 DEF Reserve, HoldClaim, Goto
  <2>2. mailbox' = mailbox
    BY <1>4 DEF Reserve
  <2>3. MayReleaseUnsent'
    BY <2>1, <2>2, FreshFacts DEF ClaimInv, MayReleaseUnsent, TypeOK
  <2>4. digests \subseteq digests'
    BY <2>1 DEF ReserveTx
  <2> QED BY <1>3, <2>2, <2>3, <2>4
<1>5. ASSUME NEW r \in Runners, ReserveAckLost(r) PROVE MayReleaseUnsent' /\ MailHasClaim'
  <2>1. digests \subseteq digests' /\ UNCHANGED <<claimId, mailbox>> /\ pc' = [pc EXCEPT ![r] = "unlocking"]
    BY <1>5 DEF ReserveAckLost, ReserveTx, Goto
  <2> QED BY <1>2, <1>3, <2>1 DEF TypeOK
<1>6. ASSUME NEW r \in Runners, Release(r) PROVE MayReleaseUnsent' /\ MailHasClaim'
  <2>1. /\ pc[r] = "releasing" /\ pc' = [pc EXCEPT ![r] = "unlocking"]
        /\ UNCHANGED <<claimId, mailbox>>
        /\ \A d \in digests : d.id # claimId[r] => d \in digests'
    BY <1>6 DEF Release, ReleaseTx, Goto
  <2>2. \A i \in DOMAIN mailbox : mailbox[i].id # claimId[r]
    BY <2>1 DEF ClaimInv, MayReleaseUnsent
  <2>3. MailHasClaim'
    BY <2>1, <2>2 DEF ClaimInv, MailHasClaim
  <2> QED BY <1>2, <2>1, <2>3 DEF TypeOK
<1>7. ASSUME NEW r \in Runners, Complete(r) PROVE MayReleaseUnsent' /\ MailHasClaim'
  <2>1. /\ pc' = [pc EXCEPT ![r] = "unlocking"] /\ UNCHANGED <<claimId, mailbox>>
        /\ \A d \in digests : IF d.id = claimId[r] THEN [d EXCEPT !.sent = TRUE] \in digests' ELSE d \in digests'
    BY <1>7 DEF Complete, CompleteTx, Goto
  <2>2. \A d \in digests : [d EXCEPT !.sent = TRUE].id = d.id /\ [d EXCEPT !.sent = TRUE].week = d.week
    BY DEF TypeOK, Digests
  <2> QED BY <1>2, <1>3, <2>1, <2>2 DEF TypeOK
<1>8. ASSUME UNCHANGED <<digests, mailbox, pc, claimId>> PROVE MayReleaseUnsent' /\ MailHasClaim'
  BY <1>2, <1>3, <1>8
<1>9. ASSUME NEW r \in Runners,
             \/ Start(r) \/ TryLock(r) \/ CheckClaimed(r) \/ ListDue(r) \/ (Reserve(r) /\ Claimed(runWeek[r]))
             \/ Unlock(r) \/ LockError(r) \/ DbError(r) \/ Crash(r) \/ SendRejected(r)
      PROVE  MayReleaseUnsent' /\ MailHasClaim'
  <2>1. UNCHANGED <<digests, mailbox>>
    BY <1>9 DEF Start, TryLock, CheckClaimed, ListDue, Reserve, Unlock, LockError, DbError, Crash,
                SendRejected, EndRun, tables
  <2>2. \E place \in Places :
          /\ pc' = [pc EXCEPT ![r] = place]
          /\ place \in {"sending", "releasing"} => pc[r] = "sending" /\ claimId' = claimId
    BY <1>9 DEF Start, TryLock, CheckClaimed, ListDue, Reserve, Unlock, LockError, DbError, Crash,
                SendRejected, EndRun, Goto, Places
  <2>3. \A s \in Runners \ {r} : claimId'[s] = claimId[s]
    BY <1>9 DEF Start, TryLock, CheckClaimed, ListDue, Reserve, Unlock, LockError, DbError, Crash,
                SendRejected, EndRun, TypeOK
  <2> QED BY <1>2, <1>3, <2>1, <2>2, <2>3 DEF TypeOK
<1>10. CASE NewWeek \/ SendHour \/ RecallsChange \/ OrphanSessionEnds \/ SessionDropped \/ UNCHANGED vars
  BY <1>8, <1>10 DEF NewWeek, SendHour, RecallsChange, OrphanSessionEnds, SessionDropped, vars, run, tables
<1>11. ~\E r \in Runners : SendReplyLost(r)
  BY DEF SendReplyLost
<1> QED
  BY <1>1, <1>4, <1>5, <1>6, <1>7, <1>9, <1>10, <1>11 DEF Next, Normal, Step, Fault

(* The claim protocol for every instance: as long as the relay's replies    *)
(* arrive, claims, in-flight runs and messages stay in step.                *)
THEOREM ClaimInvariant == Spec /\ ~LostReplies => [](TypeOK /\ TidyInv /\ ClaimInv)
<1>1. CASE ~LostReplies
  <2>1. Init => ClaimInv
    BY ClaimInit
  <2>2. TypeOK /\ TidyInv /\ ClaimInv /\ [Next]_vars /\ TidyInv' => ClaimInv'
    BY <1>1, ClaimStep
  <2> QED
    BY <2>1, <2>2, TidyInvariant, PTL DEF Spec
<1>2. CASE LostReplies
  BY <1>2
<1> QED
  BY <1>1, <1>2

(* One email per week (digest.go:161-162, migration 005): no interleaving,  *)
(* crash, dropped session or failed write makes the relay accept a second   *)
(* message for a week.                                                      *)
THEOREM MailedOncePerWeek == Spec /\ ~LostReplies => []OncePerWeek
<1>1. TypeOK /\ ClaimInv => OncePerWeek
  BY DEF ClaimInv, UniqueClaims, MailHasClaim, OncePerWeek
<1> QED
  BY <1>1, ClaimInvariant, PTL

(* A step that makes a claim disappear is the release of that claim. *)
LEMMA OnlyReleaseRemoves ==
  ASSUME TypeOK, ClaimInv, [Next]_vars, NEW d \in digests,
         \A e \in digests' : e.id # d.id
  PROVE  \E r \in Runners : pc[r] = "releasing" /\ claimId[r] = d.id
<1>1. d \notin digests'
  OBVIOUS
<1>2. \A i, w, S : ~ReserveTx(i, w, S)
  BY <1>1 DEF ReserveTx
<1>3. ASSUME NEW r \in Runners, Complete(r) PROVE FALSE
  <2>1. IF d.id = claimId[r] THEN [d EXCEPT !.sent = TRUE] \in digests' ELSE d \in digests'
    BY <1>3 DEF Complete, CompleteTx
  <2>2. [d EXCEPT !.sent = TRUE].id = d.id
    BY DEF TypeOK, Digests
  <2> QED
    BY <1>1, <2>1, <2>2
<1>4. ASSUME NEW r \in Runners, Release(r)
      PROVE  pc[r] = "releasing" /\ claimId[r] = d.id
  BY <1>1, <1>4 DEF Release, ReleaseTx
<1>5. ASSUME UNCHANGED digests PROVE FALSE
  BY <1>1, <1>5
<1>6. ASSUME NEW r \in Runners, Reserve(r) \/ ReserveAckLost(r) PROVE FALSE
  BY <1>2, <1>5, <1>6 DEF Reserve, ReserveAckLost, tables
<1>7. ASSUME NEW r \in Runners,
             \/ Start(r) \/ TryLock(r) \/ CheckClaimed(r) \/ ListDue(r) \/ Send(r)
             \/ Unlock(r) \/ LockError(r) \/ DbError(r) \/ SendRejected(r)
             \/ SendReplyLost(r) \/ Crash(r)
      PROVE  FALSE
  BY <1>5, <1>7 DEF Start, TryLock, CheckClaimed, ListDue, Send, Unlock,
     LockError, DbError, SendRejected, SendReplyLost, Crash, tables
<1>8. CASE NewWeek \/ SendHour \/ RecallsChange \/ OrphanSessionEnds \/ SessionDropped
  BY <1>5, <1>8 DEF NewWeek, SendHour, RecallsChange, OrphanSessionEnds,
     SessionDropped, tables
<1>9. CASE UNCHANGED vars
  BY <1>5, <1>9 DEF vars, tables
<1> QED
  BY <1>3, <1>4, <1>6, <1>7, <1>8, <1>9 DEF Next, Normal, Step, Fault

(* ReleaseReminderDigest drops a claim whose message was not sent           *)
(* (reminder_digest.go:28): no step of any run removes the claim of a       *)
(* message the relay accepted.                                              *)
THEOREM ReleasesOnlyUnsent == Spec /\ ~LostReplies => OnlyUnsentReleased
<1>1. TypeOK /\ ClaimInv /\ [Next]_vars =>
        [\A d \in digests : (~\E e \in digests' : e.id = d.id)
            => \A i \in DOMAIN mailbox : mailbox[i].id # d.id]_vars
  BY OnlyReleaseRemoves DEF ClaimInv, MayReleaseUnsent
<1> QED
  BY <1>1, ClaimInvariant, PTL DEF Spec, OnlyUnsentReleased
-----------------------------------------------------------------------------
(* What also holds when every run has a deadline: the runs under way are of *)
(* one week, so the marks a run meets are those of its own week's claim.    *)

RunsWeek == IF early THEN week - 1 ELSE week

RunsOfTheWeek ==
  /\ \A r \in Runners : pc[r] # "idle" => runWeek[r] = RunsWeek
  /\ \A i \in DOMAIN mailbox : mailbox[i].week <= RunsWeek

(* What became of a recall since a run listed it happened this week. *)
ListedThisWeek ==
  \A r \in Runners : pc[r] = "reserving" =>
    \A c \in snapshot[r] :
      /\ \A d \in digests : d.id = notified[c] => d.week = runWeek[r]
      /\ \A i \in DOMAIN mailbox : c \in mailbox[i].recalls => mailbox[i].week = runWeek[r]

(* The recalls of a claim are its own, or a baseline's, and not announced. *)
ClaimedMarked ==
  \A r \in Runners :
    /\ InFlight(r) => \A c \in snapshot[r] : notified[c] \in {claimId[r], Baseline}
    /\ pc[r] = "sending" => \A i \in DOMAIN mailbox : mailbox[i].recalls \cap snapshot[r] = {}

AnnouncedMarked ==
  \A i \in DOMAIN mailbox : \A c \in mailbox[i].recalls : notified[c] \in {mailbox[i].id, Baseline}

AnnounceInv == RunsOfTheWeek /\ ListedThisWeek /\ ClaimedMarked /\ AnnouncedMarked /\ AnnouncedOnce

LEMMA AnnounceInit == Init => AnnounceInv
  BY DEF Init, AnnounceInv, RunsOfTheWeek, ListedThisWeek, ClaimedMarked, InFlight, AnnouncedMarked,
         AnnouncedOnce

(* Claims are unique by week, so at most one run is in flight. *)
LEMMA AloneInFlight ==
  ASSUME TypeOK, TidyInv, RunsOfTheWeek, NEW r \in Runners, InFlight(r), NEW s \in Runners
  PROVE  /\ InFlight(s) => s = r
         /\ \E d \in digests : d.id = claimId[r] /\ d.week = runWeek[r]
<1> DEFINE claim(x) == [id |-> claimId[x], week |-> runWeek[x], sent |-> FALSE]
<1>1. claim(r) \in digests /\ (InFlight(s) => claim(s) \in digests)
  BY DEF TidyInv, InFlightClaims
<1>2. ASSUME InFlight(s) PROVE s = r
  <2>1. runWeek[r] = runWeek[s]
    BY <1>2 DEF InFlight, RunsOfTheWeek
  <2>2. claim(s).week = claim(r).week
    BY <2>1
  <2>3. claim(s) = claim(r)
    BY <1>1, <1>2, <2>2 DEF TidyInv, UniqueClaims
  <2>4. claimId[s] = claimId[r]
    BY <2>3
  <2>5. DistinctHolders
    BY DEF TidyInv
  <2>6. claim(r) \in Digests /\ claim(r).id = claimId[r]
    BY <1>1 DEF TypeOK
  <2>7. claimId[r] # NoId
    BY <2>6 DEF Digests
  <2> QED BY <2>4, <2>5, <2>7 DEF DistinctHolders
<1> QED BY <1>1, <1>2

LEMMA RunsOfTheWeekStep ==
  ASSUME Deadlined = Runners, TypeOK, TidyInv, RunsOfTheWeek, [Next]_vars
  PROVE  RunsOfTheWeek'
<1> USE DEF RunsOfTheWeek
<1>1. ASSUME UNCHANGED <<week, early, runWeek, mailbox>>,
             \A r \in Runners : pc[r] = "idle" => pc'[r] = "idle"
      PROVE  RunsOfTheWeek'
  BY <1>1 DEF RunsWeek
<1>2. CASE NewWeek
  BY <1>2 DEF NewWeek, RunsWeek, run, TypeOK, Weeks
<1>3. CASE SendHour
  <2>1. early /\ ~early' /\ UNCHANGED <<week, pc, runWeek, mailbox>> /\ week \in Int
    BY <1>3 DEF SendHour, run, TypeOK, Weeks
  <2>2. \A r \in Runners : pc[r] = "idle"
    BY <1>3, <2>1 DEF SendHour, RunsWeek
  <2>3. \A i \in DOMAIN mailbox : mailbox[i].week \in Int
    <3>1. \A i \in DOMAIN mailbox : mailbox[i] \in Mail
      BY DEF TypeOK
    <3> QED BY <3>1 DEF Mail, Weeks
  <2>4. RunsWeek = week - 1 /\ RunsWeek' = week
    BY <2>1 DEF RunsWeek
  <2>5. \A i \in DOMAIN mailbox : mailbox[i].week <= week - 1
    BY <2>4
  <2>6. \A i \in DOMAIN mailbox : mailbox[i].week <= week
    BY <2>1, <2>3, <2>5
  <2> QED BY <2>1, <2>2, <2>4, <2>6
<1>4. ASSUME NEW r \in Runners, Start(r) PROVE RunsOfTheWeek'
  BY <1>4 DEF Start, Goto, calendar, RunsWeek, TypeOK
<1>5. ASSUME NEW r \in Runners, Send(r) \/ SendReplyLost(r) PROVE RunsOfTheWeek'
  <2>1. /\ pc[r] = "sending" /\ \A s \in Runners \ {r} : pc'[s] = pc[s]
        /\ UNCHANGED <<week, early, runWeek>>
        /\ DOMAIN mailbox' = DOMAIN mailbox \cup {Len(mailbox) + 1}
        /\ \A i \in DOMAIN mailbox : mailbox'[i] = mailbox[i]
        /\ mailbox'[Len(mailbox) + 1].week = runWeek[r]
    BY <1>5, SentFacts DEF TidyInv
  <2>2. runWeek[r] = RunsWeek /\ RunsWeek \in Int /\ RunsWeek' = RunsWeek
    BY <2>1 DEF RunsWeek, TypeOK, Weeks
  <2> QED BY <2>1, <2>2
<1>6. CASE RecallsChange \/ OrphanSessionEnds \/ SessionDropped \/ UNCHANGED vars
  BY <1>1, <1>6 DEF RecallsChange, OrphanSessionEnds, SessionDropped, vars, calendar, run
<1>7. ASSUME NEW r \in Runners,
             \/ TryLock(r) \/ CheckClaimed(r) \/ ListDue(r) \/ Reserve(r) \/ Release(r) \/ Complete(r)
             \/ Unlock(r) \/ LockError(r) \/ DbError(r) \/ ReserveAckLost(r) \/ SendRejected(r) \/ Crash(r)
      PROVE  RunsOfTheWeek'
  <2>1. /\ UNCHANGED <<week, early, runWeek, mailbox>>
        /\ pc[r] # "idle" /\ \E place \in Places : pc' = [pc EXCEPT ![r] = place]
    BY <1>7 DEF TryLock, CheckClaimed, ListDue, Reserve, Release, Complete, Unlock, LockError, DbError,
                ReserveAckLost, SendRejected, Crash, EndRun, Goto, Places, calendar
  <2> QED BY <1>1, <2>1 DEF TypeOK
<1> QED
  BY <1>2, <1>3, <1>4, <1>5, <1>6, <1>7 DEF Next, Normal, Step, Fault

(* Most steps make no claim and no message: they take a baseline at most,   *)
(* record a claim as sent, or move a run on that lists nothing new.         *)
LEMMA AnnounceQuiet ==
  ASSUME TypeOK, ListedThisWeek, ClaimedMarked, AnnouncedMarked, AnnouncedOnce,
         mailbox' = mailbox,
         \A e \in digests' : \E d \in digests : d.id = e.id /\ d.week = e.week,
         \A c \in Recalls : notified'[c] \in {notified[c], Baseline},
         \A s \in Runners :
           /\ pc'[s] = "reserving" => pc[s] = "reserving" /\ snapshot'[s] = snapshot[s] /\ runWeek'[s] = runWeek[s]
           /\ InFlight(s)' => InFlight(s) /\ snapshot'[s] = snapshot[s] /\ claimId'[s] = claimId[s]
           /\ pc'[s] = "sending" => pc[s] = "sending"
  PROVE  ListedThisWeek' /\ ClaimedMarked' /\ AnnouncedMarked' /\ AnnouncedOnce'
<1>1. \A s \in Runners : snapshot[s] \subseteq Recalls
  BY DEF TypeOK
<1>2. \A i \in DOMAIN mailbox : mailbox[i].recalls \subseteq Recalls
  <2>1. \A i \in DOMAIN mailbox : mailbox[i] \in Mail
    BY DEF TypeOK
  <2> QED BY <2>1 DEF Mail
<1>3. \A d \in digests : d.id \in Ids
  BY DEF TypeOK, Digests
<1>4. ListedThisWeek'
  <2> SUFFICES ASSUME NEW s \in Runners, pc'[s] = "reserving", NEW c \in snapshot'[s]
               PROVE  /\ \A e \in digests' : e.id = notified'[c] => e.week = runWeek'[s]
                      /\ \A i \in DOMAIN mailbox' : c \in mailbox'[i].recalls => mailbox'[i].week = runWeek'[s]
    BY DEF ListedThisWeek
  <2>1. c \in snapshot[s] /\ pc[s] = "reserving" /\ runWeek'[s] = runWeek[s]
    OBVIOUS
  <2>2. ASSUME NEW e \in digests', e.id = notified'[c] PROVE e.week = runWeek[s]
    <3>1. PICK d \in digests : d.id = e.id /\ d.week = e.week
      OBVIOUS
    <3>2. notified[c] = d.id
      BY <1>1, <1>3, <2>1, <2>2, <3>1
    <3> QED BY <2>1, <3>1, <3>2 DEF ListedThisWeek
  <2> QED BY <2>1, <2>2 DEF ListedThisWeek
<1>5. ClaimedMarked'
  <2>1. ASSUME NEW s \in Runners, InFlight(s)', NEW c \in snapshot[s]
        PROVE  notified'[c] \in {claimId'[s], Baseline}
    BY <1>1, <2>1 DEF ClaimedMarked
  <2>2. ASSUME NEW s \in Runners, InFlight(s)' PROVE snapshot'[s] = snapshot[s]
    BY <2>2
  <2>3. ASSUME NEW s \in Runners, pc'[s] = "sending" PROVE InFlight(s)' /\ pc[s] = "sending"
    BY <2>3 DEF InFlight
  <2> QED BY <2>1, <2>2, <2>3 DEF ClaimedMarked
<1>6. AnnouncedMarked'
  BY <1>2 DEF AnnouncedMarked
<1>7. AnnouncedOnce'
  BY DEF AnnouncedOnce
<1> QED BY <1>4, <1>5, <1>6, <1>7

(* A claim takes the recalls of its run; no other run is in flight. *)
LEMMA AnnounceReserve ==
  ASSUME TypeOK, TidyInv, ClaimInv, AnnounceInv, NEW r \in Runners, Reserve(r) \/ ReserveAckLost(r),
         ~Claimed(runWeek[r])
  PROVE  ListedThisWeek' /\ ClaimedMarked' /\ AnnouncedMarked' /\ AnnouncedOnce'
<1> USE DEF AnnounceInv
<1>1. PICK i \in FreshIds :
        /\ pc[r] = "reserving" /\ ReserveTx(i, runWeek[r], snapshot[r])
        /\ \/ pc' = [pc EXCEPT ![r] = "sending"] /\ claimId' = [claimId EXCEPT ![r] = i]
           \/ pc' = [pc EXCEPT ![r] = "unlocking"] /\ claimId' = claimId
        /\ UNCHANGED <<runWeek, snapshot, mailbox>>
  BY DEF Reserve, ReserveAckLost, HoldClaim, Goto
<1>2. /\ \A d \in digests' : d \in digests \/ (d.id = i /\ d.week = runWeek[r])
      /\ \A c \in Recalls : notified'[c] = IF c \in snapshot[r] /\ notified[c] = Unmarked THEN i ELSE notified[c]
  BY <1>1 DEF ReserveTx
<1>3. \A s \in Runners : snapshot[s] \subseteq Recalls
  BY DEF TypeOK
<1>4. ASSUME NEW j \in DOMAIN mailbox
      PROVE  /\ mailbox[j].recalls \subseteq Recalls /\ mailbox[j].id \in Ids
             /\ mailbox[j].week # runWeek[r]
  <2>1. mailbox[j] \in Mail
    BY DEF TypeOK
  <2>2. Claimed(mailbox[j].week)
    BY DEF ClaimInv, MailHasClaim, Claimed
  <2> QED BY <2>1, <2>2 DEF Mail
<1>5. \A s \in Runners : ~InFlight(s)
  <2> SUFFICES ASSUME NEW s \in Runners, InFlight(s) PROVE FALSE
    OBVIOUS
  <2>1. runWeek[s] = runWeek[r]
    BY <1>1 DEF RunsOfTheWeek, InFlight
  <2>2. \E d \in digests : d.week = runWeek[s]
    BY AloneInFlight
  <2> QED BY <2>1, <2>2 DEF Claimed
<1>6. \A c \in snapshot[r] : notified[c] \in {Unmarked, Baseline}
  <2> SUFFICES ASSUME NEW c \in snapshot[r], notified[c] \in Ids PROVE FALSE
    BY <1>3 DEF TypeOK
  <2>1. \E d \in digests : d.id = notified[c]
    BY <1>3 DEF ClaimInv, MarksHaveClaim
  <2> QED BY <1>1, <2>1 DEF ListedThisWeek, Claimed
<1>7. ListedThisWeek'
  <2> SUFFICES ASSUME NEW s \in Runners, pc'[s] = "reserving", NEW c \in snapshot[s]
               PROVE  /\ \A d \in digests' : d.id = notified'[c] => d.week = runWeek[s]
                      /\ \A j \in DOMAIN mailbox : c \in mailbox[j].recalls => mailbox[j].week = runWeek[s]
    BY <1>1 DEF ListedThisWeek
  <2>1. pc[s] = "reserving"
    BY <1>1 DEF TypeOK
  <2>2. runWeek[s] = runWeek[r]
    BY <1>1, <2>1 DEF RunsOfTheWeek
  <2>3. notified'[c] \in {i, notified[c]}
    BY <1>2, <1>3
  <2>4. \A d \in digests : d.id # i
    BY FreshFacts
  <2> QED BY <1>2, <2>1, <2>2, <2>3, <2>4 DEF ListedThisWeek
<1>8. ClaimedMarked'
  <2>1. \A s \in Runners : InFlight(s)' => s = r /\ pc'[r] = "sending" /\ claimId'[r] = i
    BY <1>1, <1>5 DEF TypeOK, InFlight
  <2>2. \A c \in snapshot[r] : notified'[c] \in {i, Baseline}
    BY <1>2, <1>3, <1>6
  <2>3. \A j \in DOMAIN mailbox : mailbox[j].recalls \cap snapshot[r] = {}
    BY <1>1, <1>4 DEF ListedThisWeek
  <2> QED BY <1>1, <2>1, <2>2, <2>3 DEF ClaimedMarked, InFlight
<1>9. AnnouncedMarked'
  BY <1>1, <1>2, <1>4 DEF AnnouncedMarked
<1>10. AnnouncedOnce'
  BY <1>1 DEF AnnouncedOnce
<1> QED BY <1>7, <1>8, <1>9, <1>10

(* The message that goes out announces recalls of its own claim. *)
LEMMA AnnounceSend ==
  ASSUME TypeOK, TidyInv, AnnounceInv, NEW r \in Runners, Send(r) \/ SendReplyLost(r)
  PROVE  ListedThisWeek' /\ ClaimedMarked' /\ AnnouncedMarked' /\ AnnouncedOnce'
<1> USE DEF AnnounceInv
<1> DEFINE last == Len(mailbox) + 1
<1>1. /\ pc[r] = "sending" /\ pc'[r] # "sending" /\ pc'[r] # "reserving"
      /\ \A s \in Runners \ {r} : pc'[s] = pc[s]
      /\ UNCHANGED <<claimId, runWeek, snapshot, digests, notified>>
  BY SentFacts DEF TidyInv
<1>2. /\ DOMAIN mailbox' = DOMAIN mailbox \cup {last}
      /\ \A i \in DOMAIN mailbox : i # last /\ mailbox'[i] = mailbox[i]
      /\ mailbox'[last].id = claimId[r] /\ mailbox'[last].week = runWeek[r]
      /\ mailbox'[last].recalls = snapshot[r]
  BY SentFacts DEF TidyInv
<1> HIDE DEF last
<1>3. \A s \in Runners : InFlight(s) => s = r
  BY <1>1, AloneInFlight DEF InFlight
<1>4. ListedThisWeek'
  <2>1. \A s \in Runners : pc'[s] = "reserving" => pc[s] = "reserving" /\ runWeek[s] = runWeek[r]
    BY <1>1 DEF RunsOfTheWeek
  <2> QED BY <1>1, <1>2, <2>1 DEF ListedThisWeek
<1>5. ClaimedMarked'
  <2>1. \A s \in Runners : InFlight(s)' => s = r
    BY <1>1, <1>3 DEF InFlight
  <2>2. \A c \in snapshot[r] : notified[c] \in {claimId[r], Baseline}
    BY <1>1 DEF ClaimedMarked, InFlight
  <2> QED BY <1>1, <2>1, <2>2 DEF ClaimedMarked, InFlight
<1>6. AnnouncedMarked'
  <2>1. \A c \in snapshot[r] : notified[c] \in {claimId[r], Baseline}
    BY <1>1 DEF ClaimedMarked, InFlight
  <2> QED BY <1>1, <1>2, <2>1 DEF AnnouncedMarked
<1>7. AnnouncedOnce'
  <2>1. \A i \in DOMAIN mailbox : mailbox[i].recalls \cap snapshot[r] = {}
    BY <1>1 DEF ClaimedMarked
  <2> QED BY <1>2, <2>1 DEF AnnouncedOnce
<1> QED BY <1>4, <1>5, <1>6, <1>7

(* A release frees the recalls of a claim whose message is not out. *)
LEMMA AnnounceRelease ==
  ASSUME TypeOK, TidyInv, ClaimInv, AnnounceInv, NEW r \in Runners, Release(r)
  PROVE  ListedThisWeek' /\ ClaimedMarked' /\ AnnouncedMarked' /\ AnnouncedOnce'
<1> USE DEF AnnounceInv
<1>1. /\ pc[r] = "releasing" /\ pc' = [pc EXCEPT ![r] = "unlocking"]
      /\ UNCHANGED <<claimId, runWeek, snapshot, mailbox>>
      /\ digests' \subseteq digests
      /\ \A c \in Recalls : \/ notified'[c] = notified[c]
                            \/ notified[c] = claimId[r] /\ notified'[c] = Unmarked
  BY DEF Release, ReleaseTx, Goto
<1>2. \A s \in Runners : InFlight(s) => s = r
  BY <1>1, AloneInFlight DEF InFlight
<1>3. \A s \in Runners : snapshot[s] \subseteq Recalls
  BY DEF TypeOK
<1>4. ListedThisWeek'
  <2>1. \A s \in Runners : pc'[s] = "reserving" => pc[s] = "reserving"
    BY <1>1 DEF TypeOK
  <2>2. \A d \in digests : d.id # Unmarked
    BY DEF TypeOK, Digests
  <2> QED BY <1>1, <1>3, <2>1, <2>2 DEF ListedThisWeek
<1>5. ClaimedMarked'
  <2>1. \A s \in Runners : ~InFlight(s)'
    BY <1>1, <1>2 DEF TypeOK, InFlight
  <2> QED BY <2>1 DEF ClaimedMarked, InFlight
<1>6. AnnouncedMarked'
  <2>1. \A i \in DOMAIN mailbox : mailbox[i].recalls \subseteq Recalls /\ mailbox[i].id # claimId[r]
    <3>1. \A i \in DOMAIN mailbox : mailbox[i] \in Mail
      BY DEF TypeOK
    <3> QED BY <1>1, <3>1 DEF Mail, ClaimInv, MayReleaseUnsent
  <2>2. claimId[r] # Baseline
    <3>1. \E d \in digests : d.id = claimId[r]
      BY <1>1, AloneInFlight DEF InFlight
    <3> QED BY <3>1 DEF TypeOK, Digests
  <2> QED BY <1>1, <2>1, <2>2 DEF AnnouncedMarked
<1>7. AnnouncedOnce'
  BY <1>1 DEF AnnouncedOnce
<1> QED BY <1>4, <1>5, <1>6, <1>7

(* What a run lists is marked by nobody, so it is not announced either. *)
LEMMA AnnounceList ==
  ASSUME TypeOK, AnnounceInv, NEW r \in Runners, ListDue(r)
  PROVE  ListedThisWeek' /\ ClaimedMarked' /\ AnnouncedMarked' /\ AnnouncedOnce'
<1> USE DEF AnnounceInv
<1>1. /\ \A s \in Runners \ {r} : pc'[s] = pc[s] /\ snapshot'[s] = snapshot[s]
      /\ pc'[r] \in {"reserving", "unlocking"} /\ snapshot'[r] = Unnotified
      /\ UNCHANGED <<claimId, runWeek, digests, notified, mailbox>>
  BY DEF ListDue, Goto, TypeOK, tables
<1>2. \A c \in Unnotified :
        /\ \A d \in digests : d.id # notified[c]
        /\ \A i \in DOMAIN mailbox : c \notin mailbox[i].recalls
  <2>1. \A i \in DOMAIN mailbox : mailbox[i].id # Unmarked
    <3>1. \A i \in DOMAIN mailbox : mailbox[i] \in Mail
      BY DEF TypeOK
    <3> QED BY <3>1 DEF Mail
  <2>2. \A d \in digests : d.id # Unmarked
    BY DEF TypeOK, Digests
  <2> QED BY <2>1, <2>2 DEF Unnotified, AnnouncedMarked
<1>3. ListedThisWeek'
  BY <1>1, <1>2 DEF ListedThisWeek
<1>4. ClaimedMarked'
  BY <1>1 DEF ClaimedMarked, InFlight
<1>5. AnnouncedMarked' /\ AnnouncedOnce'
  BY <1>1 DEF AnnouncedMarked, AnnouncedOnce
<1> QED BY <1>3, <1>4, <1>5

LEMMA AnnounceStep ==
  ASSUME Deadlined = Runners, TypeOK, TidyInv, ClaimInv, AnnounceInv, [Next]_vars
  PROVE  AnnounceInv'
<1> SUFFICES ListedThisWeek' /\ ClaimedMarked' /\ AnnouncedMarked' /\ AnnouncedOnce'
  BY RunsOfTheWeekStep DEF AnnounceInv
<1> DEFINE Rest == ListedThisWeek' /\ ClaimedMarked' /\ AnnouncedMarked' /\ AnnouncedOnce'
<1>1. ASSUME UNCHANGED <<pc, snapshot, runWeek, claimId, mailbox, digests>>,
             \A c \in Recalls : notified'[c] \in {notified[c], Baseline}
      PROVE  Rest
  BY <1>1, AnnounceQuiet DEF AnnounceInv, InFlight
<1>2. CASE RecallsChange
  BY <1>1, <1>2 DEF RecallsChange, run
<1>3. CASE NewWeek \/ SendHour \/ OrphanSessionEnds \/ SessionDropped \/ UNCHANGED vars
  BY <1>1, <1>3 DEF NewWeek, SendHour, OrphanSessionEnds, SessionDropped, vars, run, tables
<1>4. ASSUME NEW r \in Runners, Reserve(r) \/ ReserveAckLost(r), ~Claimed(runWeek[r]) PROVE Rest
  BY <1>4, AnnounceReserve
<1>5. ASSUME NEW r \in Runners, Send(r) \/ SendReplyLost(r) PROVE Rest
  BY <1>5, AnnounceSend
<1>6. ASSUME NEW r \in Runners, Release(r) PROVE Rest
  BY <1>6, AnnounceRelease
<1>7. ASSUME NEW r \in Runners, ListDue(r) PROVE Rest
  BY <1>7, AnnounceList
<1>8. ASSUME NEW r \in Runners, Complete(r) PROVE Rest
  <2>1. /\ pc[r] = "completing" /\ pc' = [pc EXCEPT ![r] = "unlocking"]
        /\ UNCHANGED <<snapshot, runWeek, claimId, mailbox, notified>>
        /\ \A e \in digests' : \E d \in digests : e = IF d.id = claimId[r] THEN [d EXCEPT !.sent = TRUE] ELSE d
    BY <1>8 DEF Complete, CompleteTx, Goto
  <2>2. \A d \in digests : [d EXCEPT !.sent = TRUE].id = d.id /\ [d EXCEPT !.sent = TRUE].week = d.week
    BY DEF TypeOK, Digests
  <2>3. \A e \in digests' : \E d \in digests : d.id = e.id /\ d.week = e.week
    BY <2>1, <2>2
  <2>4. \A s \in Runners : pc'[s] = pc[s] \/ pc'[s] = "unlocking"
    BY <2>1 DEF TypeOK
  <2> QED BY <2>1, <2>3, <2>4, AnnounceQuiet DEF AnnounceInv, InFlight
<1>9. ASSUME NEW r \in Runners,
             \/ Start(r) \/ TryLock(r) \/ CheckClaimed(r) \/ (Reserve(r) /\ Claimed(runWeek[r]))
             \/ Unlock(r) \/ LockError(r) \/ DbError(r) \/ Crash(r)
      PROVE  Rest
  <2>1. /\ UNCHANGED <<digests, notified, mailbox>>
        /\ \E place \in {"idle", "starting", "checking", "listing", "unlocking"} :
             pc' = [pc EXCEPT ![r] = place]
        /\ \A s \in Runners \ {r} : snapshot'[s] = snapshot[s] /\ runWeek'[s] = runWeek[s]
                                    /\ claimId'[s] = claimId[s]
    BY <1>9 DEF Start, TryLock, CheckClaimed, Reserve, Unlock, LockError, DbError, Crash,
                EndRun, Goto, TypeOK, tables
  <2>2. /\ pc'[r] \in {"idle", "starting", "checking", "listing", "unlocking"}
        /\ \A s \in Runners \ {r} : pc'[s] = pc[s]
    BY <2>1 DEF TypeOK
  <2> QED BY <2>1, <2>2, AnnounceQuiet DEF AnnounceInv, InFlight
<1>10. ASSUME NEW r \in Runners, SendRejected(r) PROVE Rest
  <2>1. /\ pc[r] = "sending" /\ pc' = [pc EXCEPT ![r] = "releasing"]
        /\ UNCHANGED <<snapshot, runWeek, claimId, digests, notified, mailbox>>
    BY <1>10 DEF SendRejected, Goto, tables
  <2>2. pc'[r] = "releasing" /\ \A s \in Runners \ {r} : pc'[s] = pc[s]
    BY <2>1 DEF TypeOK
  <2> QED BY <2>1, <2>2, AnnounceQuiet DEF AnnounceInv, InFlight
<1> QED
  BY <1>2, <1>3, <1>4, <1>5, <1>6, <1>7, <1>8, <1>9, <1>10 DEF Next, Normal, Step, Fault, ReserveAckLost

(* The marks in step with the messages: every recall that went out keeps    *)
(* the mark of its message's claim or a baseline, and what a run is about   *)
(* to send went out in no other message.                                    *)
THEOREM AnnounceInvariant ==
  Spec /\ ~LostReplies /\ Deadlined = Runners => [](TypeOK /\ TidyInv /\ ClaimInv /\ AnnounceInv)
<1>1. CASE ~LostReplies /\ Deadlined = Runners
  <2>1. Init => AnnounceInv
    BY AnnounceInit
  <2>2. TypeOK /\ TidyInv /\ ClaimInv /\ AnnounceInv /\ [Next]_vars => AnnounceInv'
    BY <1>1, AnnounceStep
  <2>3. Spec => [](TypeOK /\ TidyInv /\ ClaimInv)
    BY <1>1, ClaimInvariant
  <2> QED
    BY <2>1, <2>2, <2>3, PTL DEF Spec
<1>2. CASE ~(~LostReplies /\ Deadlined = Runners)
  BY <1>2
<1> QED
  BY <1>1, <1>2

(* A recall is announced in one message at most, although a recall that was *)
(* claimed since it was listed stays in the message (digest.go:130-176,     *)
(* ReserveReminderDigest).                                                  *)
THEOREM RecallsAnnouncedOnce == Spec /\ ~LostReplies /\ Deadlined = Runners => []AnnouncedOnce
<1>1. AnnounceInv => AnnouncedOnce
  BY DEF AnnounceInv
<1> QED
  BY <1>1, AnnounceInvariant, PTL

(* A week that was mailed stays claimed, and a recall that was announced    *)
(* stays marked (ReleaseReminderDigest, CompleteReminderDigest).            *)
THEOREM AnnouncementsStayMarked ==
  Spec /\ ~LostReplies /\ Deadlined = Runners => []AnnouncedStaysMarked
<1>1. TypeOK /\ ClaimInv /\ AnnounceInv => AnnouncedStaysMarked
  <2> SUFFICES ASSUME TypeOK, ClaimInv, AnnounceInv, NEW i \in DOMAIN mailbox
               PROVE  /\ Claimed(mailbox[i].week)
                      /\ \A c \in mailbox[i].recalls : notified[c] # Unmarked
    BY DEF AnnouncedStaysMarked
  <2>1. Claimed(mailbox[i].week)
    BY DEF ClaimInv, MailHasClaim, Claimed
  <2>2. mailbox[i] \in Mail
    BY DEF TypeOK
  <2>3. mailbox[i].id # Unmarked
    BY <2>2 DEF Mail
  <2> QED BY <2>1, <2>3 DEF AnnounceInv, AnnouncedMarked
<1> QED
  BY <1>1, AnnounceInvariant, PTL

-----------------------------------------------------------------------------
(* The promise of WeeklyMail: what each step is in its terms.               *)

Mailed(w) == \E i \in DOMAIN mailbox : mailbox[i].week = w

Stage(w) == IF Mailed(w) THEN "mailed" ELSE IF Claimed(w) THEN "claimed" ELSE "free"

Letter(w) == UNION {mailbox[i].recalls : i \in {j \in DOMAIN mailbox : mailbox[j].week = w}}

LEMMA PromiseInit == Init => Promise!Init
<1> SUFFICES ASSUME Init PROVE Promise!Init
  OBVIOUS
<1>1. DOMAIN mailbox = {}
  BY DEF Init
<1>2. \A w \in Weeks : Stage(w) = "free" /\ Letter(w) = {}
  BY <1>1 DEF Stage, Letter, Mailed, Claimed, Init
<1>3. [w \in Weeks |-> Stage(w)] = [w \in 1..MaxWeek |-> "free"]
  BY <1>2 DEF Weeks
<1>4. [w \in Weeks |-> Letter(w)] = [w \in 1..MaxWeek |-> {}]
  BY <1>2 DEF Weeks
<1> QED BY <1>3, <1>4 DEF Promise!Init, Stage, Letter, Mailed

(* A step that claims and mails no week, and withdraws none, is a stutter.  *)
LEMMA PromiseStutter ==
  ASSUME UNCHANGED mailbox, \A w \in Weeks : Claimed(w)' <=> Claimed(w)
  PROVE  UNCHANGED Promise!promised
<1>1. \A w \in Weeks : Stage(w)' = Stage(w) /\ Letter(w)' = Letter(w)
  BY DEF Stage, Letter, Mailed
<1>2. [w \in Weeks |-> Stage(w)]' = [w \in Weeks |-> Stage(w)]
  BY <1>1
<1>3. [w \in Weeks |-> Letter(w)]' = [w \in Weeks |-> Letter(w)]
  BY <1>1
<1> QED BY <1>2, <1>3 DEF Promise!promised, Stage, Letter, Mailed

(* How a step of the promise is recognised in the digest's state. *)
LEMMA PromiseClaim ==
  ASSUME NEW w \in Weeks, Stage(w) = "free", Stage(w)' = "claimed", UNCHANGED mailbox,
         \A v \in Weeks \ {w} : Stage(v)' = Stage(v)
  PROVE  Promise!Next
<1>1. [v \in Weeks |-> Stage(v)]' = [[v \in Weeks |-> Stage(v)] EXCEPT ![w] = "claimed"]
  OBVIOUS
<1>2. [v \in Weeks |-> Letter(v)]' = [v \in Weeks |-> Letter(v)]
  BY DEF Letter
<1>3. Promise!Claim(w)
  BY <1>1, <1>2 DEF Promise!Claim, Stage, Letter, Mailed
<1> QED BY <1>3 DEF Promise!Next, Weeks

LEMMA PromiseWithdraw ==
  ASSUME NEW w \in Weeks, Stage(w) = "claimed", Stage(w)' = "free", UNCHANGED mailbox,
         \A v \in Weeks \ {w} : Stage(v)' = Stage(v)
  PROVE  Promise!Next
<1>1. [v \in Weeks |-> Stage(v)]' = [[v \in Weeks |-> Stage(v)] EXCEPT ![w] = "free"]
  OBVIOUS
<1>2. [v \in Weeks |-> Letter(v)]' = [v \in Weeks |-> Letter(v)]
  BY DEF Letter
<1>3. Promise!Withdraw(w)
  BY <1>1, <1>2 DEF Promise!Withdraw, Stage, Letter, Mailed
<1> QED BY <1>3 DEF Promise!Next, Weeks

LEMMA PromiseMail ==
  ASSUME NEW w \in Weeks, NEW S \in SUBSET Recalls, Stage(w) = "claimed", Stage(w)' = "mailed",
         Letter(w)' = S,
         \A v \in Weeks \ {w} : Stage(v)' = Stage(v) /\ Letter(v)' = Letter(v),
         \A v \in Weeks : /\ Stage(v) = "mailed" => v < w
                          /\ Letter(v) \cap S = {}
  PROVE  Promise!Next
<1>1. [v \in Weeks |-> Stage(v)]' = [[v \in Weeks |-> Stage(v)] EXCEPT ![w] = "mailed"]
  OBVIOUS
<1>2. [v \in Weeks |-> Letter(v)]' = [[v \in Weeks |-> Letter(v)] EXCEPT ![w] = S]
  OBVIOUS
<1>3. Promise!Mail(w, S)
  BY <1>1, <1>2 DEF Promise!Mail, Stage, Letter, Mailed, Weeks
<1> QED BY <1>3 DEF Promise!Next, Weeks

(* A claim is a claim of a week that was free. *)
LEMMA PromiseReserve ==
  ASSUME TypeOK, ClaimInv, NEW r \in Runners, Reserve(r) \/ ReserveAckLost(r), ~Claimed(runWeek[r])
  PROVE  Promise!Next
<1>1. PICK i \in FreshIds : ReserveTx(i, runWeek[r], snapshot[r]) /\ UNCHANGED mailbox
  BY DEF Reserve, ReserveAckLost
<1>2. runWeek[r] \in Weeks
  BY DEF TypeOK
<1>3. \A v \in Weeks : Claimed(v)' <=> (Claimed(v) \/ v = runWeek[r])
  <2>1. PICK claim : digests' = digests \cup {claim} /\ claim.week = runWeek[r]
    <3> DEFINE row == [id |-> i, week |-> runWeek[r], sent |-> FALSE]
    <3>1. digests' = digests \cup {row} /\ row.week = runWeek[r]
      BY <1>1 DEF ReserveTx
    <3> QED BY <3>1
  <2> QED BY <2>1 DEF Claimed
<1>4. ~Mailed(runWeek[r])
  BY DEF Mailed, ClaimInv, MailHasClaim, Claimed
<1>5. \A v \in Weeks : Mailed(v)' <=> Mailed(v)
  BY <1>1 DEF Mailed
<1> QED BY <1>1, <1>2, <1>3, <1>4, <1>5, PromiseClaim DEF Stage

(* A release is the withdrawal of a week that was not mailed. *)
LEMMA PromiseRelease ==
  ASSUME TypeOK, ClaimInv, NEW r \in Runners, Release(r)
  PROVE  Promise!Next
<1> DEFINE claim == [id |-> claimId[r], week |-> runWeek[r], sent |-> FALSE]
<1>1. /\ pc[r] = "releasing" /\ UNCHANGED mailbox
      /\ digests' = digests \ {d \in digests : d.id = claimId[r] /\ ~d.sent}
  BY DEF Release, ReleaseTx
<1>2. claim \in digests /\ claim.id = claimId[r] /\ claim.week = runWeek[r] /\ ~claim.sent
  BY <1>1 DEF ClaimInv, InFlightClaims, InFlight
<1>3. \A d \in digests : d.week = runWeek[r] \/ d.id = claimId[r] => d = claim
  BY <1>2 DEF ClaimInv, UniqueClaims
<1> HIDE DEF claim
<1>4. digests' = digests \ {claim}
  BY <1>1, <1>2, <1>3
<1>5. /\ Claimed(runWeek[r]) /\ ~Claimed(runWeek[r])'
      /\ \A v \in Weeks \ {runWeek[r]} : Claimed(v)' <=> Claimed(v)
  <2>1. runWeek' = runWeek
    BY DEF Release
  <2> QED BY <1>2, <1>3, <1>4, <2>1 DEF Claimed
<1>6. ~Mailed(runWeek[r])
  <2> SUFFICES ASSUME NEW i \in DOMAIN mailbox, mailbox[i].week = runWeek[r] PROVE FALSE
    BY DEF Mailed
  <2>1. PICK d \in digests : d.id = mailbox[i].id /\ d.week = runWeek[r]
    BY DEF ClaimInv, MailHasClaim
  <2>2. mailbox[i].id = claimId[r]
    BY <1>2, <1>3, <2>1
  <2> QED BY <1>1, <2>2 DEF ClaimInv, MayReleaseUnsent
<1>7. \A v \in Weeks : Mailed(v)' <=> Mailed(v)
  BY <1>1 DEF Mailed
<1>8. runWeek[r] \in Weeks /\ runWeek' = runWeek
  BY DEF TypeOK, Release
<1> QED BY <1>1, <1>5, <1>6, <1>7, <1>8, PromiseWithdraw DEF Stage

(* A message mails the week that its run has claimed, and it is the latest. *)
LEMMA PromiseSend ==
  ASSUME TypeOK, TidyInv, ClaimInv, AnnounceInv, NEW r \in Runners, Send(r) \/ SendReplyLost(r)
  PROVE  Promise!Next
<1> DEFINE last == Len(mailbox) + 1
<1> PICK w, S : w = runWeek[r] /\ S = snapshot[r]
  OBVIOUS
<1>1. /\ pc[r] = "sending" /\ digests' = digests
      /\ DOMAIN mailbox' = DOMAIN mailbox \cup {last} /\ last \notin DOMAIN mailbox
      /\ \A i \in DOMAIN mailbox : mailbox'[i] = mailbox[i]
      /\ mailbox'[last].week = w /\ mailbox'[last].recalls = S
  BY SentFacts DEF TidyInv
<1>2. w \in Weeks /\ S \in SUBSET Recalls
  BY DEF TypeOK
<1>3. InFlight(r)
  BY <1>1 DEF InFlight
<1>4. PICK d \in digests : d.id = claimId[r] /\ d.week = w
  BY <1>3, AloneInFlight DEF AnnounceInv
<1> HIDE DEF last
<1>5. Claimed(w)
  BY <1>4 DEF Claimed
<1>6. ~Mailed(w)
  <2> SUFFICES ASSUME NEW i \in DOMAIN mailbox, mailbox[i].week = w PROVE FALSE
    BY DEF Mailed
  <2>1. PICK e \in digests : e.id = mailbox[i].id /\ e.week = w
    BY DEF ClaimInv, MailHasClaim
  <2>2. mailbox[i].id = claimId[r]
    BY <1>4, <2>1 DEF ClaimInv, UniqueClaims
  <2> QED BY <1>1, <2>2 DEF ClaimInv, MayReleaseUnsent
<1>7. Mailed(w)' /\ \A v \in Weeks \ {w} : Mailed(v)' <=> Mailed(v)
  BY <1>1 DEF Mailed
<1>8. \A v \in Weeks : Claimed(v)' <=> Claimed(v)
  BY <1>1 DEF Claimed
<1>9. Letter(w)' = S
  <2>1. {j \in DOMAIN mailbox' : mailbox'[j].week = w} = {last}
    BY <1>1, <1>6 DEF Mailed
  <2> QED BY <1>1, <2>1 DEF Letter
<1>10. ASSUME NEW v \in Weeks \ {w} PROVE Letter(v)' = Letter(v)
  <2>1. {j \in DOMAIN mailbox' : mailbox'[j].week = v} = {j \in DOMAIN mailbox : mailbox[j].week = v}
    BY <1>1
  <2> QED BY <1>1, <2>1 DEF Letter
<1>11. ASSUME NEW v \in Weeks PROVE (Stage(v) = "mailed" => v < w) /\ Letter(v) \cap S = {}
  <2>1. Mailed(v) => v < w
    <3>1. ASSUME NEW i \in DOMAIN mailbox, mailbox[i].week = v PROVE v <= w /\ v # w
      <4>1. w = RunsWeek
        BY <1>1 DEF AnnounceInv, RunsOfTheWeek
      <4>2. v <= RunsWeek
        BY <3>1 DEF AnnounceInv, RunsOfTheWeek
      <4> QED BY <1>6, <3>1, <4>1, <4>2 DEF Mailed
    <3> QED BY <1>2, <3>1 DEF Mailed, Weeks
  <2>2. Letter(v) \cap S = {}
    BY <1>1 DEF Letter, AnnounceInv, ClaimedMarked
  <2> QED BY <2>1, <2>2 DEF Stage
<1> QED BY <1>2, <1>5, <1>6, <1>7, <1>8, <1>9, <1>10, <1>11, PromiseMail DEF Stage

LEMMA PromiseStep ==
  ASSUME TypeOK, TidyInv, ClaimInv, AnnounceInv, [Next]_vars
  PROVE  [Promise!Next]_(Promise!promised)
<1>1. ASSUME UNCHANGED mailbox, UNCHANGED digests PROVE UNCHANGED Promise!promised
  BY <1>1, PromiseStutter DEF Claimed
<1>2. CASE RecallsChange \/ NewWeek \/ SendHour \/ OrphanSessionEnds \/ SessionDropped \/ UNCHANGED vars
  BY <1>1, <1>2 DEF RecallsChange, NewWeek, SendHour, OrphanSessionEnds, SessionDropped, vars, tables
<1>3. ASSUME NEW r \in Runners, Complete(r) PROVE UNCHANGED Promise!promised
  <2>1. /\ UNCHANGED mailbox
        /\ digests' = {IF d.id = claimId[r] THEN [d EXCEPT !.sent = TRUE] ELSE d : d \in digests}
    BY <1>3 DEF Complete, CompleteTx
  <2>2. \A d \in digests : [d EXCEPT !.sent = TRUE].week = d.week
    BY DEF TypeOK, Digests
  <2>3. \A v \in Weeks : Claimed(v)' <=> Claimed(v)
    BY <2>1, <2>2 DEF Claimed
  <2> QED BY <2>1, <2>3, PromiseStutter
<1>4. ASSUME NEW r \in Runners, Reserve(r) \/ ReserveAckLost(r), ~Claimed(runWeek[r]) PROVE Promise!Next
  BY <1>4, PromiseReserve
<1>5. ASSUME NEW r \in Runners, Release(r) PROVE Promise!Next
  BY <1>5, PromiseRelease
<1>6. ASSUME NEW r \in Runners, Send(r) \/ SendReplyLost(r) PROVE Promise!Next
  BY <1>6, PromiseSend
<1>7. ASSUME NEW r \in Runners,
             \/ Start(r) \/ TryLock(r) \/ CheckClaimed(r) \/ ListDue(r) \/ (Reserve(r) /\ Claimed(runWeek[r]))
             \/ Unlock(r) \/ LockError(r) \/ DbError(r) \/ SendRejected(r) \/ Crash(r)
      PROVE  UNCHANGED Promise!promised
  BY <1>1, <1>7 DEF Start, TryLock, CheckClaimed, ListDue, Reserve, Unlock, LockError, DbError,
     SendRejected, Crash, tables
<1> QED
  BY <1>2, <1>3, <1>4, <1>5, <1>6, <1>7 DEF Next, Normal, Step, Fault, ReserveAckLost

(* Digest implements WeeklyMail, for any number of runners, recalls and     *)
(* weeks: a week is claimed before it is mailed, withdrawn only while its   *)
(* message is not out, mailed once and in order, and no recall is in two    *)
(* letters, as long as replies arrive and runs have a deadline (Run).       *)
THEOREM PromiseKept == Spec /\ ~LostReplies /\ Deadlined = Runners => KeepsPromise
<1>1. Init => Promise!Init
  BY PromiseInit
<1>2. TypeOK /\ TidyInv /\ ClaimInv /\ AnnounceInv /\ [Next]_vars => [Promise!Next]_(Promise!promised)
  BY PromiseStep
<1> QED
  BY <1>1, <1>2, AnnounceInvariant, PTL DEF Spec, KeepsPromise, Promise!Spec

=============================================================================

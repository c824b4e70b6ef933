---------------------------- MODULE RecallDigest ----------------------------
(***************************************************************************)
(* The recall check and the weekly digest over the tables they share.  The *)
(* check finds campaigns and marks baselines, the household edits vehicles *)
(* and dismisses campaigns, and the digest lists what is open and unmarked,*)
(* marks it with its claim, mails it, or gives the marks back.  The two    *)
(* jobs have locks of their own, so a check and a digest run side by side. *)
(***************************************************************************)
EXTENDS RecallCheck, Sequences

CONSTANTS
  Runners, Deadlined, Ids, MaxWeek, FaultyWeeks, LostReplies, NoId      \* as in Digest

ASSUME DigestConstants ==
  /\ Deadlined \subseteq Runners
  /\ MaxWeek \in Nat \ {0}
  /\ LostReplies \in BOOLEAN
  /\ NoOne \notin Runners
  /\ NoId \notin Ids
  /\ Unmarked \notin Ids /\ Baseline \notin Ids

VARIABLES
  week, early, lockHolder, pc, runWeek, snapshot, claimId, digests, mailbox,
  quiet     \* history: recalls dismissed ever since each run's start

digestVars == <<week, early, lockHolder, pc, runWeek, snapshot, claimId, digests, mailbox>>
allVars    == <<recallVars, digestVars, quiet>>

(* The digest's recalls are the (vehicle, campaign) pairs; the ones it may  *)
(* list are those ListUnnotifiedRecalls joins together; and the marks of    *)
(* recall_notifications are one table for both jobs.                        *)
D == INSTANCE Digest WITH Recalls <- Pairs, open <- Open

Init ==
  /\ RecallInit
  /\ D!Init
  /\ quiet = [r \in Runners |-> {}]

RecallSide ==
  /\ RecallNext
  /\ quiet' = [r \in Runners |-> quiet[r] \cap dismissals']
  /\ UNCHANGED digestVars

(* recallVars without the marks, which the digest writes too. *)
RestOfRecalls == <<garage, catalogue, recallTables, checkRun>>

DigestSide ==
  /\ UNCHANGED RestOfRecalls
  /\ \/ D!NewWeek \/ D!SendHour \/ D!OrphanSessionEnds
     \/ \E r \in Runners : D!Step(r)
     \/ D!Fault
  /\ quiet' = [r \in Runners |->
       IF pc[r] = "idle" /\ pc'[r] = "starting" THEN dismissals ELSE quiet[r]]

Next == RecallSide \/ DigestSide

Spec == Init /\ [][Next]_allVars

-----------------------------------------------------------------------------
(* The digest keeps its specification in this company: what the check, the  *)
(* edits and the dismissals do to the recalls it lists and to their marks   *)
(* is what Digest assumes of them.                                          *)
DigestKept == D!Spec

(* Each recall is announced once, also when NHTSA drops and relists it, the *)
(* vehicle is edited to another model and back, or a baseline check meets   *)
(* the claim that holds it.                                                 *)
RecallAnnouncedOnce == D!AnnouncedOnce

(* A dismissed recall stays out of the email, although every check deletes  *)
(* and reinserts the rows that carry dismissed_at: no run lists a recall    *)
(* that has been dismissed ever since the run began.                        *)
DismissedStaysSilent ==
  \A r \in Runners : pc[r] # "idle" => snapshot[r] \cap quiet[r] = {}
=============================================================================

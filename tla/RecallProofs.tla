----------------------------- MODULE RecallProofs -----------------------------
(***************************************************************************)
(* Proofs about RecallCheck, and about RecallDigest: the weekly digest     *)
(* keeps its specification in the company of the recall check, so what is  *)
(* proved of it alone holds of the two together.  For any number of        *)
(* checkers, runners, vehicles, campaigns, identities and weeks.           *)
(***************************************************************************)
EXTENDS RecallDigest, TLAPS

-----------------------------------------------------------------------------
(* The check alone.                                                         *)

(* Dismissals: every step that touches a row of vehicle_recalls keeps its   *)
(* dismissed_at equal to what recall_dismissals says of it, whatever checks *)
(* overlap: the insert copies it, and Dismiss and Restore write both.       *)
LEMMA MirrorStep ==
  ASSUME DismissalsMirrored, [RecallNext]_recallVars
  PROVE  DismissalsMirrored'
<1> USE DEF DismissalsMirrored
<1>1. CASE UNCHANGED recallVars
  BY <1>1 DEF recallVars, recallTables
<1>2. CASE Household
  <2>1. ASSUME NEW v \in Vehicles, Archive(v) PROVE DismissalsMirrored'
    BY <2>1 DEF Archive, recallTables
  <2>2. ASSUME NEW v \in Vehicles, NEW i, EditVehicle(v, i) PROVE DismissalsMirrored'
    BY <2>2 DEF EditVehicle, recallTables
  <2>3. ASSUME NEW p \in Pairs, Dismiss(p) PROVE DismissalsMirrored'
    BY <2>3 DEF Dismiss
  <2>4. ASSUME NEW p \in Pairs, Restore(p) PROVE DismissalsMirrored'
    BY <2>4 DEF Restore
  <2> QED BY <1>2, <2>1, <2>2, <2>3, <2>4 DEF Household
<1>3. ASSUME NEW v \in Vehicles, CheckAges(v) PROVE DismissalsMirrored'
  BY <1>3 DEF CheckAges
<1>4. ASSUME NEW i, NEW listed, CatalogueChanges(i, listed) PROVE DismissalsMirrored'
  BY <1>4 DEF CatalogueChanges, recallTables
<1>5. ASSUME NEW k \in Checkers, CheckStep(k) PROVE DismissalsMirrored'
  <2>1. CASE SaveCheck(k)
    <3> DEFINE kept == rows \ doomed[k]
    <3>1. /\ rows' = kept \cup Listed(k)
          /\ hidden' = (hidden \cap kept) \cup ((Listed(k) \ kept) \cap dismissals)
          /\ dismissals' = dismissals
      BY <2>1 DEF SaveCheck, HiddenOnInsert
    <3> QED BY <3>1
  <2>2. CASE ~SaveCheck(k)
    BY <1>5, <2>2 DEF CheckStep, StartCheck, ListDueVehicles, Fetch, DeleteUnlisted,
                      AllChecked, UnlockCheck, recallTables
  <2> QED BY <2>1, <2>2
<1>6. ASSUME NEW k \in Checkers, NEW flaky, FetchFails(k, flaky) PROVE DismissalsMirrored'
  BY <1>6 DEF FetchFails, recallTables
<1>7. CASE DeadSessionEnds
  BY <1>7 DEF DeadSessionEnds, recallTables
<1>8. CASE CheckFault
  <2>1. CASE CheckSessionDrops
    BY <2>1 DEF CheckSessionDrops, recallTables
  <2>2. ASSUME NEW k \in Checkers, SaveFails(k) \/ StopCheck(k) \/ CheckerDies(k)
        PROVE  DismissalsMirrored'
    BY <2>2 DEF SaveFails, StopCheck, CheckerDies, recallTables
  <2> QED BY <1>8, <1>6, <2>1, <2>2 DEF CheckFault
<1> QED BY <1>1, <1>2, <1>3, <1>4, <1>5, <1>6, <1>7, <1>8 DEF RecallNext, RecallNormal

(* A campaign that NHTSA drops and relists stays dismissed, and a restored  *)
(* one does not come back dismissed, even when checks overlap: what the     *)
(* pages and the digest read of a row is what the household last said.      *)
THEOREM DismissalsStick == RecallSpec => []DismissalsMirrored
<1>1. RecallInit => DismissalsMirrored
  BY DEF RecallInit, DismissalsMirrored
<1> QED BY <1>1, MirrorStep, PTL DEF RecallSpec

-----------------------------------------------------------------------------
(* Why a page never shows another model's recalls while the lock excludes:  *)
(* only the lock's owner is running; what its transaction deletes is what   *)
(* is in the table when it commits; and the rows of a vehicle all come from *)
(* the fetch its vehicle_recall_checks row names.                           *)
OneChecker == \A k \in Checkers : at[k] # "idle" => checkHolder = k

DeletesAllUnlisted ==
  \A k \in Checkers : at[k] = "committing" =>
    doomed[k] = {p \in rows : p[1] = job[k].vehicle} \ Listed(k)

RowsFromLastCheck == \A p \in rows : listedFor[p] = checked[p[1]]

FitInv == OneChecker /\ DeletesAllUnlisted /\ RowsFromLastCheck

LEMMA NoJobIsNone == NoJob \notin Jobs
  BY RecallConstants DEF NoJob, Jobs

LEMMA RecallTypeInit == RecallInit => RecallTypeOK
  BY DEF RecallInit, RecallTypeOK, Stages

LEMMA RecallTypeStep ==
  ASSUME RecallTypeOK, [RecallNext]_recallVars
  PROVE  RecallTypeOK'
<1> USE DEF RecallTypeOK
<1>1. CASE UNCHANGED recallVars
  BY <1>1 DEF recallVars, garage, recallTables, checkRun, work
<1>2. CASE Household
  <2>1. ASSUME NEW v \in Vehicles, Archive(v) PROVE RecallTypeOK'
    BY <2>1 DEF Archive, recallTables, checkRun, work
  <2>2. ASSUME NEW v \in Vehicles, NEW i \in Identities \cup {NoIdentity}, EditVehicle(v, i)
        PROVE  RecallTypeOK'
    BY <2>2 DEF EditVehicle, recallTables, checkRun, work
  <2>3. ASSUME NEW p \in Pairs, Dismiss(p) \/ Restore(p) PROVE RecallTypeOK'
    BY <2>3 DEF Dismiss, Restore, garage, checkRun, work
  <2> QED BY <1>2, <2>1, <2>2, <2>3 DEF Household
<1>3. ASSUME NEW v \in Vehicles, CheckAges(v) PROVE RecallTypeOK'
  BY <1>3 DEF CheckAges, garage, checkRun, work
<1>4. ASSUME NEW i \in Identities, NEW listed \in SUBSET Campaigns, CatalogueChanges(i, listed)
      PROVE  RecallTypeOK'
  BY <1>4 DEF CatalogueChanges, garage, recallTables, checkRun, work
<1>5. ASSUME NEW k \in Checkers, CheckStep(k) PROVE RecallTypeOK'
  <2>1. CASE StartCheck(k)
    BY <2>1 DEF StartCheck, Proceed, Stages, garage, recallTables, work
  <2>2. CASE ListDueVehicles(k)
    <3>1. {[vehicle |-> v, identity |-> identity[v]] : v \in {u \in Vehicles : CheckDue(u)}}
            \subseteq Jobs
      BY DEF Jobs, CheckDue
    <3> QED BY <2>2, <3>1 DEF ListDueVehicles, Proceed, Stages, garage, recallTables
  <2>3. CASE Fetch(k)
    <3>1. PICK j \in todo[k] :
            /\ todo' = [todo EXCEPT ![k] = @ \ {j}]
            /\ job' = [job EXCEPT ![k] = j]
            /\ found' = [found EXCEPT ![k] = catalogue[j.identity]]
      BY <2>3 DEF Fetch
    <3>2. j \in Jobs /\ j.identity \in Identities /\ j # NoJob
      BY NoJobIsNone DEF Jobs
    <3>3. catalogue[j.identity] \in SUBSET Campaigns
      BY <3>2
    <3> QED BY <2>3, <3>1, <3>2, <3>3 DEF Fetch, Proceed, Stages, garage, recallTables
  <2>4. CASE DeleteUnlisted(k)
    BY <2>4 DEF DeleteUnlisted, Proceed, Stages, garage, recallTables
  <2>5. CASE SaveCheck(k)
    <3>1. job[k] \in Jobs /\ job[k].vehicle \in Vehicles /\ job[k].identity \in Identities
      BY <2>5 DEF SaveCheck, Jobs
    <3>2. Listed(k) \subseteq Pairs
      BY <3>1 DEF Listed, Pairs
    <3>3. rows' \subseteq Pairs /\ hidden' \subseteq Pairs
      BY <2>5, <3>2 DEF SaveCheck, HiddenOnInsert
    <3>4. DOMAIN notified' = Pairs
      BY <2>5 DEF SaveCheck, MarksAfterSave
    <3>5. listedFor' \in [Pairs -> Identities \cup {NoIdentity}]
      BY <2>5, <3>1 DEF SaveCheck
    <3>6. /\ checked' \in [Vehicles -> Identities \cup {NoIdentity}]
          /\ fresh' \subseteq Vehicles
      BY <2>5, <3>1 DEF SaveCheck, SavedIdentity
    <3>7. /\ at' = [at EXCEPT ![k] = "choosing"] /\ job' = [job EXCEPT ![k] = NoJob]
          /\ found' = [found EXCEPT ![k] = {}]
          /\ covered' = [covered EXCEPT ![k] = FALSE]
          /\ doomed' = [doomed EXCEPT ![k] = {}]
          /\ UNCHANGED <<identity, archived, catalogue, dismissals, checkHolder, todo>>
      BY <2>5 DEF SaveCheck, ForgetJob, Proceed, garage
    <3>8. /\ at' \in [Checkers -> Stages] /\ job' \in [Checkers -> Jobs \cup {NoJob}]
          /\ found' \in [Checkers -> SUBSET Campaigns]
          /\ covered' \in [Checkers -> BOOLEAN]
          /\ doomed' \in [Checkers -> SUBSET Pairs]
      BY <3>7 DEF Stages
    <3>9. \A l \in Checkers : at'[l] \in {"saving", "committing"} <=> job'[l] # NoJob
      BY <3>7
    <3> QED BY <3>3, <3>4, <3>5, <3>6, <3>7, <3>8, <3>9
  <2>6. CASE AllChecked(k)
    BY <2>6 DEF AllChecked, Proceed, Stages, garage, recallTables, work
  <2>7. CASE UnlockCheck(k)
    BY <2>7 DEF UnlockCheck, Proceed, Stages, garage, recallTables
  <2> QED BY <1>5, <2>1, <2>2, <2>3, <2>4, <2>5, <2>6, <2>7 DEF CheckStep
<1>6. ASSUME NEW k \in Checkers, NEW flaky, FetchFails(k, flaky) PROVE RecallTypeOK'
  BY <1>6 DEF FetchFails, garage, recallTables
<1>7. CASE DeadSessionEnds
  BY <1>7 DEF DeadSessionEnds, garage, recallTables, work
<1>8. CASE CheckFault
  <2>1. CASE CheckSessionDrops
    BY <2>1 DEF CheckSessionDrops, garage, recallTables, work
  <2>2. ASSUME NEW k \in Checkers, SaveFails(k) \/ CheckerDies(k) PROVE RecallTypeOK'
    BY <2>2 DEF SaveFails, CheckerDies, ForgetJob, Proceed, Stages, garage, recallTables
  <2>3. ASSUME NEW k \in Checkers, StopCheck(k) PROVE RecallTypeOK'
    BY <2>3 DEF StopCheck, Proceed, Stages, garage, recallTables, work
  <2> QED BY <1>8, <1>6, <2>1, <2>2, <2>3 DEF CheckFault
<1> QED BY <1>1, <1>2, <1>3, <1>4, <1>5, <1>6, <1>7, <1>8 DEF RecallNext, RecallNormal

(* Every reachable state of the recall check has the shape its tables and   *)
(* runs are declared with.                                                  *)
THEOREM RecallTypeCorrect == RecallSpec => []RecallTypeOK
  BY RecallTypeInit, RecallTypeStep, PTL DEF RecallSpec

LEMMA FitStep ==
  ASSUME RecallTypeOK, RecallTypeOK', FitInv, ~SessionDrops, [RecallNext]_recallVars
  PROVE  FitInv'
<1> USE DEF FitInv, OneChecker, DeletesAllUnlisted, RowsFromLastCheck
<1>1. ASSUME UNCHANGED <<recallTables, checkRun>> PROVE FitInv'
  BY <1>1 DEF recallTables, checkRun, work, Listed
<1>2. CASE Household
  <2>1. ASSUME NEW v, NEW i, Archive(v) \/ EditVehicle(v, i) PROVE FitInv'
    BY <1>1, <2>1 DEF Archive, EditVehicle
  <2>2. ASSUME NEW p \in Pairs, Dismiss(p) \/ Restore(p) PROVE FitInv'
    BY <2>2 DEF Dismiss, Restore, checkRun, work, Listed
  <2> QED BY <1>2, <2>1, <2>2 DEF Household
<1>3. ASSUME NEW v \in Vehicles, CheckAges(v) PROVE FitInv'
  BY <1>3 DEF CheckAges, checkRun, work, Listed
<1>4. ASSUME NEW i, NEW listed, CatalogueChanges(i, listed) PROVE FitInv'
  BY <1>1, <1>4 DEF CatalogueChanges
<1>5. ASSUME NEW k \in Checkers, CheckStep(k) PROVE FitInv'
  <2>0. /\ at[k] # "idle" => \A l \in Checkers \ {k} : at[l] = "idle"
        /\ checkHolder = NoOne => \A l \in Checkers : at[l] = "idle"
    BY RecallConstants
  <2>1. CASE StartCheck(k)
    BY <2>0, <2>1 DEF RecallTypeOK, StartCheck, Proceed, recallTables, work
  <2>2. CASE ListDueVehicles(k)
    BY <2>0, <2>2 DEF RecallTypeOK, ListDueVehicles, Proceed, recallTables
  <2>3. CASE Fetch(k)
    BY <2>0, <2>3 DEF RecallTypeOK, Fetch, Proceed, recallTables
  <2>4. CASE DeleteUnlisted(k)
    <3>1. Listed(k)' = Listed(k)
      BY <2>4 DEF DeleteUnlisted, Listed
    <3> QED BY <2>0, <2>4, <3>1 DEF RecallTypeOK, DeleteUnlisted, Proceed, recallTables
  <2>5. CASE SaveCheck(k)
    <3> DEFINE v == job[k].vehicle
    <3>1. job[k] \in Jobs /\ v \in Vehicles /\ job[k].identity \in Identities
      BY <2>5 DEF SaveCheck, Jobs, RecallTypeOK
    <3>2. Listed(k) = {<<v, c>> : c \in found[k]} /\ Listed(k) \subseteq Pairs
      BY <3>1 DEF Listed, Pairs, RecallTypeOK
    <3>3. /\ rows' = (rows \ doomed[k]) \cup Listed(k)
          /\ checked' = [checked EXCEPT ![v] = job[k].identity]
          /\ listedFor' = [p \in Pairs |-> IF p \in Listed(k) THEN job[k].identity
                                           ELSE listedFor[p]]
          /\ at' = [at EXCEPT ![k] = "choosing"]
          /\ checkHolder' = checkHolder
      BY <2>5 DEF SaveCheck, SavedIdentity, Proceed
    <3>4. doomed[k] = {p \in rows : p[1] = v} \ Listed(k)
      BY <2>5 DEF SaveCheck
    <3>5. \A p \in Listed(k) : p[1] = v
      BY <3>2
    <3>6. \A p \in rows' : p \in Pairs /\ (p \in Listed(k) \/ (p \in rows /\ p[1] # v))
      BY <3>2, <3>3, <3>4 DEF RecallTypeOK
    <3>7. \A p \in Pairs : p[1] \in Vehicles
      BY DEF Pairs
    <3>8. RowsFromLastCheck'
      BY <3>1, <3>3, <3>5, <3>6, <3>7 DEF RecallTypeOK
    <3>9. OneChecker' /\ DeletesAllUnlisted'
      BY <2>0, <2>5, <3>3 DEF SaveCheck, RecallTypeOK
    <3> QED BY <3>8, <3>9
  <2>6. CASE AllChecked(k)
    BY <2>0, <2>6 DEF RecallTypeOK, AllChecked, Proceed, recallTables, work
  <2>7. CASE UnlockCheck(k)
    BY <2>0, <2>7 DEF RecallTypeOK, UnlockCheck, Proceed, recallTables
  <2> QED BY <1>5, <2>1, <2>2, <2>3, <2>4, <2>5, <2>6, <2>7 DEF CheckStep
<1>6. ASSUME NEW k \in Checkers, NEW flaky, FetchFails(k, flaky) PROVE FitInv'
  BY <1>6 DEF FetchFails, recallTables, Listed
<1>7. CASE DeadSessionEnds
  BY <1>7 DEF DeadSessionEnds, recallTables, work, Listed, RecallTypeOK
<1>8. CASE CheckFault
  <2>1. ~CheckSessionDrops
    BY DEF CheckSessionDrops
  <2>2. ASSUME NEW k \in Checkers, SaveFails(k) \/ StopCheck(k) \/ CheckerDies(k) PROVE FitInv'
    <3>1. at[k] # "idle" /\ \A l \in Checkers \ {k} : at[l] = "idle"
      BY <2>2 DEF SaveFails, StopCheck, CheckerDies
    <3>2. /\ \E stage \in {"choosing", "unlocking", "idle"} : at' = [at EXCEPT ![k] = stage]
          /\ UNCHANGED <<recallTables, checkHolder>>
      BY <2>2 DEF SaveFails, StopCheck, CheckerDies, Proceed
    <3> QED BY <3>1, <3>2 DEF RecallTypeOK, recallTables
  <2> QED BY <1>8, <1>6, <2>1, <2>2 DEF CheckFault
<1>9. CASE UNCHANGED recallVars
  BY <1>1, <1>9 DEF recallVars
<1> QED BY <1>2, <1>3, <1>4, <1>5, <1>6, <1>7, <1>8, <1>9 DEF RecallNext, RecallNormal

(* As long as no lock session drops under a running check, no page shows and *)
(* no digest lists a campaign of a year, make or model the vehicle does not *)
(* have now, whatever the household edits while a check fetches and saves.  *)
THEOREM ShownAlwaysFits == RecallSpec /\ ~SessionDrops => []ShownFitsVehicle
<1>1. RecallInit => FitInv
  BY DEF RecallInit, FitInv, OneChecker, DeletesAllUnlisted, RowsFromLastCheck
<1>2. RecallTypeOK /\ FitInv => ShownFitsVehicle
  BY DEF RecallTypeOK, FitInv, RowsFromLastCheck, ShownFitsVehicle, Shown, Current
<1>3. RecallTypeOK /\ FitInv /\ ~SessionDrops /\ [RecallNext]_recallVars
        => RecallTypeOK' /\ FitInv'
  BY RecallTypeStep, FitStep
<1>4. ~SessionDrops => (~SessionDrops)'
  OBVIOUS
<1> QED BY <1>1, <1>2, <1>3, <1>4, RecallTypeInit, PTL DEF RecallSpec

-----------------------------------------------------------------------------
(* Why a first check is silent: what a transaction read of                  *)
(* vehicle_recall_checks is still there when it commits.                    *)
CoveredIsCurrent ==
  \A k \in Checkers : at[k] = "committing" /\ covered[k] =>
    checked[job[k].vehicle] = job[k].identity

LEMMA CoveredStep ==
  ASSUME RecallTypeOK, RecallTypeOK', FitInv, FitInv', CoveredIsCurrent, [RecallNext]_recallVars
  PROVE  CoveredIsCurrent'
<1> USE DEF CoveredIsCurrent
<1>1. ASSUME UNCHANGED <<checked, checkRun>> PROVE CoveredIsCurrent'
  BY <1>1 DEF checkRun, work
<1>2. CASE Household
  <2>1. ASSUME NEW v, NEW i, Archive(v) \/ EditVehicle(v, i) PROVE CoveredIsCurrent'
    BY <1>1, <2>1 DEF Archive, EditVehicle, recallTables
  <2>2. ASSUME NEW p \in Pairs, Dismiss(p) \/ Restore(p) PROVE CoveredIsCurrent'
    BY <1>1, <2>2 DEF Dismiss, Restore
  <2> QED BY <1>2, <2>1, <2>2 DEF Household
<1>3. ASSUME NEW v \in Vehicles, CheckAges(v) PROVE CoveredIsCurrent'
  BY <1>1, <1>3 DEF CheckAges
<1>4. ASSUME NEW i, NEW listed, CatalogueChanges(i, listed) PROVE CoveredIsCurrent'
  BY <1>1, <1>4 DEF CatalogueChanges, recallTables
<1>5. ASSUME NEW k \in Checkers, CheckStep(k) PROVE CoveredIsCurrent'
  <2>1. \A l \in Checkers \ {k} : at'[l] = at[l]
    BY <1>5 DEF CheckStep, StartCheck, ListDueVehicles, Fetch, DeleteUnlisted, SaveCheck,
                AllChecked, UnlockCheck, Proceed, RecallTypeOK
  <2>2. at[k] # "idle" => \A l \in Checkers \ {k} : at[l] = "idle"
    BY DEF FitInv, OneChecker
  <2>3. CASE DeleteUnlisted(k)
    BY <2>1, <2>2, <2>3 DEF DeleteUnlisted, Proceed, recallTables, RecallTypeOK
  <2>4. CASE StartCheck(k)
    BY <2>1, <2>4 DEF StartCheck, Proceed, recallTables, work, RecallTypeOK
  <2>5. ASSUME ListDueVehicles(k) \/ Fetch(k) \/ SaveCheck(k) \/ AllChecked(k) \/ UnlockCheck(k)
        PROVE  CoveredIsCurrent'
    <3>1. at'[k] # "committing" /\ at[k] # "idle"
      BY <2>5 DEF ListDueVehicles, Fetch, SaveCheck, AllChecked, UnlockCheck, Proceed, RecallTypeOK
    <3> QED BY <2>1, <2>2, <3>1
  <2> QED BY <1>5, <2>3, <2>4, <2>5 DEF CheckStep
<1>6. ASSUME NEW k \in Checkers, NEW flaky, FetchFails(k, flaky) PROVE CoveredIsCurrent'
  BY <1>6 DEF FetchFails, recallTables
<1>7. CASE DeadSessionEnds
  BY <1>7 DEF DeadSessionEnds, recallTables, work
<1>8. CASE CheckFault
  <2>1. CASE CheckSessionDrops
    BY <2>1 DEF CheckSessionDrops, recallTables, work
  <2>2. ASSUME NEW k \in Checkers, SaveFails(k) \/ StopCheck(k) \/ CheckerDies(k)
        PROVE  CoveredIsCurrent'
    <3>1. /\ at[k] # "idle" /\ at'[k] # "committing"
          /\ \A l \in Checkers \ {k} : at'[l] = at[l]
      BY <2>2 DEF SaveFails, StopCheck, CheckerDies, Proceed, RecallTypeOK
    <3>2. \A l \in Checkers \ {k} : at[l] = "idle"
      BY <3>1 DEF FitInv, OneChecker
    <3> QED BY <3>1, <3>2
  <2> QED BY <1>8, <1>6, <2>1, <2>2 DEF CheckFault
<1>9. CASE UNCHANGED recallVars
  BY <1>1, <1>9 DEF recallVars, recallTables
<1> QED BY <1>2, <1>3, <1>4, <1>5, <1>6, <1>7, <1>8, <1>9 DEF RecallNext, RecallNormal

(* Only a save makes a recall ready to be announced, and only one that      *)
(* found its identity covered. *)
LEMMA SilentStep ==
  ASSUME RecallTypeOK, CoveredIsCurrent, [RecallNext]_recallVars,
         NEW p \in Unannounced' \ Unannounced
  PROVE  checked[p[1]] # NoIdentity /\ checked'[p[1]] = checked[p[1]]
<1>1. p \in rows' /\ notified'[p] = Unmarked /\ ~(p \in rows /\ notified[p] = Unmarked)
  BY DEF Unannounced
<1>2. ASSUME UNCHANGED <<rows, notified>> PROVE FALSE
  BY <1>1, <1>2
<1>3. ~Household
  <2>1. \A v, i : ~Archive(v) /\ ~EditVehicle(v, i)
    BY <1>2 DEF Archive, EditVehicle, recallTables
  <2>2. \A q \in Pairs : ~Dismiss(q) /\ ~Restore(q)
    BY <1>2 DEF Dismiss, Restore
  <2> QED BY <2>1, <2>2 DEF Household
<1>4. \A v, i, l : ~CheckAges(v) /\ ~CatalogueChanges(i, l)
  BY <1>2 DEF CheckAges, CatalogueChanges, recallTables
<1>5. ~DeadSessionEnds /\ ~CheckSessionDrops /\ ~UNCHANGED recallVars
  BY <1>2 DEF DeadSessionEnds, CheckSessionDrops, recallVars, recallTables
<1>6. \A k \in Checkers : /\ \A flaky : ~FetchFails(k, flaky)
                          /\ ~SaveFails(k) /\ ~StopCheck(k) /\ ~CheckerDies(k)
  BY <1>2 DEF FetchFails, SaveFails, StopCheck, CheckerDies, recallTables
<1>7. PICK k \in Checkers : CheckStep(k)
  BY <1>3, <1>4, <1>5, <1>6 DEF RecallNext, RecallNormal, CheckFault
<1>8. SaveCheck(k)
  BY <1>2, <1>7 DEF CheckStep, StartCheck, ListDueVehicles, Fetch, DeleteUnlisted, AllChecked,
                    UnlockCheck, recallTables
<1>9. /\ job[k] \in Jobs /\ at[k] = "committing"
      /\ rows' = (rows \ doomed[k]) \cup Listed(k) /\ notified' = MarksAfterSave(k)
      /\ checked' = [checked EXCEPT ![job[k].vehicle] = job[k].identity]
  BY <1>8 DEF SaveCheck, SavedIdentity, RecallTypeOK
<1>10. rows' \subseteq Pairs
  <2>1. Listed(k) \subseteq Pairs
    BY <1>9 DEF Listed, Pairs, Jobs, RecallTypeOK
  <2> QED BY <1>9, <2>1 DEF RecallTypeOK
<1>11. p \in Pairs /\ notified[p] = Unmarked /\ p \notin BaselineOf(k)
  BY <1>1, <1>9, <1>10, RecallConstants DEF MarksAfterSave
<1>12. p \in Listed(k) /\ covered[k]
  BY <1>1, <1>9, <1>11 DEF BaselineOf
<1>13. p[1] = job[k].vehicle
  BY <1>12 DEF Listed
<1>14. checked[job[k].vehicle] = job[k].identity
  BY <1>9, <1>12 DEF CoveredIsCurrent
<1>15. job[k].vehicle \in Vehicles /\ job[k].identity \in Identities
  BY <1>9 DEF Jobs
<1> QED BY <1>9, <1>13, <1>14, <1>15, RecallConstants DEF RecallTypeOK

(* A recall becomes ready to be announced only in a check that finds its    *)
(* vehicle checked before for the same year, make and model, as long as no  *)
(* lock session drops under a running check (SaveRecallCheck's baseline).   *)
THEOREM FirstChecksAreSilent == RecallSpec /\ ~SessionDrops => BaselineIsSilent
<1>1. RecallInit => FitInv /\ CoveredIsCurrent
  BY DEF RecallInit, FitInv, OneChecker, DeletesAllUnlisted, RowsFromLastCheck, CoveredIsCurrent
<1>2. RecallTypeOK /\ FitInv /\ CoveredIsCurrent /\ ~SessionDrops /\ [RecallNext]_recallVars
        => RecallTypeOK' /\ FitInv' /\ CoveredIsCurrent'
  BY RecallTypeStep, FitStep, CoveredStep
<1>3. RecallTypeOK /\ CoveredIsCurrent /\ [RecallNext]_recallVars
        => [\A p \in Unannounced' \ Unannounced :
              checked[p[1]] # NoIdentity /\ checked'[p[1]] = checked[p[1]]]_recallVars
  BY SilentStep
<1>4. ~SessionDrops => (~SessionDrops)'
  OBVIOUS
<1> QED BY <1>1, <1>2, <1>3, <1>4, RecallTypeInit, PTL DEF RecallSpec, BaselineIsSilent

-----------------------------------------------------------------------------
(* The check and the digest.                                                *)

(* The digest's theorems, of the recalls it has here. *)
DP == INSTANCE DigestProofs WITH Recalls <- Pairs, open <- Open

-----------------------------------------------------------------------------
(* The marks are a table the two jobs share: which of them steps, it stays  *)
(* a mark for each recall.                                                  *)
Recorded == RecallTypeOK /\ notified = [p \in Pairs |-> notified[p]]

LEMMA RecordedInit == Init => Recorded
<1>1. RecallInit => RecallTypeOK
  BY RecallTypeInit
<1> QED BY <1>1 DEF Init, RecallInit, Recorded

(* A step of the check changes no mark but those of a baseline. *)
LEMMA MarksMove ==
  ASSUME Recorded, [RecallNext]_recallVars
  PROVE  \E silenced \in SUBSET Pairs :
           notified' = [c \in Pairs |-> IF c \in silenced /\ notified[c] = Unmarked
                                        THEN Baseline ELSE notified[c]]
<1>1. ASSUME UNCHANGED notified
      PROVE  notified' = [c \in Pairs |-> IF c \in {} /\ notified[c] = Unmarked
                                          THEN Baseline ELSE notified[c]]
  BY <1>1 DEF Recorded
<1>2. ASSUME ~UNCHANGED notified PROVE \E k \in Checkers : SaveCheck(k)
  <2>1. ~Household
    <3>1. \A v, i : ~Archive(v) /\ ~EditVehicle(v, i)
      BY <1>2 DEF Archive, EditVehicle
    <3>2. \A q \in Pairs : ~Dismiss(q) /\ ~Restore(q)
      BY <1>2 DEF Dismiss, Restore
    <3> QED BY <3>1, <3>2 DEF Household
  <2>2. \A v, i, l : ~CheckAges(v) /\ ~CatalogueChanges(i, l)
    BY <1>2 DEF CheckAges, CatalogueChanges
  <2>3. ~DeadSessionEnds /\ ~CheckSessionDrops /\ ~UNCHANGED recallVars
    BY <1>2 DEF DeadSessionEnds, CheckSessionDrops, recallVars
  <2>4. \A k \in Checkers : /\ \A flaky : ~FetchFails(k, flaky)
                            /\ ~SaveFails(k) /\ ~StopCheck(k) /\ ~CheckerDies(k)
    BY <1>2 DEF FetchFails, SaveFails, StopCheck, CheckerDies
  <2>5. PICK k \in Checkers : CheckStep(k)
    BY <2>1, <2>2, <2>3, <2>4 DEF RecallNext, RecallNormal, CheckFault
  <2> QED
    BY <1>2, <2>5 DEF CheckStep, StartCheck, ListDueVehicles, Fetch, DeleteUnlisted, AllChecked,
                      UnlockCheck
<1>3. ASSUME NEW k \in Checkers, SaveCheck(k)
      PROVE  /\ BaselineOf(k) \subseteq Pairs
             /\ notified' = [c \in Pairs |-> IF c \in BaselineOf(k) /\ notified[c] = Unmarked
                                             THEN Baseline ELSE notified[c]]
  <2>1. job[k] \in Jobs
    BY <1>3 DEF SaveCheck, Recorded, RecallTypeOK
  <2>2. Listed(k) \subseteq Pairs
    BY <2>1 DEF Listed, Pairs, Jobs, Recorded, RecallTypeOK
  <2> QED BY <1>3, <2>2 DEF SaveCheck, MarksAfterSave, BaselineOf
<1>4. CASE UNCHANGED notified
  <2>1. {} \in SUBSET Pairs
    OBVIOUS
  <2> QED BY <1>1, <1>4, <2>1
<1>5. CASE ~UNCHANGED notified
  <2>1. PICK k \in Checkers : SaveCheck(k)
    BY <1>2, <1>5
  <2>2. BaselineOf(k) \in SUBSET Pairs
    BY <1>3, <2>1
  <2> QED BY <1>3, <2>1, <2>2
<1> QED BY <1>4, <1>5

LEMMA RecordedStep ==
  ASSUME Recorded, [Next]_allVars
  PROVE  Recorded'
<1>1. ASSUME [RecallNext]_recallVars PROVE Recorded'
  <2>1. RecallTypeOK'
    BY <1>1, RecallTypeStep DEF Recorded
  <2>2. PICK silenced \in SUBSET Pairs :
           notified' = [c \in Pairs |-> IF c \in silenced /\ notified[c] = Unmarked
                                        THEN Baseline ELSE notified[c]]
    BY <1>1, MarksMove
  <2>3. notified' = [p \in Pairs |-> notified'[p]]
    BY <2>2
  <2> QED BY <2>1, <2>3 DEF Recorded
<1>2. CASE DigestSide
  <2>1. notified' = [p \in Pairs |-> notified'[p]]
    <3>1. ASSUME UNCHANGED notified PROVE notified' = [p \in Pairs |-> notified'[p]]
      BY <3>1 DEF Recorded
    <3>2. CASE D!NewWeek \/ D!SendHour \/ D!OrphanSessionEnds \/ D!SessionDropped
      BY <3>1, <3>2 DEF D!NewWeek, D!SendHour, D!OrphanSessionEnds, D!SessionDropped, D!tables
    <3>3. ASSUME NEW r \in Runners, D!Reserve(r)
          PROVE  notified' = [p \in Pairs |-> notified'[p]]
      BY <3>1, <3>3 DEF D!Reserve, D!ReserveTx, D!tables
    <3>4. ASSUME NEW r \in Runners, D!ReserveAckLost(r) \/ D!Release(r)
          PROVE  notified' = [p \in Pairs |-> notified'[p]]
      BY <3>4 DEF D!ReserveAckLost, D!Release, D!ReserveTx, D!ReleaseTx
    <3>5. ASSUME NEW r \in Runners, 
                 \/ D!Start(r) \/ D!TryLock(r) \/ D!CheckClaimed(r) \/ D!ListDue(r) \/ D!Send(r)
                 \/ D!Complete(r) \/ D!Unlock(r) \/ D!LockError(r) \/ D!DbError(r)
                 \/ D!SendRejected(r) \/ D!SendReplyLost(r) \/ D!Crash(r)
          PROVE  UNCHANGED notified
      BY <3>5 DEF D!Start, D!TryLock, D!CheckClaimed, D!ListDue, D!Send, D!Complete, D!CompleteTx,
         D!Unlock, D!LockError, D!DbError, D!SendRejected, D!SendReplyLost, D!Crash, D!tables
    <3> QED BY <1>2, <3>1, <3>2, <3>3, <3>4, <3>5 DEF DigestSide, D!Step, D!Fault
  <2>2. UNCHANGED <<garage, catalogue, recallTables, checkRun>>
    BY <1>2 DEF DigestSide, RestOfRecalls
  <2>3. DOMAIN notified' = Pairs
    BY <2>1
  <2> QED BY <2>1, <2>2, <2>3 DEF Recorded, RecallTypeOK, garage, recallTables, checkRun, work
<1>3. CASE UNCHANGED allVars
  <2>1. [RecallNext]_recallVars
    BY <1>3 DEF allVars
  <2> QED BY <1>1, <2>1
<1>4. CASE RecallSide
  BY <1>1, <1>4 DEF RecallSide
<1> QED BY <1>2, <1>3, <1>4 DEF Next

LEMMA RecordedAlways == Spec => []Recorded
  BY RecordedInit, RecordedStep, PTL DEF Spec

-----------------------------------------------------------------------------
LEMMA DigestInit == Init => D!Init
<1> SUFFICES ASSUME Init PROVE D!Init
  OBVIOUS
<1>1. Open = {}
  BY DEF Init, RecallInit, Open, Shown
<1> QED BY <1>1 DEF Init, D!Init

(* What the check, the edits and the dismissals do is RecallsChange. *)
LEMMA RecallSideIsRecallsChange ==
  ASSUME Recorded, Recorded', RecallSide
  PROVE  D!RecallsChange
<1>1. PICK silenced \in SUBSET Pairs :
           notified' = [c \in Pairs |-> IF c \in silenced /\ notified[c] = Unmarked
                                        THEN Baseline ELSE notified[c]]
  BY MarksMove DEF RecallSide
<1>2. Open' \in SUBSET Pairs
  BY DEF Recorded, RecallTypeOK, Open, Shown
<1>3. UNCHANGED <<D!calendar, lockHolder, D!run, digests, mailbox>>
  BY DEF RecallSide, digestVars, D!calendar, D!run
<1> QED BY <1>1, <1>2, <1>3 DEF D!RecallsChange

LEMMA DigestStep ==
  ASSUME Recorded, Recorded', [Next]_allVars
  PROVE  [D!Next]_D!vars
<1>1. CASE RecallSide
  BY <1>1, RecallSideIsRecallsChange DEF D!Next, D!Normal
<1>2. CASE DigestSide
  BY <1>2 DEF DigestSide, D!Next, D!Normal
<1>3. CASE UNCHANGED allVars
  BY <1>3 DEF allVars, recallVars, digestVars, garage, recallTables, D!vars, D!calendar, D!run,
              D!tables, Open, Shown, Current
<1> QED BY <1>1, <1>2, <1>3 DEF Next

(* The recall check, the edits and the dismissals only do to the digest's   *)
(* recalls and marks what Digest assumes of them, so every property of the  *)
(* digest holds beside the recall check too.                                *)
THEOREM DigestKeepsItsSpecification == Spec => DigestKept
<1>1. Recorded /\ Recorded' /\ [Next]_allVars => [D!Next]_D!vars
  BY DigestStep
<1> QED BY <1>1, DigestInit, RecordedAlways, PTL DEF Spec, DigestKept, D!Spec
-----------------------------------------------------------------------------
(* What Digest proves of itself, here. *)
LEMMA DigestConstantsHold == DP!ConstantsAssumption
  BY DigestConstants, RecallConstants DEF DP!ConstantsAssumption

LEMMA SameInit == D!Init <=> DP!Init
  BY DEF D!Init, DP!Init

LEMMA SameNext == D!Next <=> DP!Next
  BY DEF D!Next, D!Normal, D!Fault, D!Step, D!NewWeek, D!SendHour, D!RecallsChange, D!Start,
     D!TryLock, D!CheckClaimed, D!ListDue, D!Reserve, D!Send, D!Release, D!Complete, D!Unlock,
     D!LockError, D!DbError, D!ReserveAckLost, D!SendRejected, D!SendReplyLost, D!Crash,
     D!SessionDropped, D!OrphanSessionEnds, D!Claimed, D!Unnotified, D!FreshIds, D!ReserveTx,
     D!ReleaseTx, D!CompleteTx, D!Goto, D!EndRun, D!AnythingToReport, D!HoldClaim, D!Message,
     D!calendar, D!run, D!tables,
     DP!Next, DP!Normal, DP!Fault, DP!Step, DP!NewWeek, DP!SendHour, DP!RecallsChange, DP!Start,
     DP!TryLock, DP!CheckClaimed, DP!ListDue, DP!Reserve, DP!Send, DP!Release, DP!Complete,
     DP!Unlock, DP!LockError, DP!DbError, DP!ReserveAckLost, DP!SendRejected, DP!SendReplyLost,
     DP!Crash, DP!SessionDropped, DP!OrphanSessionEnds, DP!Claimed, DP!Unnotified, DP!FreshIds,
     DP!ReserveTx, DP!ReleaseTx, DP!CompleteTx, DP!Goto, DP!EndRun, DP!AnythingToReport,
     DP!HoldClaim, DP!Message, DP!calendar, DP!run, DP!tables

LEMMA SameSpec == D!Spec <=> DP!Spec
<1>1. [D!Next]_D!vars <=> [DP!Next]_DP!vars
  BY SameNext DEF D!vars, DP!vars, D!calendar, DP!calendar, D!run, DP!run, D!tables, DP!tables
<1> QED BY <1>1, SameInit, PTL DEF D!Spec, DP!Spec

(* Each recall is announced in one message at most, whatever the check      *)
(* drops, relists and baselines and whatever the household edits meanwhile, *)
(* as long as replies arrive and every run has its deadline.                *)
THEOREM RecallsAnnouncedOnceHere ==
  Spec /\ ~LostReplies /\ Deadlined = Runners => []RecallAnnouncedOnce
<1>1. DP!Spec /\ ~LostReplies /\ Deadlined = Runners => []DP!AnnouncedOnce
  BY DP!RecallsAnnouncedOnce, DigestConstantsHold
<1>2. DP!AnnouncedOnce <=> RecallAnnouncedOnce
  BY DEF RecallAnnouncedOnce, D!AnnouncedOnce, DP!AnnouncedOnce
<1>3. CASE ~LostReplies /\ Deadlined = Runners
  <2>1. Spec => D!Spec
    BY DigestKeepsItsSpecification DEF DigestKept
  <2>2. DP!Spec => []DP!AnnouncedOnce
    BY <1>1, <1>3
  <2> QED BY <1>2, <2>1, <2>2, SameSpec, PTL
<1>4. CASE ~(~LostReplies /\ Deadlined = Runners)
  BY <1>4
<1> QED BY <1>3, <1>4

-----------------------------------------------------------------------------
(* Why a dismissed recall stays out of the email: what has been dismissed   *)
(* since a run began is dismissed now, a listed recall that is dismissed is *)
(* hidden, and a run that has not listed anything holds no recalls.         *)
QuietIsDismissed == \A r \in Runners : quiet[r] \subseteq dismissals

NothingListedYet ==
  \A r \in Runners :
    pc[r] \in {"idle", "starting", "checking", "listing"} => snapshot[r] = {}

SilentInv ==
  /\ DismissalsMirrored
  /\ QuietIsDismissed
  /\ NothingListedYet
  /\ DismissedStaysSilent

LEMMA SilentInit == Init => SilentInv
  BY DEF Init, RecallInit, D!Init, SilentInv, DismissalsMirrored, QuietIsDismissed,
         NothingListedYet, DismissedStaysSilent

(* A step of the digest: snapshots are of recalls that are open, and open   *)
(* recalls are not dismissed.                                               *)
LEMMA SilentDigestStep ==
  ASSUME SilentInv, D!TypeOK, DigestSide
  PROVE  SilentInv'
<1> DEFINE Kept(r) ==
             /\ snapshot'[r] \subseteq snapshot[r]
             /\ pc'[r] = "idle" => snapshot'[r] = {} \/ pc[r] \in {"idle", "starting"}
             /\ pc'[r] \in {"starting", "checking", "listing"} =>
                  pc[r] \in {"idle", "starting", "checking", "listing"}
<1>1. /\ UNCHANGED <<rows, hidden, dismissals>>
      /\ quiet' = [r \in Runners |->
           IF pc[r] = "idle" /\ pc'[r] = "starting" THEN dismissals ELSE quiet[r]]
  BY DEF DigestSide, RestOfRecalls, recallTables
<1>2. DismissalsMirrored'
  BY <1>1 DEF SilentInv, DismissalsMirrored
<1>3. QuietIsDismissed'
  BY <1>1 DEF SilentInv, QuietIsDismissed
<1>4. ASSUME NEW r \in Runners, Kept(r)
      PROVE  /\ pc'[r] \in {"idle", "starting", "checking", "listing"} => snapshot'[r] = {}
             /\ pc'[r] # "idle" => snapshot'[r] \cap quiet'[r] = {}
  <2>1. pc'[r] \in {"idle", "starting", "checking", "listing"} => snapshot'[r] = {}
    BY <1>4 DEF SilentInv, NothingListedYet
  <2>2. pc'[r] # "idle" => snapshot'[r] \cap quiet'[r] = {}
    BY <1>1, <1>4, <2>1 DEF SilentInv, NothingListedYet, DismissedStaysSilent
  <2> QED BY <2>1, <2>2
<1>5. ASSUME NEW r \in Runners, D!ListDue(r)
      PROVE  /\ pc'[r] \notin {"idle", "starting", "checking", "listing"}
             /\ snapshot'[r] \cap quiet'[r] = {}
  <2>1. pc[r] = "listing" /\ pc'[r] \in {"reserving", "unlocking"}
    BY <1>5 DEF D!ListDue, D!Goto, D!TypeOK
  <2>2. snapshot'[r] \cap dismissals = {}
    BY <1>5 DEF D!ListDue, D!Unnotified, D!TypeOK, Open, Shown, SilentInv, DismissalsMirrored
  <2>3. quiet'[r] \subseteq dismissals
    BY <1>1 DEF SilentInv, QuietIsDismissed
  <2> QED BY <2>1, <2>2, <2>3
<1>6. ASSUME NEW s \in Runners PROVE Kept(s) \/ D!ListDue(s)
  <2>1. CASE UNCHANGED <<pc, snapshot>>
    BY <2>1
  <2>2. ASSUME NEW r \in Runners, D!ListDue(r), r # s PROVE Kept(s)
    BY <2>2 DEF D!ListDue, D!Goto, D!TypeOK
  <2>3. ASSUME NEW r \in Runners, D!Start(r) \/ D!TryLock(r) \/ D!LockError(r) \/ D!CheckClaimed(r)
        PROVE  Kept(s)
    <3>1. /\ UNCHANGED snapshot
          /\ pc[r] \in {"idle", "starting", "checking"}
          /\ \E place : /\ pc' = [pc EXCEPT ![r] = place]
                        /\ place = "idle" => pc[r] = "starting"
      BY <2>3 DEF D!Start, D!TryLock, D!LockError, D!CheckClaimed, D!Goto
    <3> QED BY <3>1 DEF D!TypeOK
  <2>4. ASSUME NEW r \in Runners,
               \/ D!Reserve(r) \/ D!Send(r) \/ D!Release(r) \/ D!Complete(r) \/ D!DbError(r)
               \/ D!ReserveAckLost(r) \/ D!SendRejected(r) \/ D!SendReplyLost(r)
        PROVE  Kept(s)
    <3>1. /\ UNCHANGED snapshot
          /\ \E place \in {"sending", "completing", "releasing", "unlocking"} :
               pc' = [pc EXCEPT ![r] = place]
      BY <2>4 DEF D!Reserve, D!Send, D!Release, D!Complete, D!DbError, D!ReserveAckLost,
                  D!SendRejected, D!SendReplyLost, D!Goto
    <3> QED BY <3>1 DEF D!TypeOK
  <2>5. ASSUME NEW r \in Runners, D!Unlock(r) \/ D!Crash(r) PROVE Kept(s)
    BY <2>5 DEF D!Unlock, D!Crash, D!EndRun, D!Goto, D!TypeOK
  <2>6. CASE D!NewWeek \/ D!SendHour \/ D!OrphanSessionEnds \/ D!SessionDropped
    BY <2>1, <2>6 DEF D!NewWeek, D!SendHour, D!OrphanSessionEnds, D!SessionDropped, D!run
  <2> QED BY <2>2, <2>3, <2>4, <2>5, <2>6 DEF DigestSide, D!Step, D!Fault
<1> HIDE DEF Kept
<1>7. NothingListedYet'
  BY <1>4, <1>5, <1>6 DEF NothingListedYet
<1>8. DismissedStaysSilent'
  BY <1>4, <1>5, <1>6 DEF DismissedStaysSilent
<1> QED BY <1>2, <1>3, <1>7, <1>8 DEF SilentInv

LEMMA QuietStep ==
  ASSUME SilentInv, D!TypeOK, [Next]_allVars
  PROVE  SilentInv'
<1>1. CASE RecallSide
  <2>1. DismissalsMirrored'
    BY <1>1, MirrorStep DEF RecallSide, SilentInv
  <2>2. /\ UNCHANGED <<pc, snapshot>>
        /\ quiet' = [r \in Runners |-> quiet[r] \cap dismissals']
    BY <1>1 DEF RecallSide, digestVars
  <2>3. QuietIsDismissed' /\ NothingListedYet' /\ DismissedStaysSilent'
    BY <2>2 DEF SilentInv, QuietIsDismissed, NothingListedYet, DismissedStaysSilent
  <2> QED BY <2>1, <2>3 DEF SilentInv
<1>2. CASE DigestSide
  BY <1>2, SilentDigestStep
<1>3. CASE UNCHANGED allVars
  BY <1>3 DEF allVars, recallVars, recallTables, digestVars, SilentInv, DismissalsMirrored,
              QuietIsDismissed, NothingListedYet, DismissedStaysSilent
<1> QED BY <1>1, <1>2, <1>3 DEF Next

(* No message holds a recall that has been dismissed ever since its run     *)
(* began, although the checks delete and reinsert the rows that carry       *)
(* dismissed_at (SaveRecallCheck, ListUnnotifiedRecalls).                   *)
THEOREM DismissedRecallsStaySilent == Spec => []DismissedStaysSilent
<1>1. DP!Spec => []DP!TypeOK
  BY DP!TypeCorrect, DigestConstantsHold
<1>2. DP!TypeOK <=> D!TypeOK
  BY DEF DP!TypeOK, D!TypeOK, DP!Weeks, D!Weeks, DP!Places, D!Places, DP!Digests, D!Digests,
         DP!Mail, D!Mail
<1>3. Spec => []D!TypeOK
  BY <1>1, <1>2, SameSpec, DigestKeepsItsSpecification, PTL DEF DigestKept
<1>4. SilentInv /\ D!TypeOK /\ [Next]_allVars => SilentInv'
  BY QuietStep
<1>5. SilentInv => DismissedStaysSilent
  BY DEF SilentInv
<1> QED BY <1>3, <1>4, <1>5, SilentInit, PTL DEF Spec

=============================================================================

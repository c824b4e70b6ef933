----------------------------- MODULE AssetProofs -----------------------------
(***************************************************************************)
(* Proofs about AssetStore: no key dangles, for any number of requests,    *)
(* records, vehicles, files and receipts in a form.                        *)
(***************************************************************************)
EXTENDS AssetStore, TLAPS

USE AssetConstants

LEMMA InReferenced ==
  ASSUME NEW f
  PROVE  f \in Referenced <=> \/ \E r \in Records : f \in attached[r]
                              \/ f # NoKey /\ \E v \in Vehicles : f = photo[v]
  BY DEF Referenced

LEMMA FreshIsNew ==
  ASSUME TypeOK, NEW f \in FreshKeys
  PROVE  /\ f \in Keys /\ f # NoKey
         /\ f \notin objects \cup temporary \cup old \cup Referenced \cup scanned \cup referenced
         /\ \A q \in Requests : f \notin keys[q] /\ f # writing[q]
<1>1. /\ f \in Keys
      /\ f \notin objects \cup temporary \cup Referenced \cup scanned \cup referenced
      /\ f \notin UNION {keys[q] \cup {writing[q]} : q \in Requests}
  BY Zenon DEF FreshKeys
<1>2. old \subseteq objects \cup temporary
  BY DEF TypeOK
<1>3. \A q \in Requests : f \notin keys[q] /\ f # writing[q]
  BY <1>1
<1> QED BY <1>1, <1>2, <1>3

-----------------------------------------------------------------------------
(* Types.                                                                   *)

LEMMA WriteRowsType ==
  ASSUME TypeOK, NEW q \in Requests, WriteRows(q)
  PROVE  /\ state' \in [Records -> {"absent", "live", "deleted"}]
         /\ attached' \in [Records -> SUBSET Keys]
         /\ \A r \in Records : state'[r] # "live" => attached'[r] = {}
         /\ photo' \in [Vehicles -> Keys \cup {NoKey}]
<1> USE DEF TypeOK
<1>1. CASE task[q].kind = "create" \/ task[q].kind = "attach"
  BY <1>1 DEF WriteRows
<1>2. CASE task[q].kind = "photo"
  <2>1. task[q] \in PhotoTasks /\ task[q].vehicle \in Vehicles
    BY <1>2 DEF RecordTasks, PhotoTasks, NoTask
  <2>2. NewPhoto(q) \subseteq Keys \cup {NoKey}
    BY <2>1 DEF NewPhoto
  <2> QED BY <1>2, <2>2 DEF WriteRows
<1> QED BY <1>1, <1>2 DEF WriteRows

LEMMA RemovedRowsType ==
  ASSUME TypeOK, NEW s,
         state' = [state EXCEPT ![s] = "deleted"],
         attached' = [attached EXCEPT ![s] = {}]
  PROVE  /\ state' \in [Records -> {"absent", "live", "deleted"}]
         /\ attached' \in [Records -> SUBSET Keys]
         /\ \A r \in Records : state'[r] # "live" => attached'[r] = {}
  BY DEF TypeOK

LEMMA TypeStep == TypeOK /\ [Next]_vars => TypeOK'
<1> SUFFICES ASSUME TypeOK, [Next]_vars PROVE TypeOK'
  OBVIOUS
<1> USE DEF TypeOK, Steps, files, tables, request, cleanup
<1>1. CASE UNCHANGED vars
  BY <1>1 DEF vars
<1>2. CASE Arrivals
  <2>1. ASSUME NEW q \in Requests, NEW r \in Records, NewRecord(q, r) PROVE TypeOK'
    <3>1. [kind |-> "create", record |-> r] \in RecordTasks
      BY DEF RecordTasks
    <3> QED BY <2>1, <3>1 DEF NewRecord, Take
  <2>2. ASSUME NEW q \in Requests, NEW r \in Records, NewReceipts(q, r) PROVE TypeOK'
    <3>1. [kind |-> "attach", record |-> r] \in RecordTasks
      BY DEF RecordTasks
    <3> QED BY <2>2, <3>1 DEF NewReceipts, Take
  <2>3. ASSUME NEW q \in Requests, NEW r \in Records, ReadRecordKeys(q, r) PROVE TypeOK'
    <3>1. [kind |-> "delete", record |-> r] \in RecordTasks
      BY DEF RecordTasks
    <3> QED BY <2>3, <3>1 DEF ReadRecordKeys, Take
  <2>4. ASSUME NEW q \in Requests, NEW r \in Records, NEW f \in Keys, DeleteAttachment(q, r, f)
        PROVE  TypeOK'
    <3>1. [kind |-> "delete", record |-> r] \in RecordTasks
      BY DEF RecordTasks
    <3> QED BY <2>4, <3>1 DEF DeleteAttachment
  <2>5. ASSUME NEW q \in Requests, NEW v \in Vehicles, EditVehicle(q, v) PROVE TypeOK'
    <3>1. [kind |-> "photo", vehicle |-> v, loaded |-> photo[v]] \in PhotoTasks
      BY DEF PhotoTasks
    <3> QED BY <2>5, <3>1 DEF EditVehicle, Take
  <2> QED BY <1>2, <2>1, <2>2, <2>3, <2>4, <2>5 DEF Arrivals
<1>3. ASSUME NEW q \in Requests, RequestStep(q) PROVE TypeOK'
  <2>1. CASE BeginSave(q)
    <3>1. PICK f \in FreshKeys : /\ temporary' = temporary \cup {f}
                                 /\ writing' = [writing EXCEPT ![q] = f]
      BY <2>1 DEF BeginSave
    <3> QED BY <2>1, <3>1, FreshIsNew DEF BeginSave
  <2>2. CASE FinishSave(q)
    BY <2>2 DEF FinishSave
  <2>3. CASE Commit(q)
    <3>1. ReplacedPhoto(q) \subseteq Keys
      <4>1. CASE task[q].kind = "photo" /\ keys[q] # {}
        <5>1. task[q].vehicle \in Vehicles
          BY <4>1 DEF RecordTasks, PhotoTasks, NoTask
        <5> QED BY <5>1 DEF ReplacedPhoto
      <4>2. CASE ~(task[q].kind = "photo" /\ keys[q] # {})
        BY <4>2 DEF ReplacedPhoto
      <4> QED BY <4>1, <4>2
    <3>2. /\ keys' = [keys EXCEPT ![q] = ReplacedPhoto(q)]
          /\ step' = [step EXCEPT ![q] = "discarding"]
          /\ UNCHANGED <<files, task, writing, cleanup>>
      BY <2>3 DEF Commit
    <3> QED BY <2>3, <3>1, <3>2, WriteRowsType DEF Commit
  <2>4. CASE RefuseReceipts(q)
    BY <2>4 DEF RefuseReceipts
  <2>5. CASE RemoveRecord(q)
    <3>1. /\ state' = [state EXCEPT ![task[q].record] = "deleted"]
          /\ attached' = [attached EXCEPT ![task[q].record] = {}]
      BY <2>5 DEF RemoveRecord
    <3> QED BY <2>5, <3>1, RemovedRowsType DEF RemoveRecord
  <2>6. CASE Discard(q)
    BY <2>6 DEF Discard
  <2>7. CASE Done(q)
    BY <2>7 DEF Done, Forget
  <2> QED BY <1>3, <2>1, <2>2, <2>3, <2>4, <2>5, <2>6, <2>7 DEF RequestStep
<1>4. ASSUME NEW q \in Requests, SaveFails(q) PROVE TypeOK'
  BY <1>4 DEF SaveFails
<1>5. ASSUME NEW q \in Requests, RejectForm(q) PROVE TypeOK'
  BY <1>5 DEF RejectForm
<1>6. ASSUME NEW f \in Keys, FileAges(f) PROVE TypeOK'
  BY <1>6 DEF FileAges
<1>7. CASE CleanupStep
  BY <1>7 DEF CleanupStep, StartCleanup, BeyondCutoff, ListReferenced, Referenced, PruneFile, EndCleanup
<1>8. CASE Fault
  <2>1. ASSUME NEW q \in Requests, CommitFails(q) PROVE TypeOK'
    <3>1. keys' \in [Requests -> SUBSET Keys] /\ step' \in [Requests -> Steps]
      BY <2>1 DEF CommitFails, KeepUploads
    <3>2. UNCHANGED <<files, task, writing, cleanup>> /\ (UNCHANGED tables \/ WriteRows(q))
      BY <2>1 DEF CommitFails
    <3> QED BY <3>1, <3>2, WriteRowsType
  <2>2. ASSUME NEW q \in Requests, RemoveFails(q) PROVE TypeOK'
    <3>1. CASE UNCHANGED tables
      BY <2>2, <3>1 DEF RemoveFails, Forget
    <3>2. CASE /\ state' = [state EXCEPT ![task[q].record] = "deleted"]
               /\ attached' = [attached EXCEPT ![task[q].record] = {}]
               /\ UNCHANGED photo
      BY <2>2, <3>2, RemovedRowsType DEF RemoveFails, Forget
    <3> QED BY <2>2, <3>1, <3>2 DEF RemoveFails
  <2>3. ASSUME NEW q \in Requests, DiscardFails(q) \/ Crash(q) PROVE TypeOK'
    BY <2>3 DEF DiscardFails, Crash, Forget
  <2>4. ASSUME NEW f \in Keys, PruneFails(f) PROVE TypeOK'
    BY <2>4 DEF PruneFails
  <2>5. CASE CleanupStops
    BY <2>5 DEF CleanupStops
  <2> QED BY <1>8, <2>1, <2>2, <2>3, <2>4, <2>5 DEF Fault
<1> QED BY <1>1, <1>2, <1>3, <1>4, <1>5, <1>6, <1>7, <1>8 DEF Next, Normal

LEMMA InitTyped == Init => TypeOK
  BY DEF Init, TypeOK, Steps

(* Every reachable state has the shape the tables, files and requests are   *)
(* declared with, and only files that exist grow old.                       *)
THEOREM AssetTypeCorrect == Spec => []TypeOK
  BY InitTyped, TypeStep, PTL DEF Spec

-----------------------------------------------------------------------------
(* The inductive step.  First what the rows of a transaction do to the keys *)
(* in use: they are those of before and the request's own uploads, and the  *)
(* photo it replaced is in use no more.                                     *)

LEMMA SameRows == UNCHANGED tables => Referenced' = Referenced /\ (KeysNotShared => KeysNotShared')
  BY DEF tables, Referenced, KeysNotShared

LEMMA WrittenRows ==
  ASSUME TypeOK, KeysNotShared, NEW q \in Requests, keys[q] \cap Referenced = {}, WriteRows(q)
  PROVE  /\ Referenced' \subseteq Referenced \cup keys[q]
         /\ KeysNotShared'
         /\ ReplacedPhoto(q) \subseteq Referenced \ Referenced'
         /\ \A r \in Records : attached'[r] \subseteq attached[r] \cup keys[q]
         /\ \A v \in Vehicles : photo'[v] = photo[v] \/ photo'[v] \in keys[q]
<1>0. \A f \in keys[q] : f # NoKey /\ (\A r \in Records : f \notin attached[r])
                                   /\ (\A v \in Vehicles : f # photo[v])
  <2> SUFFICES ASSUME NEW f \in keys[q]
               PROVE  f # NoKey /\ (\A r \in Records : f \notin attached[r])
                                /\ (\A v \in Vehicles : f # photo[v])
    OBVIOUS
  <2>1. f \in Keys /\ f # NoKey /\ f \notin Referenced
    BY DEF TypeOK
  <2> QED BY <2>1, InReferenced
<1>1. CASE task[q].kind \in {"create", "attach"}
  <2>0. task[q].record \in Records
    BY <1>1 DEF TypeOK, RecordTasks, PhotoTasks, NoTask
  <2>1. /\ photo' = photo
        /\ \A r \in Records : attached'[r] \subseteq attached[r] \cup keys[q]
        /\ \A r \in Records \ {task[q].record} : attached'[r] = attached[r]
    BY <1>1, <2>0 DEF WriteRows, TypeOK
  <2>2. KeysNotShared'
    BY <1>0, <2>1 DEF KeysNotShared
  <2>3. Referenced' \subseteq Referenced \cup keys[q]
    <3> SUFFICES ASSUME NEW f \in Referenced', f \notin keys[q] PROVE f \in Referenced
      OBVIOUS
    <3>1. \/ \E r \in Records : f \in attached'[r]
          \/ f # NoKey /\ \E v \in Vehicles : f = photo'[v]
      BY DEF Referenced
    <3> QED BY <2>1, <3>1, InReferenced
  <2>4. ReplacedPhoto(q) = {}
    BY <1>1 DEF ReplacedPhoto
  <2> QED BY <2>1, <2>2, <2>3, <2>4
<1>2. CASE task[q].kind = "photo"
  <2> DEFINE u == task[q].vehicle
  <2>0. u \in Vehicles
    BY <1>2 DEF TypeOK, RecordTasks, PhotoTasks, NoTask
  <2>1. PICK g \in NewPhoto(q) : photo' = [photo EXCEPT ![u] = g] /\ attached' = attached
    BY <1>2 DEF WriteRows
  <2>2. IF keys[q] = {} THEN g = photo[u] ELSE g \in keys[q]
    BY DEF NewPhoto
  <2>3. \A v \in Vehicles : photo'[v] = IF v = u THEN g ELSE photo[v]
    BY <2>0, <2>1 DEF TypeOK
  <2>4. KeysNotShared'
    BY <1>0, <2>0, <2>1, <2>2, <2>3 DEF KeysNotShared
  <2>5. Referenced' \subseteq Referenced \cup keys[q]
    <3> SUFFICES ASSUME NEW f \in Referenced', f \notin keys[q] PROVE f \in Referenced
      OBVIOUS
    <3>1. \/ \E r \in Records : f \in attached[r]
          \/ f # NoKey /\ \E v \in Vehicles : f = photo'[v]
      BY <2>1 DEF Referenced
    <3> QED BY <2>0, <2>2, <2>3, <3>1, InReferenced
  <2>6. ReplacedPhoto(q) \subseteq Referenced \ Referenced'
    <3> SUFFICES ASSUME keys[q] # {}, photo[u] # NoKey
                 PROVE  photo[u] \in Referenced /\ photo[u] \notin Referenced'
      BY <1>2 DEF ReplacedPhoto
    <3>1. photo[u] \in Referenced
      BY <2>0, InReferenced
    <3>2. /\ \A r \in Records : photo[u] \notin attached'[r]
          /\ \A v \in Vehicles : photo[u] # photo'[v]
      BY <1>0, <2>0, <2>1, <2>2, <2>3 DEF KeysNotShared
    <3>3. photo[u] \notin Referenced'
      BY <3>2 DEF Referenced
    <3> QED BY <3>1, <3>3
  <2> QED BY <2>1, <2>2, <2>3, <2>4, <2>5, <2>6
<1> QED BY <1>1, <1>2 DEF WriteRows

LEMMA AssetStep ==
  ASSUME TypeOK, TypeOK', AssetInv, [Next]_vars
  PROVE  AssetInv'
<1> USE DEF AssetInv, IdleHoldsNothing, NoDanglingKey, DiscardsAreOrphans, UploadsPrivate, Uploading,
            WritingPrivate, DeletesOwnKeys, ScanSeesRows, TypeOK, files, request, cleanup
<1>1. CASE UNCHANGED vars
  BY <1>1, SameRows DEF vars, tables
<1>2. CASE Arrivals
  <2>1. ASSUME NEW q \in Requests, NEW r \in Records, NewRecord(q, r) \/ NewReceipts(q, r)
        PROVE  AssetInv'
    <3>1. Referenced' = Referenced /\ KeysNotShared'
      BY <2>1, SameRows DEF NewRecord, NewReceipts, Take
    <3>2. keys[q] = {}
      BY <2>1 DEF NewRecord, NewReceipts, Take
    <3> QED BY <2>1, <3>1, <3>2 DEF NewRecord, NewReceipts, Take, tables
  <2>2. ASSUME NEW q \in Requests, NEW v \in Vehicles, EditVehicle(q, v) PROVE AssetInv'
    <3>1. Referenced' = Referenced /\ KeysNotShared'
      BY <2>2, SameRows DEF EditVehicle, Take
    <3>2. keys[q] = {}
      BY <2>2 DEF EditVehicle, Take
    <3> QED BY <2>2, <3>1, <3>2 DEF EditVehicle, Take, tables
  <2>3. ASSUME NEW q \in Requests, NEW r \in Records, ReadRecordKeys(q, r) PROVE AssetInv'
    <3>1. Referenced' = Referenced /\ KeysNotShared'
      BY <2>3, SameRows DEF ReadRecordKeys, Take
    <3>2. attached[r] \subseteq Referenced
      BY InReferenced
    <3>3. /\ \A s \in Records \ {r} : attached[r] \cap attached[s] = {}
          /\ \A v \in Vehicles : photo[v] \notin attached[r]
      BY DEF KeysNotShared
    <3> QED BY <2>3, <3>1, <3>2, <3>3 DEF ReadRecordKeys, Take, tables
  <2>4. ASSUME NEW q \in Requests, NEW r \in Records, NEW f \in Keys, DeleteAttachment(q, r, f)
        PROVE  AssetInv'
    <3>1. /\ f \in attached[r] /\ attached' = [attached EXCEPT ![r] = @ \ {f}]
          /\ UNCHANGED <<files, state, photo, writing, cleanup>>
          /\ step' = [step EXCEPT ![q] = "discarding"] /\ keys' = [keys EXCEPT ![q] = {f}]
          /\ task' = [task EXCEPT ![q] = [kind |-> "delete", record |-> r]]
          /\ step[q] = "idle"
      BY <2>4 DEF DeleteAttachment
    <3>2. KeysNotShared'
      BY <3>1 DEF KeysNotShared
    <3>3. f \in Referenced /\ Referenced' \subseteq Referenced
      BY <3>1 DEF Referenced
    <3>4. f \notin Referenced'
      BY <3>1 DEF Referenced, KeysNotShared
    <3> QED BY <3>1, <3>2, <3>3, <3>4
  <2> QED BY <1>2, <2>1, <2>2, <2>3, <2>4 DEF Arrivals
<1>3. ASSUME NEW q \in Requests, RequestStep(q) PROVE AssetInv'
  <2>1. CASE BeginSave(q)
    <3>1. Referenced' = Referenced /\ KeysNotShared'
      BY <2>1, SameRows DEF BeginSave
    <3>2. PICK f \in FreshKeys : /\ temporary' = temporary \cup {f}
                                 /\ writing' = [writing EXCEPT ![q] = f]
      BY <2>1 DEF BeginSave
    <3> QED BY <2>1, <3>1, <3>2, FreshIsNew DEF BeginSave, tables
  <2>2. CASE FinishSave(q)
    <3>1. Referenced' = Referenced /\ KeysNotShared'
      BY <2>2, SameRows DEF FinishSave
    <3> QED BY <2>2, <3>1 DEF FinishSave, tables
  <2>3. CASE Commit(q)
    <3>1. /\ step[q] = "uploading" /\ WriteRows(q)
          /\ keys' = [keys EXCEPT ![q] = ReplacedPhoto(q)]
          /\ step' = [step EXCEPT ![q] = "discarding"]
          /\ UNCHANGED <<files, task, writing, cleanup>>
      BY <2>3 DEF Commit
    <3>2. keys[q] \cap Referenced = {} /\ keys[q] \subseteq objects
      BY <3>1
    <3>3. /\ Referenced' \subseteq Referenced \cup keys[q]
          /\ KeysNotShared'
          /\ ReplacedPhoto(q) \subseteq Referenced \ Referenced'
          /\ \A r \in Records : attached'[r] \subseteq attached[r] \cup keys[q]
          /\ \A v \in Vehicles : photo'[v] = photo[v] \/ photo'[v] \in keys[q]
      BY <3>1, <3>2, WrittenRows
    <3> QED BY <3>1, <3>2, <3>3
  <2>4. CASE RefuseReceipts(q)
    <3>1. Referenced' = Referenced /\ KeysNotShared'
      BY <2>4, SameRows DEF RefuseReceipts
    <3> QED BY <2>4, <3>1 DEF RefuseReceipts, tables
  <2>5. CASE RemoveRecord(q)
    <3> DEFINE r == task[q].record
    <3>1. /\ step[q] = "deleting" /\ attached' = [attached EXCEPT ![r] = {}]
          /\ keys' = [keys EXCEPT ![q] = IF state[r] = "live" THEN keys[q] ELSE {}]
          /\ step' = [step EXCEPT ![q] = "discarding"]
          /\ UNCHANGED <<files, photo, task, writing, cleanup>>
      BY <2>5 DEF RemoveRecord
    <3>2. \A s \in Records : attached'[s] = IF s = r THEN {} ELSE attached[s]
      BY <3>1
    <3>3. Referenced' \subseteq Referenced /\ keys[q] \cap Referenced' = {}
      BY <3>1, <3>2 DEF Referenced
    <3>4. KeysNotShared'
      BY <3>1, <3>2 DEF KeysNotShared
    <3> QED BY <3>1, <3>2, <3>3, <3>4
  <2>6. CASE Discard(q)
    <3>1. Referenced' = Referenced /\ KeysNotShared'
      BY <2>6, SameRows DEF Discard
    <3> QED BY <2>6, <3>1 DEF Discard, tables
  <2>7. CASE Done(q)
    <3>1. Referenced' = Referenced /\ KeysNotShared'
      BY <2>7, SameRows DEF Done
    <3> QED BY <2>7, <3>1 DEF Done, Forget, tables
  <2> QED BY <1>3, <2>1, <2>2, <2>3, <2>4, <2>5, <2>6, <2>7 DEF RequestStep
<1>4. ASSUME NEW q \in Requests, SaveFails(q) \/ RejectForm(q) PROVE AssetInv'
  <2>1. Referenced' = Referenced /\ KeysNotShared'
    BY <1>4, SameRows DEF SaveFails, RejectForm
  <2> QED BY <1>4, <2>1 DEF SaveFails, RejectForm, tables
<1>6. ASSUME NEW f \in Keys, FileAges(f) PROVE AssetInv'
  <2>1. Referenced' = Referenced /\ KeysNotShared'
    BY <1>6, SameRows DEF FileAges
  <2> QED BY <1>6, <2>1 DEF FileAges, Held, tables
<1>7. CASE CleanupStep
  <2>1. Referenced' = Referenced /\ KeysNotShared'
    BY <1>7, SameRows DEF CleanupStep, StartCleanup, ListReferenced, PruneFile, EndCleanup
  <2>2. CASE StartCleanup
    BY <2>1, <2>2 DEF StartCleanup, BeyondCutoff, tables
  <2>3. CASE ListReferenced
    BY <2>1, <2>3 DEF ListReferenced, tables
  <2>4. ASSUME NEW f \in Keys, PruneFile(f) PROVE AssetInv'
    <3>1. f \in scanned /\ scanned' = scanned \ {f}
          /\ UNCHANGED <<tables, request, pruning, referenced>> /\ pruning = "walking"
      BY <2>4 DEF PruneFile
    <3>2. CASE f \in Referenced
      BY <2>1, <2>4, <3>1, <3>2 DEF PruneFile, tables
    <3>3. CASE f \notin Referenced
      BY <2>1, <2>4, <3>1, <3>3 DEF PruneFile, tables
    <3> QED BY <3>2, <3>3
  <2>5. CASE EndCleanup
    BY <2>1, <2>5 DEF EndCleanup, tables
  <2> QED BY <1>7, <2>2, <2>3, <2>4, <2>5 DEF CleanupStep
<1>8. CASE Fault
  <2>1. ASSUME NEW q \in Requests, CommitFails(q) PROVE AssetInv'
    <3>1. /\ step[q] = "uploading" /\ (UNCHANGED tables \/ WriteRows(q))
          /\ keys' = [keys EXCEPT ![q] = {}]
          /\ step' = [step EXCEPT ![q] = "discarding"]
          /\ UNCHANGED <<files, task, writing, cleanup>>
      BY <2>1 DEF CommitFails, KeepUploads
    <3>2. keys[q] \cap Referenced = {} /\ keys[q] \subseteq objects
      BY <3>1
    <3>3. /\ Referenced' \subseteq Referenced \cup keys[q]
          /\ KeysNotShared'
          /\ \A r \in Records : attached'[r] \subseteq attached[r] \cup keys[q]
          /\ \A v \in Vehicles : photo'[v] = photo[v] \/ photo'[v] \in keys[q]
      BY <3>1, <3>2, WrittenRows, SameRows DEF tables
    <3> QED BY <3>1, <3>2, <3>3
  <2>2. ASSUME NEW q \in Requests, RemoveFails(q) PROVE AssetInv'
    <3>1. /\ photo' = photo
          /\ \A r \in Records : attached'[r] \subseteq attached[r]
      BY <2>2 DEF RemoveFails, tables
    <3>2. Referenced' \subseteq Referenced
      BY <3>1 DEF Referenced
    <3>3. KeysNotShared'
      BY <3>1 DEF KeysNotShared
    <3> QED BY <2>2, <3>1, <3>2, <3>3 DEF RemoveFails, Forget
  <2>3. ASSUME NEW q \in Requests, DiscardFails(q) \/ Crash(q) PROVE AssetInv'
    <3>1. Referenced' = Referenced /\ KeysNotShared'
      BY <2>3, SameRows DEF DiscardFails, Crash
    <3> QED BY <2>3, <3>1 DEF DiscardFails, Crash, Forget, tables
  <2>4. ASSUME NEW f \in Keys, PruneFails(f) PROVE AssetInv'
    <3>1. Referenced' = Referenced /\ KeysNotShared'
      BY <2>4, SameRows DEF PruneFails
    <3> QED BY <2>4, <3>1 DEF PruneFails, tables
  <2>5. CASE CleanupStops
    <3>1. Referenced' = Referenced /\ KeysNotShared'
      BY <2>5, SameRows DEF CleanupStops
    <3> QED BY <2>5, <3>1 DEF CleanupStops, tables
  <2> QED BY <1>8, <2>1, <2>2, <2>3, <2>4, <2>5 DEF Fault
<1> QED BY <1>1, <1>2, <1>3, <1>4, <1>6, <1>7, <1>8 DEF Next, Normal

THEOREM AssetInvariant == Spec => [](TypeOK /\ AssetInv)
<1>1. Init => AssetInv
  BY DEF Init, AssetInv, IdleHoldsNothing, NoDanglingKey, DiscardsAreOrphans, KeysNotShared, UploadsPrivate,
         Uploading, WritingPrivate, DeletesOwnKeys, ScanSeesRows, Referenced
<1>2. TypeOK /\ AssetInv /\ [Next]_vars => TypeOK' /\ AssetInv'
  BY TypeStep, AssetStep
<1> QED BY <1>1, <1>2, InitTyped, PTL DEF Spec

(* No receipt or photo a row refers to is ever deleted: not by a handler    *)
(* that fails or loses the answer to its commit, not by one that deletes or *)
(* replaces beside another, and not by the cleanup, however long it walks.  *)
THEOREM NoFileLost == Spec => []NoDanglingKey
  BY AssetInvariant, PTL DEF AssetInv

(* Every key a handler is about to delete is out of use by then. *)
THEOREM OnlyOrphansDiscarded == Spec => []DiscardsAreOrphans
  BY AssetInvariant, PTL DEF AssetInv
=============================================================================

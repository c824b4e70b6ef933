----------------------------- MODULE AssetStore -----------------------------
(***************************************************************************)
(* Receipts and vehicle photos: files under the asset root that rows of    *)
(* attachments and vehicles refer to, kept in step without a transaction   *)
(* over both.  internal/assets/store.go and pruner.go, the upload and      *)
(* delete handlers of internal/server (records.go, attachments.go,         *)
(* vehicles.go), the transactions behind them, and the weekly cleanup of   *)
(* internal/assetcleanup/runner.go.                                        *)
(*                                                                         *)
(* A handler saves its files before its transaction and removes files      *)
(* after it; it can fail, lose the answer to its COMMIT or die anywhere    *)
(* between.  The cleanup removes old files no row refers to, reading the   *)
(* rows first and the directories afterwards.  Its advisory lock is left   *)
(* out: one cleanup is modelled, beside any number of requests.            *)
(***************************************************************************)
EXTENDS Naturals, FiniteSets

CONSTANTS
  Requests,     \* HTTP requests in flight, on any replica
  Records, Vehicles,
  Keys,         \* storage keys: a uuid names a temporary file and its object
  MaxFiles,     \* receipts in one multipart form
  NoKey         \* photo_key = '', or no file being written

ASSUME AssetConstants == MaxFiles \in Nat /\ NoKey \notin Keys

VARIABLES
  objects,      \* files under objects/
  temporary,    \* files under temporary/
  old,          \* files older than the cleanup's grace period
  state,        \* records: "absent", "live" or "deleted"
  attached,     \* attachments.storage_key of each record
  photo,        \* vehicles.photo_key
  step,         \* where each request is
  task,         \* what it is doing, and to which row
  writing,      \* the file assets.Save is writing for it
  keys,         \* the keys it has saved, or has still to delete
  pruning,      \* where the cleanup is: "idle", "listing" or "walking"
  scanned,      \* the files its cutoff reaches that it has not seen yet
  referenced    \* the keys it has read from the database

files   == <<objects, temporary, old>>
tables  == <<state, attached, photo>>
request == <<step, task, writing, keys>>
cleanup == <<pruning, scanned, referenced>>
vars    == <<files, tables, request, cleanup>>

Steps == {"idle", "uploading", "writing", "deleting", "discarding"}

(* An edit form loads the vehicle with the photo it has then. *)
RecordTasks == [kind : {"create", "attach", "delete"}, record : Records]
PhotoTasks  == [kind : {"photo"}, vehicle : Vehicles, loaded : Keys \cup {NoKey}]
NoTask      == [kind |-> "none"]

Init ==
  /\ objects = {} /\ temporary = {} /\ old = {}
  /\ state = [r \in Records |-> "absent"]
  /\ attached = [r \in Records |-> {}]
  /\ photo = [v \in Vehicles |-> NoKey]
  /\ step = [q \in Requests |-> "idle"]
  /\ task = [q \in Requests |-> NoTask]
  /\ writing = [q \in Requests |-> NoKey]
  /\ keys = [q \in Requests |-> {}]
  /\ pruning = "idle" /\ scanned = {} /\ referenced = {}

(* What ListReferencedAssetKeys reads. *)
Referenced ==
  (UNION {attached[r] : r \in Records}) \cup ({photo[v] : v \in Vehicles} \ {NoKey})

(* A new uuid is one nothing remembers. *)
FreshKeys ==
  Keys \ (objects \cup temporary \cup Referenced \cup scanned \cup referenced
          \cup UNION {keys[q] \cup {writing[q]} : q \in Requests}
          \cup {task[q].loaded : q \in {p \in Requests : task[p].kind = "photo"}})

-----------------------------------------------------------------------------
(* One request, step by step.                                               *)

Forget(q) ==
  /\ step' = [step EXCEPT ![q] = "idle"]
  /\ task' = [task EXCEPT ![q] = NoTask]
  /\ writing' = [writing EXCEPT ![q] = NoKey]
  /\ keys' = [keys EXCEPT ![q] = {}]

Take(q, t, place) ==
  /\ step[q] = "idle"
  /\ step' = [step EXCEPT ![q] = place]
  /\ task' = [task EXCEPT ![q] = t]
  /\ UNCHANGED <<files, tables, writing, cleanup>>

(* createRecord: the record's uuid is new. *)
NewRecord(q, r) ==
  /\ state[r] = "absent"
  /\ \A p \in Requests : task[p].kind = "create" => task[p].record # r
  /\ Take(q, [kind |-> "create", record |-> r], "uploading")
  /\ UNCHANGED keys

(* addAttachments *)
NewReceipts(q, r) ==
  /\ state[r] = "live"
  /\ Take(q, [kind |-> "attach", record |-> r], "uploading")
  /\ UNCHANGED keys

(* createVehicle and updateVehicle: a vehicle that does not exist yet has   *)
(* no photo.                                                                *)
EditVehicle(q, v) ==
  /\ Take(q, [kind |-> "photo", vehicle |-> v, loaded |-> photo[v]], "uploading")
  /\ UNCHANGED keys

MayUpload(q) ==
  Cardinality(keys[q]) < IF task[q].kind = "photo" THEN 1 ELSE MaxFiles

(* Save writes a file under temporary/, and moves it when it is complete. *)
BeginSave(q) ==
  /\ step[q] = "uploading"
  /\ MayUpload(q)
  /\ \E f \in FreshKeys :
       /\ temporary' = temporary \cup {f}
       /\ writing' = [writing EXCEPT ![q] = f]
  /\ step' = [step EXCEPT ![q] = "writing"]
  /\ UNCHANGED <<objects, old, tables, task, keys, cleanup>>

FinishSave(q) ==
  /\ step[q] = "writing"
  /\ writing[q] \in temporary
  /\ temporary' = temporary \ {writing[q]}
  /\ objects' = objects \cup {writing[q]}
  /\ keys' = [keys EXCEPT ![q] = @ \cup {writing[q]}]
  /\ writing' = [writing EXCEPT ![q] = NoKey]
  /\ step' = [step EXCEPT ![q] = "uploading"]
  /\ UNCHANGED <<old, tables, task, cleanup>>

(* The file is too large or cannot be written: Save removes it and the      *)
(* handler discards what it saved before.                                   *)
SaveFails(q) ==
  /\ step[q] = "writing"
  /\ temporary' = temporary \ {writing[q]}
  /\ old' = old \ {writing[q]}
  /\ writing' = [writing EXCEPT ![q] = NoKey]
  /\ step' = [step EXCEPT ![q] = "discarding"]
  /\ UNCHANGED <<objects, tables, task, keys, cleanup>>

(* savePhoto stores the photo of an invalid form and deletes it again. *)
RejectForm(q) ==
  /\ step[q] = "uploading"
  /\ task[q].kind = "photo"
  /\ keys[q] # {}
  /\ step' = [step EXCEPT ![q] = "discarding"]
  /\ UNCHANGED <<files, tables, task, writing, keys, cleanup>>

MutLoadedPhoto(q) == IF keys[q] = {} THEN {task[q].loaded} ELSE keys[q]

(* COALESCE(NULLIF(photo_key,''),...): an edit without an upload keeps the  *)
(* photo that is stored now.                                                *)
NewPhoto(q) == IF keys[q] = {} THEN {photo[task[q].vehicle]} ELSE keys[q]

(* The rows of a request's transaction; its foreign key needs the record.   *)
WriteRows(q) ==
  \/ /\ task[q].kind = "create"
     /\ state' = [state EXCEPT ![task[q].record] = "live"]
     /\ attached' = [attached EXCEPT ![task[q].record] = keys[q]]
     /\ UNCHANGED photo
  \/ /\ task[q].kind = "attach"
     /\ keys[q] # {}
     /\ state[task[q].record] = "live"
     /\ attached' = [attached EXCEPT ![task[q].record] = @ \cup keys[q]]
     /\ UNCHANGED <<state, photo>>
  \/ /\ task[q].kind = "photo"
     /\ \E f \in NewPhoto(q) : photo' = [photo EXCEPT ![task[q].vehicle] = f]
     /\ UNCHANGED <<state, attached>>

(* UpdateVehicle locks the row and returns the key this write replaced. *)
ReplacedPhoto(q) ==
  IF task[q].kind = "photo" /\ keys[q] # {} THEN {photo[task[q].vehicle]} \ {NoKey} ELSE {}

Commit(q) ==
  /\ step[q] = "uploading"
  /\ WriteRows(q)
  /\ keys' = [keys EXCEPT ![q] = ReplacedPhoto(q)]
  /\ step' = [step EXCEPT ![q] = "discarding"]
  /\ UNCHANGED <<files, task, writing, cleanup>>

(* The form has no receipts, or their record is gone: addAttachments        *)
(* answers with an error and keeps what it saved.                           *)
RefuseReceipts(q) ==
  /\ step[q] = "uploading"
  /\ task[q].kind = "attach"
  /\ keys[q] = {} \/ state[task[q].record] # "live"
  /\ keys' = [keys EXCEPT ![q] = {}]
  /\ step' = [step EXCEPT ![q] = "discarding"]
  /\ UNCHANGED <<files, tables, task, writing, cleanup>>

(* deleteAttachment: the row is deleted and its key returned in one         *)
(* statement.                                                               *)
DeleteAttachment(q, r, f) ==
  /\ step[q] = "idle"
  /\ f \in attached[r]
  /\ attached' = [attached EXCEPT ![r] = @ \ {f}]
  /\ step' = [step EXCEPT ![q] = "discarding"]
  /\ task' = [task EXCEPT ![q] = [kind |-> "delete", record |-> r]]
  /\ keys' = [keys EXCEPT ![q] = {f}]
  /\ UNCHANGED <<files, state, photo, writing, cleanup>>

(* deleteRecord: DeleteRecord reads the record's keys ...                   *)
ReadRecordKeys(q, r) ==
  /\ state[r] = "live"
  /\ Take(q, [kind |-> "delete", record |-> r], "deleting")
  /\ keys' = [keys EXCEPT ![q] = attached[r]]

(* ... and deletes the row and, by cascade, the attachments it has by then. *)
(* A record that is gone already leaves the request without keys.           *)
RemoveRecord(q) ==
  LET r == task[q].record IN
  /\ step[q] = "deleting"
  /\ state' = [state EXCEPT ![r] = "deleted"]
  /\ attached' = [attached EXCEPT ![r] = {}]
  /\ keys' = [keys EXCEPT ![q] = IF state[r] = "live" THEN @ ELSE {}]
  /\ step' = [step EXCEPT ![q] = "discarding"]
  /\ UNCHANGED <<files, photo, task, writing, cleanup>>

(* assets.Delete; a file that is gone already is no error. *)
Discard(q) ==
  /\ step[q] = "discarding"
  /\ \E f \in keys[q] :
       /\ objects' = objects \ {f}
       /\ old' = old \ {f}
       /\ keys' = [keys EXCEPT ![q] = @ \ {f}]
  /\ UNCHANGED <<temporary, tables, step, task, writing, cleanup>>

Done(q) ==
  /\ step[q] = "discarding"
  /\ keys[q] = {}
  /\ Forget(q)
  /\ UNCHANGED <<files, tables, cleanup>>

RequestStep(q) ==
  \/ BeginSave(q) \/ FinishSave(q) \/ Commit(q) \/ RefuseReceipts(q)
  \/ RemoveRecord(q) \/ Discard(q) \/ Done(q)

-----------------------------------------------------------------------------
(* What goes wrong with a request.                                          *)

MutCleanUpAfterError(q) == keys' = keys

(* deferUploadCleanup and deferPhotoCleanup: after a failed write the files *)
(* stay, because it may have committed all the same.                        *)
KeepUploads(q) == keys' = [keys EXCEPT ![q] = {}]

(* The transaction fails; or it commits and only its answer is lost.        *)
CommitFails(q) ==
  /\ step[q] = "uploading"
  /\ \/ UNCHANGED tables
     \/ WriteRows(q)
  /\ KeepUploads(q)
  /\ step' = [step EXCEPT ![q] = "discarding"]
  /\ UNCHANGED <<files, task, writing, cleanup>>

RemoveFails(q) ==
  LET r == task[q].record IN
  /\ step[q] = "deleting"
  /\ \/ UNCHANGED tables
     \/ /\ state' = [state EXCEPT ![r] = "deleted"]
        /\ attached' = [attached EXCEPT ![r] = {}]
        /\ UNCHANGED photo
  /\ Forget(q)
  /\ UNCHANGED <<files, cleanup>>

(* The file cannot be deleted now; nobody tries again but the cleanup.      *)
DiscardFails(q) ==
  /\ step[q] = "discarding"
  /\ \E f \in keys[q] : keys' = [keys EXCEPT ![q] = @ \ {f}]
  /\ UNCHANGED <<files, tables, step, task, writing, cleanup>>

Crash(q) ==
  /\ step[q] # "idle"
  /\ Forget(q)
  /\ UNCHANGED <<files, tables, cleanup>>

-----------------------------------------------------------------------------
(* Time.  A request lives for minutes and the grace period is 48 hours: no  *)
(* file grows old while the request that saved it still runs.               *)

Held(f) == \E q \in Requests : f \in keys[q] \/ f = writing[q]

FileAges(f) ==
  /\ f \in (objects \cup temporary) \ old
  /\ ~Held(f)
  /\ old' = old \cup {f}
  /\ UNCHANGED <<objects, temporary, tables, request, cleanup>>

-----------------------------------------------------------------------------
(* The weekly cleanup.                                                      *)

MutNoGracePeriod == objects \cup temporary

MutObjectsOnly == old \cap objects

(* The cutoff is fixed when the run starts, before it reads the rows. *)
BeyondCutoff == old

StartCleanup ==
  /\ pruning = "idle"
  /\ scanned' = BeyondCutoff
  /\ pruning' = "listing"
  /\ UNCHANGED <<files, tables, request, referenced>>

ListReferenced ==
  /\ pruning = "listing"
  /\ referenced' = Referenced
  /\ pruning' = "walking"
  /\ UNCHANGED <<files, tables, request, scanned>>

(* Prune meets the next file: it removes it unless a row referred to it. *)
PruneFile(f) ==
  /\ pruning = "walking"
  /\ f \in scanned
  /\ scanned' = scanned \ {f}
  /\ IF f \in objects /\ f \in referenced
     THEN UNCHANGED files
     ELSE /\ objects' = objects \ {f}
          /\ temporary' = temporary \ {f}
          /\ old' = old \ {f}
  /\ UNCHANGED <<tables, request, pruning, referenced>>

EndCleanup ==
  /\ pruning = "walking"
  /\ scanned = {}
  /\ pruning' = "idle"
  /\ referenced' = {}
  /\ UNCHANGED <<files, tables, request, scanned>>

CleanupStep == StartCleanup \/ ListReferenced \/ (\E f \in Keys : PruneFile(f)) \/ EndCleanup

(* A file that cannot be removed is reported and the walk goes on. *)
PruneFails(f) ==
  /\ pruning = "walking"
  /\ f \in scanned
  /\ scanned' = scanned \ {f}
  /\ UNCHANGED <<files, tables, request, pruning, referenced>>

(* The rows cannot be read, the run is cancelled, or its process dies. *)
CleanupStops ==
  /\ pruning # "idle"
  /\ pruning' = "idle"
  /\ scanned' = {}
  /\ referenced' = {}
  /\ UNCHANGED <<files, tables, request>>

Fault ==
  \/ \E q \in Requests : CommitFails(q) \/ RemoveFails(q) \/ DiscardFails(q) \/ Crash(q)
  \/ \E f \in Keys : PruneFails(f)
  \/ CleanupStops

Arrivals ==
  \E q \in Requests :
    \/ \E r \in Records : NewRecord(q, r) \/ NewReceipts(q, r) \/ ReadRecordKeys(q, r)
    \/ \E r \in Records, f \in Keys : DeleteAttachment(q, r, f)
    \/ \E v \in Vehicles : EditVehicle(q, v)

Normal ==
  \/ Arrivals
  \/ \E q \in Requests : RequestStep(q) \/ SaveFails(q) \/ RejectForm(q)
  \/ \E f \in Keys : FileAges(f)
  \/ CleanupStep

Next == Normal \/ Fault

Spec == Init /\ [][Next]_vars

(* Requests end, time passes, the cleanup is started every week and goes on *)
(* to its end, and faults die down.                                         *)
Fairness ==
  /\ \A q \in Requests : WF_vars(RequestStep(q) \/ SaveFails(q))
  /\ \A f \in Keys : WF_vars(FileAges(f)) /\ WF_vars(PruneFile(f))
  /\ WF_vars(StartCleanup) /\ WF_vars(ListReferenced) /\ WF_vars(EndCleanup)
  /\ <>[][Normal]_vars

FairSpec == Spec /\ Fairness

-----------------------------------------------------------------------------
TypeOK ==
  /\ objects \subseteq Keys /\ temporary \subseteq Keys /\ old \subseteq objects \cup temporary
  /\ state \in [Records -> {"absent", "live", "deleted"}]
  /\ attached \in [Records -> SUBSET Keys]
  /\ \A r \in Records : state[r] # "live" => attached[r] = {}
  /\ photo \in [Vehicles -> Keys \cup {NoKey}]
  /\ step \in [Requests -> Steps]
  /\ task \in [Requests -> RecordTasks \cup PhotoTasks \cup {NoTask}]
  /\ writing \in [Requests -> Keys \cup {NoKey}]
  /\ keys \in [Requests -> SUBSET Keys]
  /\ pruning \in {"idle", "listing", "walking"}
  /\ scanned \subseteq Keys /\ referenced \subseteq Keys

(* No receipt or photo is ever lost: a key some row refers to names a file  *)
(* that is there, whatever requests and cleanups overlap and wherever they  *)
(* fail or lose the answer to a commit.                                     *)
NoDanglingKey == Referenced \subseteq objects

(* What is about to be deleted is nobody's: the keys a handler removes      *)
(* after its transaction are referred to by no row, also when another       *)
(* request replaced the same photo or added a receipt to the same record.   *)
DiscardsAreOrphans ==
  \A q \in Requests : step[q] = "discarding" => keys[q] \cap Referenced = {}

(* Each file belongs to one row: a photo is not a receipt, and two records  *)
(* or vehicles never share a key, so deleting one cannot empty the other.   *)
KeysNotShared ==
  /\ \A r, s \in Records : attached[r] \cap attached[s] # {} => r = s
  /\ \A v, w \in Vehicles : photo[v] = photo[w] /\ photo[v] # NoKey => v = w
  /\ \A r \in Records, v \in Vehicles : photo[v] \notin attached[r]

(* Why no key dangles: the inductive invariant behind NoDanglingKey.  What  *)
(* a request is uploading is its own: no row, no other request and no scan  *)
(* knows it, and it is too young to be scanned; the keys read for a record  *)
(* about to be deleted belong to no other row; and of the files the walk    *)
(* has still to meet, those in use were in use when it read the rows.       *)
Uploading(q) == step[q] \in {"uploading", "writing"}

UploadsPrivate ==
  \A q \in Requests : Uploading(q) =>
    /\ keys[q] \subseteq objects \ (Referenced \cup old \cup scanned)
    /\ \A p \in Requests \ {q} : keys[q] \cap keys[p] = {}

WritingPrivate ==
  \A q \in Requests :
    /\ step[q] = "writing" <=> writing[q] # NoKey
    /\ step[q] = "writing" =>
         /\ writing[q] \notin objects \cup Referenced \cup old \cup scanned
         /\ \A p \in Requests : writing[q] \notin keys[p]
         /\ \A p \in Requests \ {q} : writing[p] # writing[q]

DeletesOwnKeys ==
  \A q \in Requests : step[q] = "deleting" =>
    /\ \A r \in Records \ {task[q].record} : keys[q] \cap attached[r] = {}
    /\ \A v \in Vehicles : photo[v] \notin keys[q]

ScanSeesRows == pruning = "walking" => scanned \cap Referenced \subseteq referenced

IdleHoldsNothing == \A q \in Requests : step[q] = "idle" => keys[q] = {}

AssetInv ==
  /\ IdleHoldsNothing
  /\ NoDanglingKey /\ DiscardsAreOrphans /\ KeysNotShared
  /\ UploadsPrivate /\ WritingPrivate /\ DeletesOwnKeys /\ ScanSeesRows

(* Nothing is kept forever: a file no row refers to is removed in the end,  *)
(* by its handler or by the cleanup, unless a row comes to refer to it.     *)
OrphansRemoved ==
  \A f \in Keys :
    (f \in objects \cup temporary /\ f \notin Referenced)
      ~> (f \notin objects \cup temporary \/ f \in Referenced)
=============================================================================

----------------------------- MODULE ImportParse -----------------------------
(***************************************************************************)
(* Importing files into the workspace: ImportParsePipeline drives one      *)
(* batch from the main thread, a worker thread copies each file into the   *)
(* content-addressed store and parses it, and SqlWriteCoordinator commits  *)
(* every outcome in a transaction of its own.                              *)
(*                                                                         *)
(* The import dialog is modal, so one batch runs at a time; the user may   *)
(* cancel it while a worker is out, any step may fail, and the process may *)
(* stop between any two steps, file operations included.  The files of a   *)
(* selection are a set: their order is the order in which they are taken.  *)
(***************************************************************************)
EXTENDS Naturals, Sequences, FiniteSets

CONSTANTS
    Batch,          \* import_batches ids
    Item,           \* import_items ids; each is one selected file
    Content,        \* distinct file contents (SHA-256)
    ContentOf,      \* the content of each file
    Parsable,       \* the items whose suffix some parser supports
    Null,           \* no batch, no item
    Interruption,   \* subset of {"cancel", "fault", "restart"} that may occur
    MaxRestarts     \* bound: number of process restarts

ASSUME ContentAssumption == ContentOf \in [Item -> Content] /\ Parsable \subseteq Item
ASSUME NullAssumption == Null \notin Batch /\ Null \notin Item
ASSUME InterruptionAssumption == Interruption \subseteq {"cancel", "fault", "restart"}
ASSUME BoundAssumption == MaxRestarts \in Nat

VARIABLES
    (* Database: survives a restart. *)
    batchStatus,  \* import_batches.status; its operation runs until it is final
    batchOf,      \* import_items.batch_id, Null for a file never selected
    itemState,    \* import_items.state
    parseStatus,  \* import_items.parse_status
    snapshots,    \* contents with a source_snapshots row
    artifact,     \* parse_artifacts.status of the content's artifact
    attempts,     \* its parse_attempts in attempt_number order; the
                  \* document_parse operation of each shares its transactions
    (* Disk: survives a restart. *)
    stored,       \* contents with a file under sources/sha256
    derived,      \* contents with a parsed_document.json
    (* Memory of the process: lost at a restart. *)
    pc,           \* where the pipeline's callbacks are
    batch,        \* the batch of the import dialog
    active,       \* the item the pipeline works on
    materialized, \* items imported and not yet taken up by the parse loop
    successes, failed, dropped, parseFailed,   \* _PipelineState's lists
    attemptNo,    \* attempt_number of the attempt under way
    verdict,      \* the parse_status about to be recorded for the active item
    worker,       \* worker thread: its step, or the terminal signal it queued
    flagged,      \* its cancellation flag
    handle,       \* ImportParseHandle.status
    cancelled,    \* ImportParseHandle.cancelled
    restarts      \* number of restarts so far (bound only)

rows     == <<batchStatus, batchOf, itemState, parseStatus, snapshots, artifact, attempts>>
files    == <<stored, derived>>
lists    == <<materialized, successes, failed, dropped, parseFailed>>
pipeline == <<pc, batch, active, lists, attemptNo, verdict>>
vars     == <<rows, files, pipeline, worker, flagged, handle, cancelled, restarts>>

(* What every callback leaves alone, and what the user alone changes.       *)
user == <<cancelled, restarts>>

-----------------------------------------------------------------------------
Final    == {"completed", "completed_with_failures", "failed", "cancelled"}
Imported == {"imported", "duplicate_content"}
Reported == {"completed", "failed", "cancelled", "document", "rejected"}

Waiting == pc \in {"importing", "parsing"}
Running == pc \notin {"idle", "stuck"}

Pending  == {i \in Item : batchOf[i] = batch /\ itemState[i] = "pending"}

Init ==
    /\ batchStatus = [b \in Batch |-> "absent"]
    /\ batchOf = [i \in Item |-> Null]
    /\ itemState = [i \in Item |-> "absent"]
    /\ parseStatus = [i \in Item |-> "not_requested"]
    /\ snapshots = {}
    /\ artifact = [k \in Content |-> "absent"]
    /\ attempts = [k \in Content |-> <<>>]
    /\ stored = {} /\ derived = {}
    /\ pc = "idle" /\ batch = Null /\ active = Null
    /\ materialized = {} /\ successes = {} /\ failed = {}
    /\ dropped = {} /\ parseFailed = {}
    /\ attemptNo = 0 /\ verdict = "none"
    /\ worker = "none" /\ flagged = FALSE
    /\ handle = "none" /\ cancelled = FALSE
    /\ restarts = 0

-----------------------------------------------------------------------------
(* The user.                                                                *)

(* start: the import operation, the batch and every item are committed      *)
(* together, before any file is touched.                                    *)
Start(b, selection) ==
    /\ pc = "idle"
    /\ batchStatus[b] = "absent"
    /\ selection # {} /\ \A i \in selection : itemState[i] = "absent"
    /\ batchStatus' = [batchStatus EXCEPT ![b] = "importing"]
    /\ batchOf' = [i \in Item |-> IF i \in selection THEN b ELSE batchOf[i]]
    /\ itemState' = [i \in Item |-> IF i \in selection THEN "pending" ELSE itemState[i]]
    /\ pc' = "nextImport" /\ batch' = b /\ active' = Null
    /\ materialized' = {} /\ successes' = {} /\ failed' = {}
    /\ dropped' = {} /\ parseFailed' = {}
    /\ handle' = "running" /\ cancelled' = FALSE
    /\ UNCHANGED <<parseStatus, snapshots, artifact, attempts, files, attemptNo,
                   verdict, worker, flagged, restarts>>

(* cancel: the handle remembers, and the worker it is bound to is told.     *)
Cancel ==
    /\ "cancel" \in Interruption
    /\ Waiting /\ ~cancelled
    /\ cancelled' = TRUE /\ flagged' = TRUE
    /\ UNCHANGED <<rows, files, pipeline, worker, handle, restarts>>

-----------------------------------------------------------------------------
(* The worker thread: OperationWorker.run.                                  *)

workerOnly == <<rows, derived, pipeline, flagged, handle, user>>

BeginWork ==
    /\ worker = "queued"
    /\ worker' = IF flagged THEN "cancelled" ELSE "working"
    /\ UNCHANGED <<workerOnly, stored>>

(* materialize: a content already in the store is verified and reused, any  *)
(* other one is promoted without replacing.  The flag is read again after   *)
(* it, so a cancelled import may have stored its file.                      *)
Materialize ==
    /\ worker = "working" /\ pc = "importing"
    /\ stored' = stored \cup {ContentOf[active]}
    /\ worker' = IF flagged THEN "cancelled" ELSE "completed"
    /\ UNCHANGED workerOnly

(* parse: the parser returns a document or an error code of its own.        *)
ParseFile ==
    /\ worker = "working" /\ pc = "parsing"
    /\ worker' \in IF flagged THEN {"cancelled"} ELSE {"document", "rejected"}
    /\ UNCHANGED <<workerOnly, stored>>

(* An exception: the source vanished, changed or is unsafe, the disk is     *)
(* full, the parser broke.  It is reported as a failure, cancelled or not.  *)
WorkerFault ==
    /\ "fault" \in Interruption
    /\ worker = "working"
    /\ worker' = "failed"
    /\ stored' \in {stored} \cup IF pc = "importing" THEN {stored \cup {ContentOf[active]}} ELSE {}
    /\ UNCHANGED workerOnly

-----------------------------------------------------------------------------
(* The import loop, on the main thread.                                     *)

(* resolve_authorized accepts the next file and a worker starts on it.      *)
NextImport(i) ==
    /\ pc = "nextImport" /\ ~cancelled
    /\ i \in Pending
    /\ active' = i
    /\ pc' = "importing"
    /\ worker' = "queued" /\ flagged' = FALSE
    /\ UNCHANGED <<rows, files, batch, lists, attemptNo, verdict, handle, user>>

MarkItem(i, state) == itemState' = [itemState EXCEPT ![i] = state]

(* An item is marked failed: its path is refused, its worker failed, or its *)
(* registration was rolled back.                                            *)
ImportFailed(i) ==
    /\ \/ /\ "fault" \in Interruption
          /\ pc = "nextImport" /\ ~cancelled /\ i \in Pending
       \/ /\ pc = "importing" /\ i = active
          /\ worker = "failed" \/ ("fault" \in Interruption /\ worker = "completed" /\ ~cancelled)
    /\ MarkItem(i, "failed")
    /\ failed' = failed \cup {i}
    /\ pc' = "nextImport"
    /\ worker' = "none"
    /\ UNCHANGED <<batchStatus, batchOf, parseStatus, snapshots, artifact, attempts, files,
                   batch, active, materialized, successes, dropped, parseFailed,
                   attemptNo, verdict, flagged, handle, user>>

(* Mutation of ImportCompleted: the snapshot row is not looked up. *)
ImportCompletedMut ==
    /\ pc = "importing" /\ worker = "completed" /\ ~cancelled
    /\ MarkItem(active, "imported")
    /\ snapshots' = snapshots \cup {ContentOf[active]}
    /\ successes' = successes \cup {active}
    /\ materialized' = materialized \cup {active}
    /\ pc' = "nextImport"
    /\ worker' = "none"
    /\ UNCHANGED <<batchStatus, batchOf, parseStatus, artifact, attempts, files, batch, active,
                   failed, dropped, parseFailed, attemptNo, verdict, flagged, handle, user>>

(* register_import: the snapshot row, the item and its event together.  A   *)
(* content that has a row makes the item a duplicate of it.                 *)
ImportCompleted ==
    /\ pc = "importing" /\ worker = "completed" /\ ~cancelled
    /\ MarkItem(active, IF ContentOf[active] \in snapshots THEN "duplicate_content" ELSE "imported")
    /\ snapshots' = snapshots \cup {ContentOf[active]}
    /\ successes' = successes \cup {active}
    /\ materialized' = materialized \cup {active}
    /\ pc' = "nextImport"
    /\ worker' = "none"
    /\ UNCHANGED <<batchStatus, batchOf, parseStatus, artifact, attempts, files, batch, active,
                   failed, dropped, parseFailed, attemptNo, verdict, flagged, handle, user>>

(* Mutation of ImportCancelled: a result that arrives after cancel is nobody's. *)
ImportCancelledMut ==
    /\ pc = "importing"
    /\ worker = "cancelled"
    /\ MarkItem(active, "cancelled")
    /\ dropped' = dropped \cup {active}
    /\ pc' = "cancelRest"
    /\ worker' = "none"
    /\ UNCHANGED <<batchStatus, batchOf, parseStatus, snapshots, artifact, attempts, files,
                   batch, active, materialized, successes, failed, parseFailed,
                   attemptNo, verdict, flagged, handle, user>>

(* A result that arrives after cancel is dropped like a cancelled one.      *)
ImportCancelled ==
    /\ pc = "importing"
    /\ worker = "cancelled" \/ (worker = "completed" /\ cancelled)
    /\ MarkItem(active, "cancelled")
    /\ dropped' = dropped \cup {active}
    /\ pc' = "cancelRest"
    /\ worker' = "none"
    /\ UNCHANGED <<batchStatus, batchOf, parseStatus, snapshots, artifact, attempts, files,
                   batch, active, materialized, successes, failed, parseFailed,
                   attemptNo, verdict, flagged, handle, user>>

(* Mutation of CancelRemaining: every item of the batch is marked. *)
CancelRemainingMut(i) ==
    /\ pc = "cancelRest" \/ (pc = "nextImport" /\ cancelled)
    /\ batchOf[i] = batch /\ itemState[i] # "cancelled"
    /\ MarkItem(i, "cancelled")
    /\ dropped' = dropped \cup {i}
    /\ pc' = "cancelRest"
    /\ UNCHANGED <<batchStatus, batchOf, parseStatus, snapshots, artifact, attempts, files,
                   batch, active, materialized, successes, failed, parseFailed,
                   attemptNo, verdict, worker, flagged, handle, user>>

(* _cancel_remaining_imports: one transaction per item.                     *)
CancelRemaining(i) ==
    /\ pc = "cancelRest" \/ (pc = "nextImport" /\ cancelled)
    /\ i \in Pending
    /\ MarkItem(i, "cancelled")
    /\ dropped' = dropped \cup {i}
    /\ pc' = "cancelRest"
    /\ UNCHANGED <<batchStatus, batchOf, parseStatus, snapshots, artifact, attempts, files,
                   batch, active, materialized, successes, failed, parseFailed,
                   attemptNo, verdict, worker, flagged, handle, user>>

(* mark_import_batch_parsing, when every file has been tried.               *)
MarkParsing ==
    /\ pc = "nextImport" /\ ~cancelled /\ Pending = {}
    /\ batchStatus' = [batchStatus EXCEPT ![batch] = "parsing"]
    /\ pc' = "nextParse"
    /\ UNCHANGED <<batchOf, itemState, parseStatus, snapshots, artifact, attempts, files,
                   batch, active, lists, attemptNo, verdict, worker, flagged, handle, user>>

-----------------------------------------------------------------------------
(* The parse loop, on the main thread.                                      *)

(* Mutation of BeginParse: a succeeded artifact is not refused. *)
BeginParseMut(i) ==
    /\ pc = "nextParse" /\ ~cancelled
    /\ i \in materialized \cap Parsable
    /\ LET k == ContentOf[i]
       IN /\ artifact' = [artifact EXCEPT ![k] = "running"]
          /\ attempts' = [attempts EXCEPT ![k] = Append(@, "running")]
          /\ attemptNo' = Len(attempts[k]) + 1
    /\ active' = i
    /\ materialized' = materialized \ {i}
    /\ verdict' = "pending"
    /\ pc' = "announce"
    /\ UNCHANGED <<batchStatus, batchOf, itemState, parseStatus, snapshots, files, batch,
                   successes, failed, dropped, parseFailed, worker, flagged, handle, user>>

(* begin_parse_operation: a new attempt of the content's artifact, which    *)
(* is created if it is new.  Nobody has marked the item yet.                *)
BeginParse(i) ==
    /\ pc = "nextParse" /\ ~cancelled
    /\ i \in materialized \cap Parsable
    /\ LET k == ContentOf[i]
       IN /\ artifact[k] # "succeeded"
          /\ artifact' = [artifact EXCEPT ![k] = "running"]
          /\ attempts' = [attempts EXCEPT ![k] = Append(@, "running")]
          /\ attemptNo' = Len(attempts[k]) + 1
    /\ active' = i
    /\ materialized' = materialized \ {i}
    /\ verdict' = "pending"
    /\ pc' = "announce"
    /\ UNCHANGED <<batchStatus, batchOf, itemState, parseStatus, snapshots, files, batch,
                   successes, failed, dropped, parseFailed, worker, flagged, handle, user>>

(* PARSE_ALREADY_SUCCEEDED leaves the callback that asked for the attempt:  *)
(* nothing runs any more, and the handle is never finished.                 *)
RefuseParse(i) ==
    /\ pc = "nextParse" /\ ~cancelled
    /\ i \in materialized \cap Parsable
    /\ artifact[ContentOf[i]] = "succeeded"
    /\ pc' = "stuck"
    /\ UNCHANGED <<rows, files, batch, active, lists, attemptNo, verdict,
                   worker, flagged, handle, user>>

(* No parser for the suffix: the item is recorded as failed without any     *)
(* attempt.                                                                 *)
SkipParse(i) ==
    /\ pc = "nextParse" /\ ~cancelled
    /\ i \in materialized \ Parsable
    /\ parseStatus' = [parseStatus EXCEPT ![i] = "failed"]
    /\ materialized' = materialized \ {i}
    /\ parseFailed' = parseFailed \cup {i}
    /\ UNCHANGED <<batchStatus, batchOf, itemState, snapshots, artifact, attempts, files,
                   pc, batch, active, successes, failed, dropped, attemptNo, verdict,
                   worker, flagged, handle, user>>

(* Mutation of Announce: the item takes the status of the attempt. *)
AnnounceMut ==
    /\ pc = "announce"
    /\ parseStatus' = [parseStatus EXCEPT ![active] = artifact[ContentOf[active]]]
    /\ pc' = "parsing"
    /\ worker' = "queued" /\ flagged' = FALSE
    /\ UNCHANGED <<batchStatus, batchOf, itemState, snapshots, artifact, attempts, files,
                   batch, active, lists, attemptNo, verdict, handle, user>>

(* mark_import_parse_result("pending"), then a worker starts.               *)
Announce ==
    /\ pc = "announce"
    /\ parseStatus' = [parseStatus EXCEPT ![active] = verdict]
    /\ pc' = "parsing"
    /\ worker' = "queued" /\ flagged' = FALSE
    /\ UNCHANGED <<batchStatus, batchOf, itemState, snapshots, artifact, attempts, files,
                   batch, active, lists, attemptNo, verdict, handle, user>>

(* _open_attempt: the artifact and the pipeline's own attempt still run.    *)
OpenAttempt(k) == artifact[k] = "running" /\ attempts[k][attemptNo] = "running"

CloseAttempt(k, s) ==
    /\ OpenAttempt(k)
    /\ artifact' = [artifact EXCEPT ![k] = s]
    /\ attempts' = [attempts EXCEPT ![k][attemptNo] = s]

(* Mutation of PromoteDerived: the file is left for after the transaction. *)
PromoteDerivedMut ==
    /\ pc = "parsing" /\ worker = "document" /\ ~cancelled
    /\ derived' = derived
    /\ pc' = "register"
    /\ worker' = "none"
    /\ UNCHANGED <<rows, stored, batch, active, lists, attemptNo, verdict, flagged, handle, user>>

(* Mutation of PromoteDerived: the item is marked before the attempt is registered. *)
PromoteDerivedMarkedMut ==
    /\ pc = "parsing" /\ worker = "document" /\ ~cancelled
    /\ derived' = derived \cup {ContentOf[active]}
    /\ parseStatus' = [parseStatus EXCEPT ![active] = "succeeded"]
    /\ pc' = "register"
    /\ worker' = "none"
    /\ UNCHANGED <<batchStatus, batchOf, itemState, snapshots, artifact, attempts, stored, batch, active, lists, attemptNo, verdict, flagged, handle, user>>

(* A parsed document is promoted to derived/ before its transaction; a file *)
(* an interrupted attempt left there is equal and is kept.                  *)
PromoteDerived ==
    /\ pc = "parsing" /\ worker = "document" /\ ~cancelled
    /\ derived' = derived \cup {ContentOf[active]}
    /\ pc' = "register"
    /\ worker' = "none"
    /\ UNCHANGED <<rows, stored, batch, active, lists, attemptNo, verdict, flagged, handle, user>>

(* register_parse_success, register_parse_failure and cancel_parse_attempt  *)
(* close the attempt, its artifact and its operation; the item follows.     *)
RegisterSuccess ==
    /\ pc = "register"
    /\ CloseAttempt(ContentOf[active], "succeeded")
    /\ verdict' = "succeeded"
    /\ pc' = "record"
    /\ UNCHANGED <<batchStatus, batchOf, itemState, parseStatus, snapshots, files, batch, active,
                   lists, attemptNo, worker, flagged, handle, user>>

(* A worker's failure is not looked at for cancellation.                    *)
RegisterFailure ==
    /\ pc = "parsing"
    /\ worker = "failed" \/ (worker = "rejected" /\ ~cancelled)
    /\ CloseAttempt(ContentOf[active], "failed")
    /\ verdict' = "failed"
    /\ pc' = "record"
    /\ worker' = "none"
    /\ UNCHANGED <<batchStatus, batchOf, itemState, parseStatus, snapshots, files, batch, active,
                   lists, attemptNo, flagged, handle, user>>

(* Mutation of CancelAttempt: the attempt is left open. *)
CancelAttemptMut ==
    /\ pc = "parsing"
    /\ worker = "cancelled" \/ (worker \in {"document", "rejected"} /\ cancelled)
    /\ verdict' = "cancelled"
    /\ pc' = "record"
    /\ worker' = "none"
    /\ UNCHANGED <<batchStatus, batchOf, itemState, parseStatus, snapshots, artifact, attempts, files, batch, active,
                   lists, attemptNo, flagged, handle, user>>

CancelAttempt ==
    /\ pc = "parsing"
    /\ worker = "cancelled" \/ (worker \in {"document", "rejected"} /\ cancelled)
    /\ CloseAttempt(ContentOf[active], "cancelled")
    /\ verdict' = "cancelled"
    /\ pc' = "record"
    /\ worker' = "none"
    /\ UNCHANGED <<batchStatus, batchOf, itemState, parseStatus, snapshots, files, batch, active,
                   lists, attemptNo, flagged, handle, user>>

(* Mutation of RecordParse: a cancelled parse goes back to the loop. *)
RecordParseMut ==
    /\ pc = "record"
    /\ parseStatus' = [parseStatus EXCEPT ![active] = verdict]
    /\ parseFailed' = IF verdict = "failed" THEN parseFailed \cup {active} ELSE parseFailed
    /\ dropped' = IF verdict = "cancelled" THEN dropped \cup {active} ELSE dropped
    /\ pc' = "nextParse"
    /\ UNCHANGED <<batchStatus, batchOf, itemState, snapshots, artifact, attempts, files, batch,
                   active, materialized, successes, failed, attemptNo, verdict,
                   worker, flagged, handle, user>>

(* mark_import_parse_result for the active item.                            *)
RecordParse ==
    /\ pc = "record"
    /\ parseStatus' = [parseStatus EXCEPT ![active] = verdict]
    /\ parseFailed' = IF verdict = "failed" THEN parseFailed \cup {active} ELSE parseFailed
    /\ dropped' = IF verdict = "cancelled" THEN dropped \cup {active} ELSE dropped
    /\ pc' = IF verdict = "cancelled" THEN "cancelParse" ELSE "nextParse"
    /\ UNCHANGED <<batchStatus, batchOf, itemState, snapshots, artifact, attempts, files, batch,
                   active, materialized, successes, failed, attemptNo, verdict,
                   worker, flagged, handle, user>>

-----------------------------------------------------------------------------
(* The end of a batch.                                                      *)

(* Mutation of BatchOutcome: files that failed to parse are forgotten. *)
BatchOutcomeMut ==
    IF dropped # {} THEN "cancelled"
    ELSE IF successes # {} /\ failed # {} THEN "completed_with_failures"
    ELSE IF failed # {} THEN "failed"
    ELSE "completed"

(* ImportOrchestrator.finalize.                                             *)
BatchOutcome ==
    IF dropped # {} THEN "cancelled"
    ELSE IF successes # {} /\ failed \cup parseFailed # {} THEN "completed_with_failures"
    ELSE IF failed # {} THEN "failed"
    ELSE "completed"

Finalize(reported) ==
    /\ batchStatus' = [batchStatus EXCEPT ![batch] = BatchOutcome]
    /\ handle' = reported
    /\ pc' = "idle"
    /\ UNCHANGED <<batchOf, itemState, parseStatus, snapshots, artifact, attempts, files, batch,
                   active, lists, attemptNo, verdict, worker, flagged, user>>

(* Mutation of FinishParsed: failures are not reported. *)
FinishParsedMut ==
    /\ pc = "nextParse" /\ ~cancelled /\ materialized = {}
    /\ Finalize("completed")

FinishParsed ==
    /\ pc = "nextParse" /\ ~cancelled /\ materialized = {}
    /\ Finalize(IF failed \cup parseFailed # {} THEN "completed_with_failures" ELSE "completed")

FinishCancelled ==
    /\ \/ pc = "cancelParse"
       \/ Pending = {} /\ (pc = "cancelRest" \/ (pc = "nextImport" /\ cancelled))
    /\ Finalize("cancelled")

(* Cancelled while a parse worker was failing: the next turn of the parse   *)
(* loop finishes the handle and writes nothing.                             *)
FinishUnrecorded ==
    /\ pc = "nextParse" /\ cancelled
    /\ handle' = "cancelled"
    /\ pc' = "idle"
    /\ UNCHANGED <<rows, files, batch, active, lists, attemptNo, verdict, worker, flagged, user>>

(* A database or file error in a callback.  Only register_import is guarded *)
(* (ImportFailed); anywhere else the exception leaves the callback.  Before *)
(* the first worker the caller is start itself, and the dialog gets no      *)
(* handle; later it is the event loop, and the handle is never finished.    *)
CallbackFault ==
    /\ "fault" \in Interruption
    /\ Running /\ (Waiting => worker \in Reported)
    /\ \/ active = Null /\ pc' = "idle" /\ handle' = "none"
       \/ active # Null /\ pc' = "stuck" /\ UNCHANGED handle
    /\ worker' = "none"
    /\ UNCHANGED <<rows, files, batch, active, lists, attemptNo, verdict, flagged, user>>

-----------------------------------------------------------------------------
(* The process ends and starts again; the modal dialog leaves a crash as the *)
(* only way to end it under a batch.  Startup repairs nothing: batches,     *)
(* items, operations and attempts keep the status they had.                 *)
Restart ==
    /\ "restart" \in Interruption
    /\ restarts < MaxRestarts
    /\ restarts' = restarts + 1
    /\ pc' = "idle" /\ batch' = Null /\ active' = Null
    /\ materialized' = {} /\ successes' = {} /\ failed' = {}
    /\ dropped' = {} /\ parseFailed' = {}
    /\ attemptNo' = 0 /\ verdict' = "none"
    /\ worker' = "none" /\ flagged' = FALSE
    /\ handle' = "none" /\ cancelled' = FALSE
    /\ UNCHANGED <<rows, files>>

-----------------------------------------------------------------------------
WorkerStep == BeginWork \/ Materialize \/ ParseFile \/ WorkerFault

ImportStep ==
    \/ \E i \in Item : NextImport(i) \/ ImportFailed(i) \/ CancelRemaining(i)
    \/ ImportCompleted \/ ImportCancelled \/ MarkParsing

ParseStep ==
    \/ \E i \in Item : BeginParse(i) \/ RefuseParse(i) \/ SkipParse(i)
    \/ Announce \/ PromoteDerived
    \/ RegisterSuccess \/ RegisterFailure \/ CancelAttempt \/ RecordParse

Finish == FinishParsed \/ FinishCancelled \/ FinishUnrecorded

MainStep == ImportStep \/ ParseStep \/ Finish \/ CallbackFault

Next ==
    \/ \E b \in Batch, selection \in SUBSET Item : Start(b, selection)
    \/ Cancel
    \/ WorkerStep
    \/ MainStep
    \/ Restart

Spec == Init /\ [][Next]_vars

Fairness == WF_vars(WorkerStep) /\ WF_vars(MainStep)
LiveSpec == Spec /\ Fairness

-----------------------------------------------------------------------------
(* Properties.                                                              *)

AttemptStatus == {"running", "succeeded", "failed", "cancelled"}

(* Type invariant: what a restart keeps, and what it loses.                 *)
RowsTypeOK ==
    /\ batchStatus \in [Batch -> {"absent", "importing", "parsing"} \cup Final]
    /\ batchOf \in [Item -> Batch \cup {Null}]
    /\ itemState \in [Item -> {"absent", "pending", "failed", "cancelled"} \cup Imported]
    /\ parseStatus \in [Item -> {"not_requested", "pending", "succeeded", "failed", "cancelled"}]
    /\ snapshots \subseteq Content
    /\ artifact \in [Content -> {"absent"} \cup AttemptStatus]
    /\ attempts \in [Content -> Seq(AttemptStatus)]
    /\ stored \subseteq Content /\ derived \subseteq Content

PipelineTypeOK ==
    /\ pc \in {"idle", "nextImport", "importing", "cancelRest", "nextParse", "announce",
               "parsing", "register", "record", "cancelParse", "stuck"}
    /\ batch \in Batch \cup {Null}
    /\ active \in Item \cup {Null}
    /\ materialized \subseteq Item /\ successes \subseteq Item /\ failed \subseteq Item
    /\ dropped \subseteq Item /\ parseFailed \subseteq Item
    /\ attemptNo \in Nat
    /\ verdict \in {"none", "pending", "succeeded", "failed", "cancelled"}
    /\ worker \in {"none", "queued", "working"} \cup Reported
    /\ flagged \in BOOLEAN /\ cancelled \in BOOLEAN
    /\ handle \in {"none", "running"} \cup Final
    /\ restarts \in Nat

TypeOK == RowsTypeOK /\ PipelineTypeOK

(* A row never promises a file that is not there: a snapshot row has its    *)
(* content in the store, and a succeeded artifact has its derived document, *)
(* whatever crashed or was cancelled in between (register_import after      *)
(* materialize, _promote_derived_output before its transaction).            *)
RowsHaveFiles ==
    /\ snapshots \subseteq stored
    /\ \A k \in Content : artifact[k] = "succeeded" => k \in derived

(* An artifact says what its latest attempt says, and only the latest one   *)
(* can have succeeded: attempts left running by a crash, cancelled or       *)
(* failed before it never overtake it (start_parse_attempt, _open_attempt). *)
ArtifactFollowsLatestAttempt ==
    \A k \in Content :
        /\ artifact[k] = "absent" <=> attempts[k] = <<>>
        /\ attempts[k] # <<>> => attempts[k][Len(attempts[k])] = artifact[k]
        /\ \A n \in 1..(Len(attempts[k]) - 1) : attempts[k][n] # "succeeded"

(* Each stored content was imported by exactly one item; every other item   *)
(* with that content is a duplicate of it, across batches and restarts      *)
(* (register_import).                                                       *)
OneImportPerContent ==
    /\ \A i \in Item : itemState[i] \in Imported => ContentOf[i] \in snapshots
    /\ \A k \in snapshots : \E i \in Item : ContentOf[i] = k /\ itemState[i] = "imported"
    /\ \A i, j \in Item :
          itemState[i] = "imported" /\ itemState[j] = "imported" /\ ContentOf[i] = ContentOf[j]
              => i = j

(* An item is reported as parsed only over a succeeded artifact of its own  *)
(* content, and only an imported item has a parse result at all             *)
(* (mark_import_parse_result).                                              *)
ParsedItemsHaveDocuments ==
    \A i \in Item :
        /\ parseStatus[i] = "succeeded" => artifact[ContentOf[i]] = "succeeded"
        /\ parseStatus[i] # "not_requested" => itemState[i] \in Imported

(* A final batch has settled items, and its status is what they add up to:  *)
(* none is pending, completed means every file imported and parsed, failed  *)
(* means none imported (finalize over the lists the callbacks kept).        *)
BatchOutcomeIsTruthful ==
    \A b \in Batch : batchStatus[b] \in Final =>
        /\ \A i \in Item : batchOf[i] = b =>
              /\ itemState[i] # "pending" /\ parseStatus[i] # "pending"
              /\ batchStatus[b] = "completed" =>
                    itemState[i] \in Imported /\ parseStatus[i] = "succeeded"
              /\ batchStatus[b] = "failed" => itemState[i] = "failed"
        /\ batchStatus[b] = "completed_with_failures" =>
              /\ \E i \in Item : batchOf[i] = b /\ itemState[i] \in Imported
              /\ \E i \in Item : batchOf[i] = b /\ (itemState[i] = "failed" \/ parseStatus[i] = "failed")
        /\ batchStatus[b] = "cancelled" =>
              \E i \in Item : batchOf[i] = b /\ (itemState[i] = "cancelled" \/ parseStatus[i] = "cancelled")

(* What the dialog says is what the database says: completed on both sides, *)
(* and never completed for a cancelled handle.                              *)
HandleIsTruthful ==
    /\ handle = "completed" => batchStatus[batch] = "completed"
    /\ handle = "cancelled" => batchStatus[batch] # "completed"

(* What was settled stays settled: a final item, a final batch, a succeeded *)
(* artifact and a closed attempt are never written again.                   *)
SettledStays ==
    [][ /\ \A i \in Item : itemState[i] \notin {"absent", "pending"} => itemState'[i] = itemState[i]
        /\ \A b \in Batch : batchStatus[b] \in Final => batchStatus'[b] = batchStatus[b]
        /\ \A k \in Content :
              \A n \in DOMAIN attempts[k] :
                  /\ n \in DOMAIN attempts'[k]
                  /\ attempts[k][n] # "running" => attempts'[k][n] = attempts[k][n]]_vars

(* A finished handle closes everything the batch opened: its batch is final *)
(* and no attempt of its files is left running.                             *)
FinishedIsClosed ==
    handle \in Final =>
        /\ batchStatus[batch] \in Final
        /\ \A i \in Item : batchOf[i] = batch => artifact[ContentOf[i]] # "running"

(* A cancelled handle belongs to a batch recorded as cancelled.             *)
CancelledHandleCancelsBatch == handle = "cancelled" => batchStatus[batch] = "cancelled"

(* The dialog of every batch can be closed: its handle finishes.            *)
HandleFinishes == handle = "running" ~> handle # "running"

-----------------------------------------------------------------------------
(* The inductive invariant behind the safety properties above.              *)

Importing == {"nextImport", "importing", "cancelRest"}
Parsing   == {"nextParse", "announce", "parsing", "register", "record", "cancelParse"}
Attempting == {"announce", "parsing", "register"}

Mine == {i \in Item : batchOf[i] = batch}

(* Where the pipeline stands: a worker is out only while a callback waits   *)
(* for it, its result fits what it was asked for, and the active item is    *)
(* pending while it is imported and imported while it is parsed.            *)
PipelineIsPlaced ==
    /\ pc \in Importing \cup Parsing => batch \in Batch /\ handle = "running"
    /\ pc \in Importing => batchStatus[batch] = "importing"
    /\ pc \in Parsing => batchStatus[batch] = "parsing" /\ Pending = {}
    /\ ~Waiting => worker = "none"
    /\ pc = "importing" =>
          /\ active \in Mine /\ itemState[active] = "pending"
          /\ worker = "completed" => ContentOf[active] \in stored
    /\ pc \in Attempting \cup {"record"} =>
          active \in Mine /\ itemState[active] \in Imported
    /\ pc = "parsing" => worker # "completed"

(* The attempt under way is the latest of its artifact and both still run,  *)
(* until the item is recorded with the outcome they were closed with.       *)
AttemptIsOpen ==
    /\ pc \in Attempting =>
          /\ artifact[ContentOf[active]] = "running"
          /\ attemptNo = Len(attempts[ContentOf[active]])
    /\ pc = "announce" => verdict = "pending"
    /\ pc = "register" => ContentOf[active] \in derived
    /\ pc = "record" =>
          /\ verdict \in {"succeeded", "failed", "cancelled"}
          /\ verdict = "succeeded" => artifact[ContentOf[active]] = "succeeded"

(* Only a stored content has an artifact.                                   *)
ArtifactsAreStored == \A k \in Content : artifact[k] # "absent" => k \in snapshots

(* Items and batches come into being together.                              *)
ItemsHaveBatches ==
    \A i \in Item :
        /\ itemState[i] = "absent" <=> batchOf[i] = Null
        /\ batchOf[i] # Null => batchStatus[batchOf[i]] # "absent"

(* The pipeline's lists say of its batch what the rows say.                 *)
ListsMirrorRows ==
    pc \in Importing \cup Parsing =>
        /\ successes = {i \in Mine : itemState[i] \in Imported}
        /\ failed = {i \in Mine : itemState[i] = "failed"}
        /\ dropped = {i \in Mine : itemState[i] = "cancelled" \/ parseStatus[i] = "cancelled"}
        /\ parseFailed = {i \in Mine : parseStatus[i] = "failed"}
        /\ \A i \in Mine :
              parseStatus[i] = "pending" <=> i = active /\ pc \in {"parsing", "register", "record"}
        /\ \A i \in successes :
              parseStatus[i] = "not_requested" <=> i \in materialized \/ (i = active /\ pc = "announce")
        /\ pc = "announce" => active \notin materialized
        /\ materialized \subseteq successes

(* Nothing is dropped before the loop that drops it, and a cancelled import *)
(* loop that goes on has just recorded a failure.                           *)
CancelIsTraced ==
    /\ pc \in {"cancelRest", "cancelParse"} => dropped # {}
    /\ pc \in {"nextImport", "importing", "nextParse"} \cup Attempting \cup {"record"} => dropped = {}
    /\ pc = "nextImport" /\ cancelled => failed # {}

IndInv ==
    /\ TypeOK
    /\ PipelineIsPlaced
    /\ AttemptIsOpen
    /\ ArtifactsAreStored
    /\ ItemsHaveBatches
    /\ RowsHaveFiles
    /\ ArtifactFollowsLatestAttempt
    /\ OneImportPerContent
    /\ ParsedItemsHaveDocuments
    /\ ListsMirrorRows
    /\ CancelIsTraced
    /\ BatchOutcomeIsTruthful
    /\ HandleIsTruthful

-----------------------------------------------------------------------------
(* The strengthenings that hold when no step fails: beside IndInv they are  *)
(* inductive without "fault", the second one without "restart" as well.     *)

(* Nothing goes on past a cancellation: the callback that sees it leaves    *)
(* the loop, and closes its attempt as cancelled.                           *)
CancelIsPrompt ==
    /\ worker # "failed"
    /\ pc \in {"nextImport", "nextParse", "announce", "register"} => ~cancelled
    /\ pc = "record" /\ cancelled => verdict = "cancelled"
    /\ CancelledHandleCancelsBatch

(* Only the attempt under way is open, and a finished handle leaves nothing *)
(* under way.                                                               *)
NothingLeftOpen ==
    /\ \A k \in Content : artifact[k] = "running" => pc \in Attempting /\ k = ContentOf[active]
    /\ handle \in Final => pc = "idle" /\ batch \in Batch /\ batchStatus[batch] \in Final

-----------------------------------------------------------------------------
(* The pipeline implements the catalog of contents.                         *)

Catalog == INSTANCE ContentCatalog
           WITH catalog <- [k \in Content |->
                               IF artifact[k] = "succeeded" THEN "parsed"
                               ELSE IF k \in snapshots THEN "stored" ELSE "unknown"]

(* Contents only ever move from unknown to stored to parsed, one at a time, *)
(* through every failure, cancellation and restart.                         *)
ImplementsCatalog == Catalog!Spec

=============================================================================

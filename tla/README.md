# Verification of the research workspace

TLA+ models of the parts of `research_workspace` that decide whether a user's
data survives: what happens between a click and a committed row when threads
interleave, operations are cancelled, file operations and transactions fail and
the process stops. TLC checks every model on small instances; TLAPS proves the
theorems listed below for every value of the constants.

Paths below are relative to the repository; `OD`, `WC` and the like abbreviate
files (see the table of parts). `DESIGN` is
`docs/superpowers/specs/2026-07-16-v0.2-deterministic-design.md`.

## 1. The system

A single-process desktop application (Qt, SQLite through SQLAlchemy, files under
one data directory). The **main thread** runs the event loop and every database
transaction. **Worker threads** (`OperationWorker` in `ThreadedOperationRunner`)
do file work and queue one terminal signal, which the main thread delivers.
**Observer threads** only put file-system events on a queue. The process may end
at any step; what a later start finds is the database and the files.

| Part | Source (`src/research_workspace/...`) | State | Operations | Hard because |
|---|---|---|---|---|
| Protected command pipeline | `application/services/operation_dispatcher.py` (OD), `command_dispatcher.py` (CD), `recovery_points.py`, `infrastructure/recovery/sqlite_recovery.py` (SR), `db/write_coordinator.py` (WC), `db/repositories.py` (RE) | `application_commands`, `recovery_points`, `recovery_slots`, domain rows with `row_version`, `recovery/{current,previous,staging-*,retired-*}`, handles and worker flags | start, replay, cancel, worker rotation, activate, commit, fail, close, restart | a rotation of three renames between two transactions, several workers over one directory, lost acknowledgements, retries under the same key |
| Import and parse pipeline | OD (`ImportParsePipeline`), `import_orchestrator.py`, WC, RE, `filesystem/snapshots.py`, `presentation/dialogs/import_batch_dialog.py` | batches, items, snapshots, artifacts, attempts, content-addressed files, four in-memory lists | start, cancel, materialize, register, begin/finish/cancel a parse, finalize | every outcome of a file is a transaction of its own; files are promoted before rows; a batch is a sum of callbacks |
| Monitoring | WC 370-1130 and 1357-1663, `monitoring_lifecycle` in OD, `reconciliation.py`, `manage_monitoring_root.py`, `filesystem/watchdog_observer.py`, `execute_pending` in `import_orchestrator.py` | roots with status and generation, pending checks, observations, links, runs with checkpoints, a bounded event queue | register, pause, resume, remove, start and end a session, ingest, execute a pending check, reconcile page by page | events are lost, reordered and overflow; sessions end dirty; a run is resumed from a checkpoint |
| Recovery directory reconciliation | SR 29-124 | `recovery/*` | validate, repair | every directory state a crash leaves |
| Paper, idea and submission commands | `commands/manage_*.py`, `_CrudActions` in `bootstrap.py`, RE 523-1031 | the domain tables with `row_version`, `audit_changes` | create, edit, delete, restore, change status | the row shown, the row planned from and the row written differ |
| Version graph | `relation_graph.py`, `review_relation.py`, `_DecisionActions` in `bootstrap.py`, RE 625-828, WC 1131-1295 | `paper_versions`, `entity_relations`, `paper_version_candidates` | register and supersede a candidate, confirm, reject, reconsider, retract, choose the current version | acyclicity under commands planned from a stale graph |
| Compensating undo | `commands/undo_command.py`, RE 340-514, WC | `application_commands.undo_of_command_id` | history, preflight, undo | compares with a row read before its recovery image exists |
| Version candidate detection | `candidate_detection.py` | none | direction, rules, neighborhoods | many combinations of evidence |
| Data-directory configuration | `change_data_directory.py`, `initialize_application.py`, `json_config_store.py`, `bootstrap.py` | `config.json`, the directories | start, choose, promote | two files and a database, read and replaced across restarts |
| File safety primitives | `filesystem/stability.py`, `atomic_files.py`, `snapshots.py` | files | stable copy, promotion without replacing | a writer between any two system calls |
| Task, lease and retry policies | `domain/tasks.py`, `application/services/retry_policy.py` | none (pure functions) | decide | boundaries |
| Authorization | `domain/capabilities.py`, OD | none | compare | - |
| Parsers, AI analysis, queries, presentation, schema, seed, logging | see `PROJECT.json` | - | - | no protocol of their own |

How they interact: presentation calls the pipelines in OD and shows the
`ImportParseHandle` they return; a pipeline writes through WC (one transaction
per call), queues a worker, and continues in a callback of its terminal signal.
Monitoring feeds the import pipeline's store and orchestrator through pending
checks. Undo and the CRUD commands run inside the protected pipeline.

### What makes each part correct

* *Commands*: a key changes the domain at most once; what the handle says is
  true; nothing changes without a registered recovery point; some verified image
  is on disk from the first registration on; database and directory agree.
* *Import*: rows never promise files that are not there; contents are imported
  and parsed once; a batch's status is what its items add up to; what is settled
  stays settled; every dialog can be closed.
* *Monitoring*: a settled pending check is settled about the current file; a
  clean marker means nothing was lost; a run's completion means the folder was
  compared after the event that asked for it; every noticed change is settled.
* *Entities*: no write over a row that changed since it was read; a submission
  and a paper name usable versions; the relations between versions are acyclic; a
  decision makes one relation; an undo restores exactly what its command changed.
* *Directory*: the application works in the active directory, makes another one
  active only when the user chose it and it is a workspace, and leaves existing
  data alone.
* *Files*: what is stored under a hash is what the source held, and stays.

`PROJECT.json` lists the hazards at their lines, each with the properties that
would catch it.


## 2. Modules

| Module | Models | Abstract specification | Instances | Proofs |
|---|---|---|---|---|
| `ProtectedCommand` | OD `ProtectedCommandPipeline`, CD, the recovery rotation of SR, the command transactions of WC and RE, close and restart | `CommandLedger` | `MCProtectedCommand` | `ProtectedCommandProofs` |
| `ImportParse` | OD `ImportParsePipeline`, `ImportOrchestrator`, the worker, the import and parse transactions | `ContentCatalog` | `MCImportParse` | `ImportParseProofs` |
| `Monitoring` | monitored roots, the observer queue, pending checks, reconciliation runs, sessions | - | `MCMonitoring` | `MonitoringProofs` |
| `Workspace` | what the protected commands do to the tables: builders, repository checks, coordinator, undo, the detector's writes | - | `MCWorkspace` | `WorkspaceProofs` |
| `RecoveryReconciliation` | `reconcile_recovery_directories` over the states of `ProtectedCommand`, which it extends | - | `MCCommandOverlap` | `ProtectedCommandProofs` |
| `CommandOverlap` | nothing of its own: a history variable over `ProtectedCommand` that says whether commands have overlapped, the properties that only an overlap breaks and their inductive invariant | - | `MCCommandOverlap` | `ProtectedCommandProofs` |
| `SnapshotCopy` | copy, promotion and verification of a snapshot, system call by system call | - | `MCSnapshotCopy` | `SnapshotCopyProofs` |
| `DataDirectory` | the start and the choice of a data directory | - | `MCDataDirectory` | `DataDirectoryProofs` |
| `CandidateRules`, `CandidateNeighborhood`, composed by `CandidateDetection` | the pure detector and the neighborhoods | the reference definitions in `CandidateDetection` | `MCCandidateDetection` | `CandidateDetectionProofs` |
| `TaskPolicy` | the pure policies of `domain/tasks.py` and `application/services/retry_policy.py` | - | none: nothing drives them | in the module |

How they fit together: `ProtectedCommand` is the protocol a command goes through
and knows of a row only its version; `Workspace` takes that protocol as two steps
(submission, end) and models what the commands do. `ImportParse` treats
"materialize a file" as a worker step that succeeds or fails; `SnapshotCopy` is
that step. `Monitoring` treats the import of one file in the same way.
`CandidateDetection` computes what `Workspace` registers.

Every module follows one layout: constants with named assumptions; variables
grouped into what a restart keeps (database, disk) and what it loses (memory);
one action per handler, callback, worker step or transaction; `Next`, `Spec` and,
where liveness is checked, `LiveSpec`; the type invariant and the properties,
each with a comment that names the code it is about; the inductive invariant.
An operator whose name ends in `Mut` is a mutation of the one that follows it, as
a plausible bug would have it; no specification uses it, and `PROJECT.json` says
which property it breaks.

### Common conventions

* A database transaction is one step: SQLite serialises writers and WC commits or
  rolls back a `with factory.begin()` block as a whole. Two transactions of one
  handler are two steps, with everything else possible in between.
* A callback of the event loop is split at its transactions, because a crash may
  come between them; `main`, `pc` and `exec` hold the place, so that no other
  callback of the same pipeline runs in the middle of one.
* A worker thread is split at its file operations and at the points where it
  reads the cancellation flag. Its terminal signal stays queued until a delivery.
* `Interruption` is the set of things that may happen besides the normal course
  (cancellation, faults, crashes, the user). The proofs do not depend on it, but for
  the three theorems on cancelled imports (6.2).
* `MaxRestarts`, `MaxGeneration`, `MaxInFlight`, `MaxSessions` bound what would
  otherwise count for ever, and so do `MaxCommands`, `MaxStarts`, `MaxFaults` and
  `MaxWrites`; they stand only in guards. The proofs hold for every value
  of them.

### 2.1 ProtectedCommand

A command is identified by its idempotency key; `Command` is the set of keys.
`status`, `target`, `pointGen`, `pointState`, `slot` and `version` are columns of
`application_commands`, `recovery_points`, `recovery_slots` and the domain
tables. `log` is the sequence of domain transactions; an image of the database
is the prefix of `log` it contains (`upTo`) with its owner and generation.
`current`, `previous`, `staging`, `retired` are the directories under
`recovery/`; a directory without a verified manifest is `Unverified`.

`Submit` is `start` up to the queued worker (envelope, generation read, worker
started), `Replay` the same key again. `StartWorker`, `Backup`,
`CheckCancelled`, `RetirePrevious`, `DemoteCurrent`, `PromoteStaging`,
`DropRetired` are `create_verified_recovery` and `_rotate` rename by rename, and
`WorkerFault` an exception at any of them. `DeliverWithoutCommit`, `Activate`,
`ActivateFails`, `Commit`, `CommitFails` are `_completed`, `_failed`,
`_cancelled` and `commit_prepared`, with the lost acknowledgement of a commit.
`Close` is the shutdown of the pipelines, `Restart` the end of the process at any
point and the next start, which recreates the empty directories.
`Basis` distinguishes the editors that build their mutation on the row captured
at submission from those that read it again (`_CrudActions`).

Abstracted: the content of rows and of images, hashes (a verified manifest is a
record kind), the fields of envelopes, permission contexts, outbox events.

### 2.2 ImportParse

`batchStatus`, `batchOf`, `itemState`, `parseStatus`, `snapshots`, `artifact`
and `attempts` are the rows; `stored` and `derived` the content-addressed files;
`materialized`, `successes`, `failed`, `dropped`, `parseFailed` the lists of
`_PipelineState`. `pc` is the callback the pipeline stands in: `importing` and
`parsing` wait for a worker, `stuck` is a callback an exception left.
The actions are the callbacks and transactions of OD and WC named in the map;
`CancelRemaining` marks one file per step because each is a transaction.
`ImportFailed` covers a refused path, a failed worker and a rolled-back
registration, which the code treats alike. `BatchOutcome` is
`ImportOrchestrator.finalize`.

Abstracted: file names, sizes and hashes (a content is a value, the files of a
selection a set), the parsed document, the progress signal.
The dialog is modal, so one batch runs at a time.

### 2.3 Monitoring

`rootStatus`, `rootGen` (a removed root is `removed`), `metaGen` and `clean` (the
workspace row), `check` and `tries` (`pending_path_checks`), `observation` and
`owned` (`source_observations`: whether the metadata in the row still fits the
file, and whether the row belongs to the root), `run` (`reconciliation_runs`,
with the checkpoint as the set of paths passed). `alive`, `queue`, `overflowed`
are `WatchdogObserver`; `known` and `page` what a reconciliation worker was given
and has scanned; `exec` the place of `execute_pending`; `stage`, `unchecked`,
`due`, `drained`, `flushed` the place of `MonitoringLifecycle`.

`Change` is a write to a file together with the notification of a live observer
(`_enqueue`). `Ingest` is `ingest_raw_file_event`. `BeginPending`, `Copy`,
`Register`, `Fail` are `execute_pending`. `BeginRun`, `ScanPage`, `RecordPage`,
`StopRun`, `ResumeRun` are a run. `BeginSession`, `CheckRoot`, `Started` are
`startup`; `StopIntake`, `Drain`, `Persist`, `Join`, `Drain`, `Persist`,
`Complete` are `shutdown`; `Crash` ends the process anywhere.

Nothing in `src/` calls `MonitoringLifecycle`, `execute_pending` or
`start_reconciliation` but tests: `bootstrap_application` only begins a session
and `ApplicationServices.close` writes the clean marker. The caller between
startup and shutdown is therefore external, and modelled as the one most
favourable to the code that its interfaces allow: it takes events in order when
their root accepts them, ingests an overflow only when no run of the root is
open, begins every run startup asks for, ends no overflow itself, and shuts down
between two operations. What fails under it fails under a careless caller too.

`noticed`, `dirty` and `resumed` are history for the properties only: no guard
reads them.

Abstracted: moves (two changes), deletions, the deduplication of notifications,
quiet windows and back-off times (a check is due when its state allows it),
page sizes (a page passes any set of paths), directory structure, the outcome
`duplicate_content` (as `imported`).

### 2.4 Workspace

`row` is the tables `papers`, `ideas` and `submissions`, `version` is
`paper_versions` (a version is its paper and snapshot), `edge` the
`version_successor_of` rows of `entity_relations`, `cand` the candidates, `log`
the rows of `application_commands` with their `audit_changes`.

A command is two steps. `Submit...` is the click: `bootstrap.py` reads what it
reads then (`seen`) and the envelope is persisted (`PersistEnvelope`, with the
unique index on undos). Any time later, with other commands committing in
between, the builder and the transaction run in one callback: `CommitRow`,
`DecideCandidate`, `ConfirmCandidate`, `RetractVersion`, `ChangeVersionContext`,
`RetractRelation`, or `MarkCommandFailed` for every refusal. The layers of the
code are kept apart: `Plan` and the operators under it are the builders,
`Accepted` and `Unchanged` the repository, `Ended` the coordinator. That is what
the properties are about: the builder may plan from a row that is gone, and the
repository has to notice.

`RegisterVersionCandidate` and `SupersedeVersionCandidate` are the detector's
writes outside the protocol.

Abstracted: title, status and content of a row are one field; deadlines; labels
of versions are taken to be distinct; evidence, and relations of other types,
which only adopted v0.1 data can hold. `StartingDatabases` says what a session
may start from: what the migrations and earlier sessions leave. It excludes two
things migration 0004 may adopt from v0.1 data: a submitted submission without a
version, and parent edges with a cycle (0004 does not check for one).

### 2.5 RecoveryReconciliation

`Reconciled` is the result of `reconcile_recovery_directories` for the
directories as they stand, nondeterministic where the code depends on the order
of a listing or on what `os.rename` makes of an empty directory. Nothing calls
the function, so the question is what a start that called it first would restore
in any state `ProtectedCommand` can end in. `InReach` names the two situations in
which the answer is nothing, because the function does not look at retired
directories: a rotation failed earlier and left the image there, or a start
recreated an empty `current` before.

### 2.6 SnapshotCopy

`files` are all files the source path has named, each with contents and stamp,
`source` the one it names now; `staging`, `final` the partial file of an item and
the stored snapshots. `Begin`, `Open`, `CopyChunk`, `CloseSource`, `Compare` are
`stream_stable_copy`; `Reuse`, `Promote`, `Link`, `Unlink`, `Verify` are
`promote_no_replace` and `verify_promotion_outcome`; `WriteSource`,
`ReplaceSource`, `Damage` and `Crash` the environment. Several items are in
flight at once: the class allows it, although the dialog imports one file after
the other. File systems without file identities are included (`hints`). A write
that leaves size and modification time alone is not modelled: no stat can see it.

### 2.7 DataDirectory

`config` is `config.json`, replaced by `os.replace`; `writable` and `db` what a
process finds in a directory; `proc` the processes with the configuration each
has read. `Start`, `Initialize`, `ValidateFirst`, `ValidatePending`,
`ValidateActive`, `SaveStartup`, `Open` and `OpenFails` are a start, one step for
each access to the disk; `Prepare`, `LoadChoice`, `Chosen`, `SaveChoice` a choice.
`End` is the end of a process at any of them, `DiskChanges` and `ChangedByHand`
what others do to the disk. A database is abstracted to what `inspect` and the
migrations can tell of it; to a valid SQLite file of another program they add the
workspace (`other`, then `mixed`).

### 2.8 Candidate detection and policies

`CandidateRules` translates the direction and the five rules of
`detect_candidate`, `CandidateNeighborhood` the walks of
`schedule_candidate_comparisons`. A walk goes through the snapshots that share one
key with the new one; its state is the times still ahead (the two indexes of the
loop are the nearest of them on either side) and what has been selected, and an
iteration of the loop is the step `Walk`. `sorted(...)[:n]` and the first n of
`heapq.merge` are the elements with fewer than n before them (`Foremost`).
`CandidateDetection` computes one or the other for a piece of work, a comparison in
one step, a new snapshot when its walks are finished, and states the references: the result does not depend on which snapshot is called a, the rule
never rests on evidence for the opposite direction, and the comparisons are
exactly those with fewer than the limit nearer. No caller in `src/` builds the
inputs; `operation_worker.py` calls the detector when it is given them.

`TaskPolicy` translates the decision functions. It has theorems only.

## 3. Runs

Bounds are small on purpose; what makes a bound large enough is named with it.
Each run takes from a few seconds to about two and a half minutes with two workers.

| Run | Instance | Shows |
|---|---|---|
| `CommandConcurrent` | three commands on one row, two workers at a time, three generations, one restart, everything interrupts; symmetric in the commands | what always holds: four safety properties, a verified image on disk and the refinement of `CommandLedger`. And what only an overlap of two commands breaks, until a lone command commits: increasing generations, a change made over its own image, an image in `current` that is not behind, what reconciliation would restore. Two workers are enough for two rotations to interleave, the third command meets what they leave and rotates away the first one's image |
| `CommandLive` | two commands on one row, both at a time, one restart, everything interrupts, weak fairness | every handle finishes. Two commands are enough for one to stand in the way of the other |
| `ImportFaults` | two batches over three files, two with one content, one without a parser, one restart, everything interrupts | five safety properties, the action property and the refinement of `ContentCatalog`. Two batches make the second meet rows and files of the first; a duplicate can be in the same batch or the next |
| `ImportCancelled` | two batches over three distinct files, cancellation only, weak fairness | every handle finishes and closes everything it opened |
| `MonitoringChecks` | one file, a queue of one, two attempts, two sessions, everything but changing health | settled checks are about the current file, attempts agree with states, stopped runs take no late page |
| `MonitoringSessions` | two files, a queue of one, three sessions, crashes, faults, changing health; checks not executed | no observed change is forgotten. The second file lets a run be half done and the queue overflow. The third session is the first that can follow a clean end without reconciling: a root is registered with generation 0, so the session after its registration always reconciles |
| `WorkspaceEntities` | a paper, an idea, a submission, one snapshot, two texts, an empty or an adopted database, four commands, retractions of versions among them, two in flight | submissions keep usable versions, the audit explains every row, undo is exact. Four commands are a create, an edit, the undo of one of them and another edit; two in flight is the least that overlaps |
| `WorkspaceVersions` | two snapshots of one paper, a candidate in each direction, all commands on versions, relations and candidates, four commands, two in flight | the graph stays acyclic between active versions, the current version stays usable, a decision makes one relation. Two versions and both directions are the smallest cycle |
| `DataDirectory` | three directories, one process, three starts, two faults or changes by hand | the active directory is the one worked in, activation is of a chosen and validated one, existing data is left alone. Three starts are a first one, the one that promotes and one after a crash in it |
| `SnapshotCopy` | two items, two bytes, two chunks, two writes or replacements, one fault; symmetric in items and bytes | an accepted copy is the source, a stored snapshot stays, a materialized item has its bytes. Two chunks make a torn copy, two items a race for one hash |
| `CandidateDetection` | every combination of continuity evidence, order, tokens and signals for a pair of supported snapshots with different hashes; every index of four snapshots with two keys, around a target with a key of each kind | the three references of section 2.8. Four snapshots put two on one side at one distance, and a group on either side of the limit |
| `FindLostUpdate` | two commands on one row | a finding, section 5 |

Deadlock is not checked: when all keys, files, commands or sessions are used up
and nothing is left to do the models stop, as the application does.

Every property of a passing run has a mutation of the code that breaks it under
the same configuration; `PROJECT.json` lists them.

### Properties worth a second look

* `AppliedAtMostOnce` relates the log of domain changes to command rows through
  crashes and lost acknowledgements; `ImplementsLedger` says the same as a
  refinement.
* `SomeImageSurvives` is about the interleaving of two three-rename rotations
  with deletion, restart and the recreation of empty directories.
* `ImagePredatesOwner` relates every directory to the log: whichever command's
  image ends up where, restoring it never contains the change it guards.
* `GenerationsOrdered`, `LoneCommitOverItsOwnImage`, `CurrentIsNotBehind` and
  `LastStateIsRestored` are what the recovery design promises of serialized commands,
  in a pipeline that does not serialize them (section 5). They hold also after an
  overlap, from the first change of a command that had nobody beside it: the design
  is broken by the overlap itself and repaired by one lone command.
  `CurrentIsNotBehind` covers a command cancelled after its rotation and a crash
  before its registration, where the slots name images that are gone.
  `LastStateIsRestored` asks of every state a crash leaves whether the repair the
  code has, and does not call, would find the newest image.
* `ArtifactFollowsLatestAttempt` spans crashes: attempts of dead processes stay
  `running` for ever and must not decide anything.
* `BatchOutcomeIsTruthful` sums up a batch from rows, the code sums it up from
  four lists kept across callbacks.
* `ImportedIsCurrent` is the race of a copy with a change and with a
  reconciliation page; the only protection is the state of the check.
* `NoticedIsTraced` follows a change from the observer through queue, overflow
  mark, shutdown buffer, runs and restart decisions to a row. `SetAside` lists
  the situations in which the code itself stops watching (a root that is not
  active, a run the user cancelled, a run left open by an earlier session); the
  last of them is a finding.
* `AuditExplainsRows` chains all committed changes of a row: two commands planned
  from one row cannot both be in the chain.
* `UndoRestoresItsFields` compares the row an undo writes with the audit of its
  command, whatever committed between the click and the end.
* `VersionGraphSound` and `DecisionHasOneRelation` relate tables that different
  commands write from what they read at different times.
* `CopyIsTheSource` says of the contents what the code concludes from three stats.

## 4. Fairness

`LiveSpec` assumes weak fairness of worker threads (the operating system
schedules them) and of the callbacks of the main thread (the event loop delivers
queued signals). The user, cancellation, faults, crashes and restarts owe
nothing. For `Monitoring` the external caller is assumed fair in taking events,
executing checks (strong fairness: other checks may be executed in between) and
scanning pages; it is used only to show that even then a finding waits for ever.
`Workspace`, `SnapshotCopy`, `DataDirectory` and `CandidateDetection` have no
liveness property: whether a command ends is `HandleFinishes` of
`ProtectedCommand`, and the others end whenever their thread runs on.

## 5. Findings

`PROJECT.json` quotes the lines. One is a run; most of the others need only a
configuration that asks for the property named, which TLC refutes.

* `FindLostUpdate` (`NoLostUpdate`): the editors read the row again when they
  build the mutation, so the version the user edited from is never compared.
* Serialization (design 913 "Protected commands are serialized per workspace:", 917
  "→ acquire write/backup lock", 941 "Recovery generations are monotonically increasing
  per workspace."): `start` takes no lock, so two commands may be in flight. Both then
  take the same generation, each may commit over the other's image, and reconciliation
  may restore the older of two images: `GenerationsIncrease`, `CommitsOverItsOwnImage`
  and `RestoresTheLastState` are refuted by TLC with `MaxInFlight = 2`, and hold with 1.
  `FindLostUpdate` is such an overlap too, and `UpdatesKept` (6.1) proves that a lost
  update needs one.
* Slots (design 963-964 "`recovery_slots` identifies the two files currently guaranteed
  to exist.", 967 "The product promise is the current and previous verified
  generations."; `SlotsNameImages` of `ProtectedCommand`, refuted already with
  `MaxInFlight = 1`): a command that is cancelled after its rotation, or whose process
  ends before `activate`, is not registered, while its image has replaced the current
  one and the retired one is deleted. The slots then name an image that is gone.
* Recovery (`NextGenerationIsAccepted` of `ProtectedCommand`, `Everything`): a
  process that ends between the rotation and the registration of its recovery
  point leaves an image the database does not know. Its generation is reused,
  `create_verified_recovery` refuses it, and every later protected command fails.
  The function that would repair it is not called, and never looks at retired
  directories.
* Import (`HandleFinishes` of `ImportParse`, files with one content): a file whose
  content was parsed before stops its batch in a callback; the dialog can neither
  finish nor be closed.
* Import (`CancelledHandleCancelsBatch`, cancellation and faults): a worker that
  fails after the user cancelled lets the handle say cancelled over a batch that
  is not.
* Monitoring (`LostEventsAreReconciled`): a reconciliation resumed from its
  checkpoint after a crash never looks again at what it had passed, although
  events of those files were lost with the process.
* Monitoring (`FindingsAreImported` under `LiveSpec`): what reconciliation finds is
  written as `detected`, which nothing ever imports.
* Undo (`DeletedPaperHasNoSubmission` of `Workspace`, entity operations): the undo
  of a create counts dependents on the click only; a submission created before it
  commits stays visible under a deleted paper.
* Undo (guard `UniqueUndo`): a refused undo keeps its row, which blocks every later
  one; an undo of a relation is promised and never available.
* Configuration (`SwitchesAreInspected` of `DataDirectory`): when the first read of
  the configuration fails and the second succeeds, a pending directory is made
  active without being inspected.
* Configuration (action `OpenFails`): the pending directory is active, and the
  fallback gone, before layout and migrations have succeeded.
* Detection (`TokensNeedLineage` of `CandidateDetection`): version tokens decide
  the direction between filenames of different lineages.

Met while modelling, and not against any document:

* *Commands*: a command row stays `running` when its worker fails.
* *Monitoring*: an event during a check's last attempt leaves it `debouncing` with
  no attempt left; a check left `importing` by a crash is picked up by nobody; the
  capacity warning degrades a root, and a degraded root refuses events; the last
  page of any run ends the overflow of its root, also of a run that had passed a
  path before the overflow.
* *Entities*: the editor never sets a submission's version, so only adopted
  submissions can be submitted; the undo of the step to `submitted` is always
  refused, because the submission time is not among the changed fields; a status
  can be changed under a deleted submission; a current version can be chosen, and
  a candidate confirmed between existing memberships, under a deleted paper.
* *Directory*: a first migration that fails leaves an empty database file, which
  the next `inspect` calls invalid; a workspace of an older revision cannot be
  chosen; a start adds the workspace tables to the SQLite file of another program it
  finds in the active directory; a pending directory that is dropped ends in the error page although the
  active one is fine; two processes may run at once.
* *Files*: of two items with one content copied at once the loser fails with
  `SNAPSHOT_TARGET_EXISTS` and leaves its staging file; staging files of a crash
  stay for ever.
* *Detection*: detected directions of three snapshots may form a cycle, which only
  the check at confirmation prevents; a rule with continuity in the opposite
  direction is listed among the matching ones.

## 6. Proofs

Every proof of an invariant is `Init => Inv`, `Inv /\ [Next]_vars => Inv'` with one
step per action, for a conjunction of named parts.

### 6.1 ProtectedCommandProofs

For every set of commands and rows, any number of workers at once, any number of
restarts and any interruptions: `TypeCorrect`, `Inductive`, the safety invariants
`AtMostOnce`, `Truthful`, `Protected`, `SlotsAgree`, `ImagesPredate`,
`ImageSurvives`, and `Refinement`, `Spec => Ledger!Spec`. Assumptions: `Null` is no
command and the bounds are numbers. `IndInv` strengthens the safety invariants by
four conjuncts:

* `InFlightIsRunning`: a worker exists only for a command whose row is running,
  so no second worker can commit a key that is final;
* `ImagesAreOld`: an image contains no more of the log than there is. Without it
  the image a worker copies could be assumed to hold changes yet to come, and
  `ImagePredatesOwner` would not survive `Commit`;
* `RotationIsPrepared`: a rotating worker has a verified staging directory and
  an empty retired one, so that a rename moves an image rather than nothing;
* `ImageIsKept`: some image is where no running worker is about to delete it.
  `SomeImageSurvives` alone does not survive `DropRetired`, since the image it
  speaks of could be the one dropped.

`Advances` is the part of `HandleFinishes` that needs no fairness. A handle the user
sees running always has a command in flight (`RunningHandleIsInFlight`), and
`StepsLeft` counts what that command has to do: at most nine steps, from the queued
worker to the two transactions of its completion. No step of another command, of the
user or of the machine increases the count, and every step of its worker, or of the
main thread for it, decreases it (`PipelineAdvances`). There is no retry, and two
commands cannot hold each other up: the main thread is only ever busy with a command
whose worker has completed (`InFlightIsRunning`).

The second part is about `OverlapSpec` of `CommandOverlap`: the same pipeline with a
history variable. It assumes nothing about how many commands are in flight, because
the code enforces nothing; `overlap` records it instead. It is `"now"` from the moment
two commands are in flight until the pipeline is empty again, `"past"` from then on, and
`"none"` again when a command that was alone has committed. The theorems are
`GenerationsAreOrdered`, `OwnImageFirst`, `CurrentKept`, `LastStateRestored`
and `UpdatesKept`, for any number of commands, workers, cancellations, faults and
restarts. `UpdatesKept` says of `NoLostUpdate`, which the run `FindLostUpdate` refutes,
that the lost update needs another command in flight and an editor that reads the row
again. They rest on `OverlapInv` (theorem `OverlapInductive`), inductive beside
`IndInv`, in three layers:

* at any time (`AnyTimeInv`). `NoImageYet`: a command has no image before its worker
  has copied the database. `GenerationsFollow`: no generation in use is more than one
  ahead of the registered ones. Without it a staging directory left by an overlap could
  carry a generation that a later, lone command would not reach, and that command would
  not end the consequences of the overlap;
* while nobody overlaps (`AloneInv`). `OneInFlight`; `GenerationIsFresh`: the generation
  read on the click is above every registered point until its own command registers it,
  and the newest from then on. The read and the registration are apart, which is where
  two commands collide. `RotationIsAlone`: between two renames the worker finds the
  directories as it left them; without it `current` might hold at the end of a rotation
  what another worker put there, and `OwnImageFirst` fails. `VersionsHold`: nothing
  moves the row version a command in flight was submitted against;
* without consequences of an overlap (`OrderInv`). `NewestIsLatest`: the image in
  `current`, or in `previous` while `current` is renamed away, holds the whole log or all
  but its own command's change, and no point is registered beyond it. `StagingIsOrdered`:
  a staging directory newer than every registered point, also one a crash left behind,
  holds the whole log. This is what lets reconciliation promote the newest staging
  directory it finds: one that missed a change has a generation some registered point
  has reached. `NotBehind` and `GenerationsIncrease` are the properties themselves.

The step that is not obvious is `Commit` of a lone command after an overlap
(`CommitHeals`: `overlap` goes from `"past"` to `"none"`): all of `OrderInv` has to be established, not
kept, from what the command found and from `GenerationsFollow`.

### 6.2 ImportParseProofs

For every set of batches, files and contents, every assignment of contents and
parsers to files, any number of restarts and any interruptions: `TypeCorrect`,
`Inductive`, the invariants `FilesBeforeRows`, `LatestAttemptDecides`,
`ImportedOnce`, `ParsedHasDocument`, `BatchTruthful`, `HandleTruthful`, the action
property `Settled` and `Refinement`, `Spec => ImplementsCatalog`. Assumptions:
every item has a content, `Null` is no batch and no item, the bound is a number.
Most steps write no row, so the proofs split on the transactions first
(`OnlyTransactions`); the three ends of an attempt are treated once
(`AttemptEnds`). Six conjuncts strengthen the safety invariants:

* `PipelineIsPlaced`: a worker is out only while a callback waits for it, and the
  active item is pending while it is imported and imported while it is parsed.
  Not even the type invariant is inductive without it: a callback would index
  the rows with no item at all;
* `AttemptIsOpen`: the attempt under way is the last of its artifact. Without it
  closing an attempt could overwrite an older one;
* `ListsMirrorRows`: the lists the callbacks keep in memory say of the batch what
  its rows say. `finalize` reads the lists only, so `BatchOutcomeIsTruthful`
  rests on it;
* `CancelIsTraced`: the loops that end a cancelled batch have dropped an item or
  recorded a failure, so that no cancelled handle belongs to a completed batch;
* `ArtifactsAreStored` and `ItemsHaveBatches`: an artifact has a snapshot, so its
  success is a step from stored to parsed in `ContentCatalog`; an item belongs to
  a batch that exists, so a new batch starts with none.

Three more theorems say what holds when no step fails. With faults both properties
are false (the finding on cancelled imports, section 5), so the assumptions are on
`Interruption` and as weak as TLC found them: `CancelledTogether` excludes faults
only, `FinishedCloses` restarts too, since a process that ends leaves its batch open
for good.

* `Prompt` (`CancelIsPrompt`): no callback goes on past a cancellation, so a
  cancelled parse loop always has an item to drop. The handle alone does not say
  enough: `CancelledHandleCancelsBatch` is kept by the last step of a loop only
  because of what the loop did before;
* `NothingLeftOpen`: an artifact is running only while its own attempt is under
  way, and a finished handle has no callback left.

Two theorems are the part of `HandleFinishes` that needs no fairness. `Advances`: an
import of n files takes at most 11 n + 5 steps, with any interruptions. `StepsLeft`
weighs the files not tried yet, the imported files not taken up by the parse loop
and the place of the callback and its worker; every step of the pipeline decreases
it and a cancellation leaves it alone. The weights are the longest way from one turn
of a loop to the next; the only assumption is that there are finitely many files.
So a handle that does not finish has stopped rather than gone round in a circle.
`StopsOnException` says where it can stop, with no assumption on contents or
interruptions: a running handle has a callback to come unless the pipeline is `stuck`,
and it is `stuck` only when the file the parse loop stands at was parsed before (the
finding on equal contents) or after a database error in a callback. Nothing else leaves
a batch standing, neither a failed worker, nor a cancellation, nor a restart.

### 6.3 MonitoringProofs

For any roots, paths, runs, capacity, number of attempts and sessions:
`TypeCorrect`, `SettledIsCurrent`, `AttemptsAgree`, `NoticedTraced` and the action
property `NoLatePage`. Assumptions: finitely many roots, `Null` and the reasons of a run are
nothing else, the bounds are positive. The core is `SettledChecks`: beside the two
invariants it says which attempt `exec` may hold and that a copied file whose
check is still importing has not changed since (`AttemptOK`); any event or page for
the file takes the check out of importing, which is why `ImportedIsCurrent` needs
no lock. The types of runs, reasons and queue are separate conjuncts with a lemma
each.

`NoticedTraced` proves `NoticedIsTraced`, that no change an observer noticed is
forgotten, for any number of sessions and every interruption. The property is not
inductive: it follows a change through the queue, the overflow mark, the buffer of a
shutdown, the runs and the decisions of the next start, and at several of them only
says that the root will be looked at. `Traces` strengthens it:

* `Traced(p)` replaces what `NoticedIsTraced` says of a root that is not active by
  what each status promises: an overflow, an error and a removal mark the root
  itself, and a paused root is at least at the generation of its session, so that
  resuming it puts it ahead and the next start compares it;
* `PassedIsHeld`: a change of this session that a run of this session has passed
  came after the scan, so its event is still in memory. Otherwise the end of a run
  could take away the only trace of a change, and the worker's page, scanned before
  the event and recorded after it, is exactly that order;
* `MemoryFitsStage` and `DrainedIfFlushed`: what memory holds at each stage of a
  shutdown, and that one that still counts as a success has joined the observers and
  emptied the queue. A clean marker is written over nothing else;
* `DueFits`: a comparison the start asked for belongs to this session and is
  outstanding at a shutdown only where none may begin; `RowsAgree`: runs, pages and
  changes belong to roots that exist.

The proof splits on where a step is in a session: the begin reads the rows and
decides (`BeginKeepsTraces`), the end takes the memory away (`EndKeepsTraces`), and
everything between keeps the session's generation (`WithinKeepsTraces`), where a
lemma per kind of state says what may move (`ScanReads`, `RecordMoves`, `DueMoves`,
`StatusMoves`, `MemoryStep`, `ChangeIsHeld`).

### 6.4 WorkspaceProofs

For any papers, ideas, submissions, snapshots, candidates, contents and
operations, any number of commands in flight and any database
`StartingDatabases` admits: `TypeCorrect`, `CurrentIsUsable`, `SubmittedIsUsable`,
`GraphIsSound`, `ConfirmedOnce`, `AuditIsComplete` and the action property
`UndoIsExact`. The argument:

* `Known(e, r)`: r is a row e had at some time, and if the row versions agree it
  is the row e has. Every accepted write counts the row version up (`Advances`), so
  what is known stays known (`KnownStays`). This is what makes the compare-and-set
  of the repository enough: `Sound` says that every builder, whatever it read and
  when, plans from a known row, and `AcceptedIsCurrent` that an accepted mutation
  was planned from the present one.
* `LogOK`: what the log keeps of a command in flight is enough for its builder to
  be sound when it runs (`Planned`), committed changes are known (`Audited`), and no
  two commands in flight create one identity (`CreatesApart`).
* `TablesOK` is the shape of the tables; `OneRelation` is `DecisionHasOneRelation`
  without the cardinality.
* `AcyclicAdd` is the graph lemma: a relation from later to earlier keeps a graph
  acyclic when some closed set holds earlier and not later. `Reachable` is defined
  by closed sets for that reason, and `Acyclic` by sets without a sink.

### 6.5 SnapshotCopyProofs

For any items, bytes, number of chunks, writes and faults: `Inductive`,
`CopiesAreTrue`, `SnapshotsStay`, `MaterializedHolds`. `CopyInv` says that the
accepted prefix is a prefix of the file that was opened unless its stamp has moved,
and that what is staged is what was hashed; the three stats then give
`CopyIsTheSource`, with or without file identities.

### 6.6 DataDirectoryProofs

`TypeCorrect` for any number of processes; `WorksInActive`, `ValidatedActivation`
and `DataUntouched` under the assumption `OneProcess`, for any directories, starts
and faults. `Ready` and `Steady` say at every place of a start or a choice what the
process has read still says of the file, which only a single process may rely on:
nothing in the code keeps a second one from starting.

### 6.7 TaskPolicy

No behaviour, so statements about every input: a decision and the next lease agree
(`DecisionsMeetLeases`), attempts end (`LastAttemptIsFinal`), waits grow up to the
third attempt in spite of jitter and may shrink by a minute at most from then on
(`BackoffGrowsUpToTheThird`: 360 s, then 300 s), a file effect is committed with its content after two
steps of recovery unless that asks for a retry (`FileEffectRecovers`; `Follow` is the
executor, external), consent is monotone and needed (`ConsentIsMonotone`,
`NetworkNeedsConsent`, `WritesAreApproved`), and every retry of a
registered error code has a delay of its own (`RetriesUseTheirDelay`).

### 6.8 CandidateDetectionProofs

`Symmetric` and `RuleFitsDirection` for any two snapshots and every combination of
evidence, where TLC has one pair, and `NearestCompared` for every finite index, any
keys and limits. The assumptions are `Work` (comparisons are of pairs with evidence,
corpora are indexes with a target, and none is both) and `Limits` (the index is
finite, hashes are ordered, a limit is a number).

`RenamedEvidence` and `RenamedDetection` carry the exchange of the two snapshots
through every layer of the detector: the basis that decides, the direction, the
rules, the primary rule. `RuleAndDirection` goes through the primary rules: the code
chooses the direction by the first basis observed and the rule by the first match,
from two lists in different orders, and the theorem says that the two choices never
contradict each other.

`NearestCompared` is the correctness of a loop inside two truncations. The invariant
of the loop (`Found`) says what has been selected from a group, whose records are
now either passed or ahead: the foremost of those passed, all of which are nearer than
all that is ahead. An iteration keeps it because the two nearest buckets are taken
together exactly when they are at one distance (`NearestTimes`), so that the order
of hashes inside them is the order by distance; it fills what is left of the limit
(`ForemostGrows`), and what is behind a full limit is never among the foremost
(`ForemostIsFull`). `ForemostOfParts` says that a limit for every key and again for
their union is one limit for the union: were a dropped element to belong to the
result, its group would hold as many elements before it. Both rest on
`ForemostFills`, either all elements of a finite set are among its n foremost or at
least n are, proved by a least counterexample under inclusion of what stands before it.

### 6.9 Model-checked only

* Liveness: `HandleFinishes` in both pipelines. TLAPS treats neither fairness nor
  ENABLED. What is proved of it is the variant: a running handle has somebody to work
  for it (`RunningHandleIsInFlight`; in the import pipeline up to the two exceptions of
  `StopsOnException`), and every step of theirs brings
  it nearer to its end (`Advances` in 6.1 and 6.2). That these steps can be taken and
  are taken is what TLC checks.
* The properties of section 5 that TLC refutes (`NextGenerationIsAccepted`,
  `SlotsNameImages`, `LostEventsAreReconciled` and the rest): they are false. Theorems say
  how far the promises behind some of them hold: those on overlaps (6.1),
  `CancelledTogether` for `CancelledHandleCancelsBatch` (6.2), `ValidatedActivation` for
  `SwitchesAreInspected` (6.6).

Every other property of a passing run is stated by a theorem.

No operator of the models is recursive, so no induction over data is left out: loops
are steps of a behaviour, and what they compute is an invariant.

The type invariants are not among the properties of the runs: they are proved.

## 7. Not modelled

`PROJECT.json` names every part with its reason.

* Parsers, AI analysis, queries, widgets, logging and seed have no protocol of
  their own. Authorization compares one request with one context.
* `supersede_relation` and `reassign_submission_paper` have no caller; the version
  graph and the entity commands are listed as partly modelled for that reason.
* The schema is in the models where they need it: unique indexes and compare-and-set
  are guards. The data moves of the migrations are in `StartingDatabases` only.
* `path_safety.py` keeps no state; paths are never reparse points in the models.
* Two processes over one data directory: for `DataDirectory` only types are proved
  then; the other models have one process.
* The times of quiet windows, leases and back-offs: a timer may fire whenever its
  state allows it.

-------------------------- MODULE ProtectedCommand --------------------------
(***************************************************************************)
(* The protected command pipeline of the research workspace: how a user    *)
(* edit becomes a row of application_commands, a verified recovery image   *)
(* on disk, a recovery slot in the database and finally a domain write.    *)
(*                                                                         *)
(* Three kinds of actor interleave here:                                   *)
(*   - the Qt main thread, which owns every database transaction           *)
(*     (ProtectedCommandPipeline, CommandDispatcher, SqlWriteCoordinator); *)
(*   - one worker thread per command in flight, which owns the recovery    *)
(*     directory (OperationWorker.run, SQLiteRecoveryAdapter);             *)
(*   - the user, who submits, resubmits, cancels and closes the program,   *)
(*     and the machine, which fails file operations and stops at any step. *)
(*                                                                         *)
(* A database transaction is one step.  Every rename of the rotation is a  *)
(* step of its own, because the process can stop, and another worker can   *)
(* run, between any two of them.                                           *)
(***************************************************************************)
EXTENDS Naturals, Sequences, FiniteSets

CONSTANTS
    Command,        \* command ids; the user interface uses the id as the key
    Entity,         \* domain rows protected by row_version
    Null,           \* no command, no row
    Interruption,   \* subset of {"cancel", "fault", "restart"} that may occur
    MaxInFlight,    \* bound: workers alive at the same time
    MaxGeneration,  \* bound: largest recovery generation
    MaxRestarts     \* bound: number of process restarts

ASSUME NullAssumption == Null \notin Command
ASSUME InterruptionAssumption == Interruption \subseteq {"cancel", "fault", "restart"}
ASSUME BoundAssumption ==
    MaxInFlight \in Nat /\ MaxGeneration \in Nat \ {0} /\ MaxRestarts \in Nat

VARIABLES
    (* Database: survives a restart. *)
    status,      \* application_commands.status, "absent" when there is no row
    target,      \* the domain row the command edits (canonical_request)
    pointGen,    \* promoted_generation of the command's recovery point, 0 = none
    pointState,  \* recovery_points.physical_state of that point
    slot,        \* recovery_slots: slot name -> the command owning the point
    version,     \* row_version of every domain row
    log,         \* the domain transactions, in commit order (audit_changes)
    (* The recovery directory: survives a restart. *)
    current, previous,   \* recovery/current and recovery/previous
    staging, retired,    \* recovery/staging-<point id>, recovery/retired-<id>
    (* Memory of the process: lost at a restart. *)
    wpc,         \* worker thread: next step, or the terminal signal it queued
    flagged,     \* commands whose worker's cancellation flag is set
    handle,      \* ImportParseHandle.status shown to the user
    cancelled,   \* commands whose ImportParseHandle was cancelled
    job,         \* the frozen plan of the pipeline and its closures
    main,        \* command whose completion the main thread is persisting
    phase,       \* "closing" once ApplicationServices.close has started
    restarts     \* number of restarts so far (bound only)

database == <<status, target, pointGen, pointState, slot, version, log>>
files    == <<current, previous, staging, retired>>
memory   == <<wpc, flagged, handle, cancelled, job, main, phase>>
vars     == <<database, files, memory, restarts>>

(* What a worker thread reads at most, and never writes.                    *)
mainSide == <<database, flagged, handle, cancelled, job, main, phase, restarts>>

-----------------------------------------------------------------------------
(* Directories.  A directory that holds no verified manifest is            *)
(* "unverified": the empty ones made at startup and a staging directory    *)
(* still being written.  An image is identified by the point's owner, its  *)
(* generation and the prefix of the log its database copy contains.        *)

Absent     == [kind |-> "absent"]
Unverified == [kind |-> "unverified"]
Image(c, g, n) == [kind |-> "image", owner |-> c, gen |-> g, upTo |-> n]

Images    == [kind : {"image"}, owner : Command, gen : Nat, upTo : Nat]
Directory == {Absent, Unverified} \cup Images
IsImage(d) == d.kind = "image"

(* Every directory of recovery/.                                            *)
Disk == {current, previous} \cup {staging[c] : c \in Command}
                            \cup {retired[c] : c \in Command}

(* _ensure_data_layout: mkdir(exist_ok=True) of recovery/current and        *)
(* recovery/previous at every start.                                        *)
Layout(d) == IF d = Absent THEN Unverified ELSE d

(* os.rename of a directory onto a path: a directory with content refuses   *)
(* it; an empty one is replaced on POSIX and refuses it on Windows (the     *)
(* refusal is the WorkerFault alternative of the same step).                *)
CanRenameOnto(d) == ~IsImage(d)

(* The generation handed to the worker, the row_version captured when the   *)
(* command was submitted, and the row version the mutation is built on: the  *)
(* captured one, or the one build_mutations reads again when it runs (the   *)
(* Paper, Idea and Submission editors).                                     *)
Basis == {"captured", "reread"}
Job   == [gen : Nat, expected : Nat, basis : Basis]
NoJob == [gen |-> 0, expected |-> 0, basis |-> "captured"]

WorkerSteps == {"queued", "copying", "verified",
                "retire", "demote", "promote", "drop"}
Terminals   == {"completed", "failed", "cancelled"}

InFlight == {c \in Command : wpc[c] # "none"}
MainIdle == main = Null

-----------------------------------------------------------------------------
Init ==
    /\ status = [c \in Command |-> "absent"]
    /\ pointGen = [c \in Command |-> 0]
    /\ pointState = [c \in Command |-> "none"]
    /\ slot = [s \in {"current", "previous"} |-> Null]
    /\ version = [e \in Entity |-> 1]
    /\ log = <<>>
    /\ current = Unverified
    /\ previous = Unverified
    /\ staging = [c \in Command |-> Absent]
    /\ retired = [c \in Command |-> Absent]
    /\ wpc = [c \in Command |-> "none"]
    /\ flagged = {}
    /\ handle = [c \in Command |-> "none"]
    /\ cancelled = {}
    /\ target = [c \in Command |-> Null]
    /\ job = [c \in Command |-> NoJob]
    /\ main = Null
    /\ phase = "up"
    /\ restarts = 0

-----------------------------------------------------------------------------
(* Submission, on the main thread.                                          *)

(* SqlRecoveryRepository.next_generation: max(promoted_generation) + 1.     *)
IsNextGeneration(g) ==
    /\ \A c \in Command : pointGen[c] < g
    /\ g = 1 \/ \E c \in Command : pointGen[c] = g - 1

(* Mutation of FreshKey: only a running key is refused.                     *)
FreshKeyMut(c) == status[c] # "running"

(* find_command_by_idempotency finds nothing under the key.                 *)
FreshKey(c) == status[c] = "absent"

(* ProtectedCommandPipeline.start on a new key: the envelope is committed   *)
(* as running, the next generation is read, and a worker is queued.  The    *)
(* generation is read before the worker runs, and nothing reserves it.      *)
Submit(c, e, b) ==
    /\ MainIdle /\ phase = "up"
    /\ Cardinality(InFlight) < MaxInFlight
    /\ wpc[c] = "none"
    /\ FreshKey(c)
    /\ status' = [status EXCEPT ![c] = "running"]
    /\ target' = [target EXCEPT ![c] = e]
    /\ \E g \in 1..MaxGeneration :
          /\ IsNextGeneration(g)
          /\ job' = [job EXCEPT ![c] = [gen |-> g, expected |-> version[e], basis |-> b]]
    /\ wpc' = [wpc EXCEPT ![c] = "queued"]
    /\ handle' = [handle EXCEPT ![c] = "running"]
    /\ UNCHANGED <<pointGen, pointState, slot, version, log, files,
                   flagged, cancelled, main, phase, restarts>>

(* The same key again, once its pipeline has let go of it: a committed      *)
(* command is answered with its stored result on a new handle.  Every other *)
(* resubmission is refused without a write: the key is active, or its row   *)
(* is failed, or running with nobody left to run it.                        *)
Replay(c) ==
    /\ MainIdle /\ phase = "up"
    /\ wpc[c] = "none"
    /\ status[c] = "committed"
    /\ handle' = [handle EXCEPT ![c] = "completed"]
    /\ UNCHANGED <<database, files, wpc, flagged, cancelled, job, main, phase, restarts>>

(* ImportParseHandle.cancel, from closing the editor while it is saving:  *)
(* it marks the handle and sets the flag the worker polls.                  *)
Cancel(c) ==
    /\ "cancel" \in Interruption
    /\ MainIdle /\ phase = "up"
    /\ handle[c] = "running" /\ c \notin cancelled
    /\ cancelled' = cancelled \cup {c}
    /\ flagged' = flagged \cup {c}
    /\ UNCHANGED <<database, files, wpc, handle, job, main, phase, restarts>>

-----------------------------------------------------------------------------
(* The worker thread: OperationWorker.run around create_verified_recovery.  *)

At(c, step) == wpc[c] = step
Goto(c, step) == wpc' = [wpc EXCEPT ![c] = step]

(* Mutation of StartWorker: the generation in current is not compared.      *)
StartWorkerMut(c) ==
    /\ At(c, "queued")
    /\ IF c \in flagged
       THEN Goto(c, "cancelled") /\ UNCHANGED staging
       ELSE Goto(c, "copying") /\ staging' = [staging EXCEPT ![c] = Unverified]
    /\ UNCHANGED <<mainSide, current, previous, retired>>

(* run returns WorkerCancelled before any work when the flag is set.  The   *)
(* image in current stands in the way when its generation is not older than *)
(* the requested one: its own command may reuse it, any other one fails.    *)
StartWorker(c) ==
    /\ At(c, "queued")
    /\ \/ /\ c \in flagged
          /\ Goto(c, "cancelled")
          /\ UNCHANGED staging
       \/ /\ c \notin flagged
          /\ IsImage(current) /\ current.gen >= job[c].gen
          /\ Goto(c, IF current.owner = c THEN "completed" ELSE "failed")
          /\ UNCHANGED staging
       \/ /\ c \notin flagged
          /\ IsImage(current) => current.gen < job[c].gen
          /\ staging' = [staging EXCEPT ![c] = Unverified]
          /\ Goto(c, "copying")
    /\ UNCHANGED <<mainSide, current, previous, retired>>

(* The online backup, its manifest and their verification.  The copy holds  *)
(* the database as the main thread has committed it so far.                 *)
Backup(c) ==
    /\ At(c, "copying")
    /\ staging' = [staging EXCEPT ![c] = Image(c, job[c].gen, Len(log))]
    /\ Goto(c, "verified")
    /\ UNCHANGED <<mainSide, current, previous, retired>>

(* The last look at the flag before the rotation: RECOVERY_POINT_CANCELLED  *)
(* removes staging, and the worker reports any exception as a failure.      *)
CheckCancelled(c) ==
    /\ At(c, "verified")
    /\ \/ /\ c \in flagged
          /\ staging' = [staging EXCEPT ![c] = Absent]
          /\ Goto(c, "failed")
       \/ /\ c \notin flagged
          /\ Goto(c, "retire")
          /\ UNCHANGED staging
    /\ UNCHANGED <<mainSide, current, previous, retired>>

(* Mutation of RetirePrevious: the previous image is removed at once.       *)
RetirePreviousMut(c) ==
    /\ At(c, "retire")
    /\ previous' = Absent
    /\ Goto(c, "demote")
    /\ UNCHANGED <<mainSide, current, staging, retired>>

(* _rotate, one step per rename.                                            *)
RetirePrevious(c) ==
    /\ At(c, "retire")
    /\ retired' = [retired EXCEPT ![c] = previous]
    /\ previous' = Absent
    /\ Goto(c, "demote")
    /\ UNCHANGED <<mainSide, current, staging>>

DemoteCurrent(c) ==
    /\ At(c, "demote")
    /\ \/ current = Absent /\ UNCHANGED previous
       \/ current # Absent /\ CanRenameOnto(previous) /\ previous' = current
    /\ current' = Absent
    /\ Goto(c, "promote")
    /\ UNCHANGED <<mainSide, staging, retired>>

PromoteStaging(c) ==
    /\ At(c, "promote")
    /\ CanRenameOnto(current)
    /\ current' = staging[c]
    /\ staging' = [staging EXCEPT ![c] = Absent]
    /\ Goto(c, "drop")
    /\ UNCHANGED <<mainSide, previous, retired>>

(* rmtree of the retired directory; back in run, the flag is read again and *)
(* a command cancelled by then is reported cancelled, rotated as it is.     *)
DropRetired(c) ==
    /\ At(c, "drop")
    /\ retired' = [retired EXCEPT ![c] = Absent]
    /\ Goto(c, IF c \in flagged THEN "cancelled" ELSE "completed")
    /\ UNCHANGED <<mainSide, current, previous, staging>>

(* Mutation of WorkerFault: the error is swallowed and the point reported.  *)
WorkerFaultMut(c) ==
    /\ "fault" \in Interruption
    /\ wpc[c] \in WorkerSteps \ {"queued"}
    /\ Goto(c, "completed")
    /\ UNCHANGED <<mainSide, files>>

(* An OSError at any file operation, or a copy that does not verify: the    *)
(* handler removes staging if it is still there and undoes no rename.       *)
WorkerFault(c) ==
    /\ \/ "fault" \in Interruption
       \/ At(c, "demote") /\ current # Absent /\ ~CanRenameOnto(previous)
       \/ At(c, "promote") /\ ~CanRenameOnto(current)
    /\ wpc[c] \in WorkerSteps \ {"queued"}
    /\ staging' = [staging EXCEPT ![c] = Absent]
    /\ Goto(c, "failed")
    /\ UNCHANGED <<mainSide, current, previous, retired>>

-----------------------------------------------------------------------------
(* The terminal signal, delivered to the main thread.                       *)

(* _finish lets go of the key; worker, flags and plan are garbage then.     *)
Finish(c, outcome) ==
    /\ Goto(c, "none")
    /\ handle' = [handle EXCEPT ![c] = outcome]
    /\ flagged' = flagged \ {c}
    /\ cancelled' = cancelled \ {c}
    /\ job' = [job EXCEPT ![c] = NoJob]

(* mark_command_failed leaves a committed row alone.                        *)
MarkFailed(c) ==
    status' = [status EXCEPT ![c] = IF @ = "committed" THEN @ ELSE "failed"]

(* Mutation of DeliverWithoutCommit: on_cancelled is not connected.         *)
DeliverWithoutCommitMut(c) ==
    /\ MainIdle
    /\ \/ At(c, "failed") /\ Finish(c, "failed")
       \/ At(c, "completed") /\ c \in cancelled /\ Finish(c, "cancelled")
    /\ UNCHANGED <<database, files, main, phase, restarts>>

(* on_failed, on_cancelled, and _completed of a cancelled handle: the       *)
(* handle is finished and the database is not told.                         *)
DeliverWithoutCommit(c) ==
    /\ MainIdle
    /\ \/ At(c, "failed") /\ Finish(c, "failed")
       \/ At(c, "cancelled") /\ Finish(c, "cancelled")
       \/ At(c, "completed") /\ c \in cancelled /\ Finish(c, "cancelled")
    /\ UNCHANGED <<database, files, main, phase, restarts>>

(* Mutation of Activate: the point leaving the previous slot is not         *)
(* superseded.                                                              *)
ActivateMut(c) ==
    /\ MainIdle
    /\ At(c, "completed") /\ c \notin cancelled
    /\ status[c] = "running" /\ pointGen[c] = 0
    /\ pointState' = [d \in Command |->
                        CASE d = c              -> "active_current"
                          [] d = slot["current"] -> "active_previous"
                          [] OTHER              -> pointState[d]]
    /\ slot' = [slot EXCEPT !["previous"] = slot["current"], !["current"] = c]
    /\ pointGen' = [pointGen EXCEPT ![c] = job[c].gen]
    /\ main' = c
    /\ UNCHANGED <<status, target, version, log, files,
                   wpc, flagged, handle, cancelled, job, phase, restarts>>

(* SqlRecoveryRepository.activate, the first transaction of _completed: the *)
(* previous slot's point is superseded, the current one becomes previous,   *)
(* and the new point takes the current slot.                                *)
Activate(c) ==
    /\ MainIdle
    /\ At(c, "completed") /\ c \notin cancelled
    /\ status[c] = "running" /\ pointGen[c] = 0
    /\ pointState' = [d \in Command |->
                        CASE d = c               -> "active_current"
                          [] d = slot["current"]  -> "active_previous"
                          [] d = slot["previous"] -> "superseded"
                          [] OTHER               -> pointState[d]]
    /\ slot' = [slot EXCEPT !["previous"] = slot["current"], !["current"] = c]
    /\ pointGen' = [pointGen EXCEPT ![c] = job[c].gen]
    /\ main' = c
    /\ UNCHANGED <<status, target, version, log, files,
                   wpc, flagged, handle, cancelled, job, phase, restarts>>

(* activate refuses the row or its transaction fails: the row is marked     *)
(* failed, or stays running when that fails too.                            *)
ActivateFails(c) ==
    /\ MainIdle
    /\ At(c, "completed") /\ c \notin cancelled
    /\ "fault" \in Interruption \/ status[c] # "running" \/ pointGen[c] # 0
    /\ MarkFailed(c) \/ ("fault" \in Interruption /\ UNCHANGED status)
    /\ Finish(c, "failed")
    /\ UNCHANGED <<target, pointGen, pointState, slot, version, log,
                   files, main, phase, restarts>>

(* The row_version the mutation carries: that of the row read by            *)
(* build_mutations, or the one captured before the worker ran.              *)
MutationVersion(c) == IF job[c].basis = "reread" THEN version[target[c]] ELSE job[c].expected

(* commit_mutations, the second transaction: mutations, audit rows, events  *)
(* and the committed status together, guarded by the optimistic version.    *)
Commit(c) ==
    /\ main = c
    /\ status[c] = "running" /\ pointGen[c] # 0
    /\ version[target[c]] = MutationVersion(c)
    /\ version' = [version EXCEPT ![target[c]] = @ + 1]
    /\ log' = Append(log, c)
    /\ status' = [status EXCEPT ![c] = "committed"]
    /\ \/ Finish(c, "completed")
       \/ "fault" \in Interruption /\ Finish(c, "failed")
    /\ main' = Null
    /\ UNCHANGED <<target, pointGen, pointState, slot, files, phase, restarts>>

(* Mutation of CommitFails: the handle reports success.                     *)
CommitFailsReportedMut(c) ==
    /\ main = c
    /\ MarkFailed(c)
    /\ Finish(c, "completed")
    /\ main' = Null
    /\ UNCHANGED <<target, pointGen, pointState, slot, version, log,
                   files, phase, restarts>>

(* The transaction is rolled back: a stale version, a dependency conflict   *)
(* the builder or a repository finds, or a database error.                  *)
CommitFails(c) ==
    /\ main = c
    /\ MarkFailed(c) \/ ("fault" \in Interruption /\ UNCHANGED status)
    /\ Finish(c, "failed")
    /\ main' = Null
    /\ UNCHANGED <<target, pointGen, pointState, slot, version, log,
                   files, phase, restarts>>

-----------------------------------------------------------------------------
(* Shutdown, crash and restart.                                             *)

(* ApplicationServices.close: every worker's flag is set and the main       *)
(* thread joins them.  Signals already queued may still be delivered.       *)
Close ==
    /\ "restart" \in Interruption
    /\ MainIdle /\ phase = "up"
    /\ phase' = "closing"
    /\ flagged' = flagged \cup InFlight
    /\ UNCHANGED <<database, files, wpc, handle, cancelled, job, main, restarts>>

(* The process ends and starts again.  After close it waits for its worker  *)
(* threads; a crash waits for nothing.  Startup makes the directory layout  *)
(* and repairs neither application_commands nor the recovery directory.     *)
Restart ==
    /\ "restart" \in Interruption
    /\ restarts < MaxRestarts
    /\ restarts' = restarts + 1
    /\ current' = Layout(current)
    /\ previous' = Layout(previous)
    /\ wpc' = [c \in Command |-> "none"]
    /\ flagged' = {}
    /\ handle' = [c \in Command |-> "none"]
    /\ cancelled' = {}
    /\ job' = [c \in Command |-> NoJob]
    /\ main' = Null
    /\ phase' = "up"
    /\ UNCHANGED <<database, staging, retired>>

-----------------------------------------------------------------------------
WorkerStep(c) ==
    \/ StartWorker(c) \/ Backup(c) \/ CheckCancelled(c)
    \/ RetirePrevious(c) \/ DemoteCurrent(c) \/ PromoteStaging(c) \/ DropRetired(c)
    \/ WorkerFault(c)

Delivery(c) ==
    \/ DeliverWithoutCommit(c) \/ Activate(c) \/ ActivateFails(c)
    \/ Commit(c) \/ CommitFails(c)

UserStep(c) ==
    \/ \E e \in Entity, b \in Basis : Submit(c, e, b)
    \/ Replay(c)
    \/ Cancel(c)

Next ==
    \/ \E c \in Command : WorkerStep(c) \/ Delivery(c) \/ UserStep(c)
    \/ Close
    \/ Restart

Spec == Init /\ [][Next]_vars

(* Threads are scheduled and the event loop delivers what was queued; the   *)
(* user and the machine owe nothing.                                        *)
Fairness == \A c \in Command : WF_vars(WorkerStep(c)) /\ WF_vars(Delivery(c))
LiveSpec == Spec /\ Fairness

-----------------------------------------------------------------------------
(* Properties.                                                              *)

(* Type invariant, in three parts: what a restart keeps in the database and *)
(* on disk, and what it loses.                                              *)
DatabaseTypeOK ==
    /\ status \in [Command -> {"absent", "running", "failed", "committed"}]
    /\ target \in [Command -> Entity \cup {Null}]
    /\ pointGen \in [Command -> Nat]
    /\ pointState \in [Command -> {"none", "active_current", "active_previous", "superseded"}]
    /\ slot \in [{"current", "previous"} -> Command \cup {Null}]
    /\ version \in [Entity -> Nat]
    /\ log \in Seq(Command)

DiskTypeOK ==
    /\ current \in Directory /\ previous \in Directory
    /\ staging \in [Command -> Directory]
    /\ retired \in [Command -> Directory]

MemoryTypeOK ==
    /\ wpc \in [Command -> {"none"} \cup WorkerSteps \cup Terminals]
    /\ flagged \subseteq Command /\ cancelled \subseteq Command
    /\ handle \in [Command -> {"none", "running"} \cup Terminals]
    /\ job \in [Command -> Job]
    /\ main \in Command \cup {Null}
    /\ phase \in {"up", "closing"}
    /\ restarts \in Nat

TypeOK == DatabaseTypeOK /\ DiskTypeOK /\ MemoryTypeOK

Occurs(c) == \E i \in DOMAIN log : log[i] = c

(* A key changes the domain at most once, and the domain changed under it   *)
(* exactly when its row says committed: neither a retry after a restart nor *)
(* a lost acknowledgement applies it twice (find_command_by_idempotency,    *)
(* commit_mutations, _resolve_prepared_failure).                            *)
AppliedAtMostOnce ==
    /\ \A i, j \in DOMAIN log : log[i] = log[j] => i = j
    /\ \A c \in Command : Occurs(c) <=> status[c] = "committed"

(* What the user was told is true of the database: a handle that completed  *)
(* means committed, whether now or in an earlier run it is replayed from,   *)
(* and a cancelled one means never committed (_completed, _finish, prepare).*)
OutcomeIsTruthful ==
    \A c \in Command :
        /\ handle[c] = "completed" => status[c] = "committed"
        /\ handle[c] = "cancelled" => status[c] # "committed"

(* No domain row changes without a recovery point of the same command       *)
(* registered first, whatever failed on the way (commit_mutations after     *)
(* persist_verified_recovery).                                              *)
CommittedHasRecoveryPoint ==
    \A c \in Command : status[c] = "committed" => pointGen[c] # 0

(* Every image on disk predates the change it protects: restoring the image *)
(* of a command never brings that command back, in whatever directory the   *)
(* image ended up and however the workers interleaved.                      *)
ImagePredatesOwner ==
    \A d \in Disk : IsImage(d) => \A i \in DOMAIN log : log[i] = d.owner => d.upTo < i

(* physical_state and recovery_slots tell the same story: the two slots     *)
(* hold different points, and a point is active in a slot exactly when the  *)
(* slot names it (activate rewrites both).                                  *)
SlotsMatchPoints ==
    /\ \A c \in Command :
        /\ pointState[c] = "active_current" <=> slot["current"] = c
        /\ pointState[c] = "active_previous" <=> slot["previous"] = c
        /\ pointState[c] = "none" <=> pointGen[c] = 0
    /\ slot["current"] = Null => slot["previous"] = Null

(* Once a recovery point was registered, some verified image is on disk in  *)
(* every state: between any two renames, after a failed or interrupted      *)
(* rotation, with empty directories recreated at startup (_rotate).         *)
SomeImageSurvives ==
    slot["current"] # Null => \E d \in Disk : IsImage(d)

(* c's domain transaction, the second one of _completed.                    *)
Commits(c) == status[c] # "committed" /\ status'[c] = "committed"

(* recovery/current holds the image of c, taken from exactly the state a    *)
(* transaction would start from: no other domain change lies between.       *)
OverItsOwnImage(c) ==
    /\ IsImage(current)
    /\ current.owner = c
    /\ current.upTo = Len(log)

(* The next five are what the design says of serialized commands.  The code *)
(* does not serialize them, and TLC refutes each; CommandOverlap says what  *)
(* holds of them and when.                                                  *)

(* Generations increase from the previous slot to the current one, and from *)
(* the previous image on disk to the current one (next_generation, the      *)
(* generation check of create_verified_recovery).  Two commands in flight   *)
(* read one generation.                                                     *)
GenerationsIncrease ==
    /\ slot["previous"] # Null => pointGen[slot["previous"]] < pointGen[slot["current"]]
    /\ IsImage(current) /\ IsImage(previous) => previous.gen < current.gen

(* A domain transaction begins only over the image of its own command.  One *)
(* of two commands in flight may find the other's image (_rotate).          *)
CommitsOverItsOwnImage ==
    [][\A c \in Command : Commits(c) => OverItsOwnImage(c)]_vars

(* A domain row is changed only by a command submitted against the          *)
(* row_version it has when the change is made.                              *)
NoLostUpdate ==
    [][\A c \in Command : Commits(c) => version[target[c]] = job[c].expected]_vars

Quiescent == MainIdle /\ InFlight = {}

(* The slots name the images in recovery/current and recovery/previous      *)
(* whenever nothing is in flight (activate after _rotate).  A command       *)
(* cancelled, failed or lost after its rotation leaves slots that name the  *)
(* images from before it.                                                   *)
SlotsNameImages ==
    Quiescent =>
        /\ slot["current"] # Null => IsImage(current) /\ current.owner = slot["current"]
        /\ slot["previous"] # Null => IsImage(previous) /\ previous.owner = slot["previous"]

(* With nothing in flight, recovery/current is not newer than what the      *)
(* database knows: the next command's generation is accepted.               *)
NextGenerationIsAccepted ==
    Quiescent /\ IsImage(current) => \E c \in Command : pointGen[c] >= current.gen

(* Every submitted command's handle finishes, unless the process ends.      *)
HandleFinishes ==
    \A c \in Command : handle[c] = "running" ~> handle[c] # "running"

-----------------------------------------------------------------------------
(* The inductive invariant behind the safety properties above.              *)

(* A command in flight is running in the database, the one the main thread  *)
(* is persisting included.                                                  *)
InFlightIsRunning ==
    /\ \A c \in Command : wpc[c] # "none" => status[c] = "running" /\ job[c].gen # 0
    /\ main # Null => wpc[main] = "completed"

(* An image on disk holds no more of the log than there is, and nothing of  *)
(* its owner's change.                                                      *)
ImagesAreOld ==
    \A d \in Disk : IsImage(d) =>
        /\ d.upTo <= Len(log)
        /\ \A i \in DOMAIN log : log[i] = d.owner => d.upTo < i

(* A worker that rotates has a verified staging directory, and a retired    *)
(* directory that nothing was moved to before its own first rename.         *)
RotationIsPrepared ==
    \A c \in Command :
        /\ wpc[c] \in {"verified", "retire", "demote", "promote"} => IsImage(staging[c])
        /\ status[c] = "absent" \/ wpc[c] \in {"queued", "copying", "verified", "retire"}
              => retired[c] = Absent

(* Some verified image is where no running worker is about to delete it,    *)
(* from the moment the first rotation completes.                            *)
HasKeptImage ==
    \/ IsImage(current) \/ IsImage(previous)
    \/ \E c \in Command : IsImage(retired[c]) /\ wpc[c] # "drop"

ImageIsKept ==
    slot["current"] # Null \/ (\E c \in Command : wpc[c] \in {"drop", "completed"})
        => HasKeptImage

IndInv ==
    /\ TypeOK
    /\ InFlightIsRunning
    /\ AppliedAtMostOnce
    /\ OutcomeIsTruthful
    /\ CommittedHasRecoveryPoint
    /\ SlotsMatchPoints
    /\ ImagesAreOld
    /\ RotationIsPrepared
    /\ ImageIsKept

-----------------------------------------------------------------------------
(* The pipeline implements the ledger of CommandLedger.                     *)

Outcome(s) ==
    CASE s = "absent"    -> "unknown"
      [] s = "running"   -> "open"
      [] s = "committed" -> "applied"
      [] s = "failed"    -> "rejected"

Ledger == INSTANCE CommandLedger
          WITH ledger <- log, outcome <- [c \in Command |-> Outcome(status[c])]

(* Every step of the pipeline, crash and restart included, is a step of the *)
(* ledger or leaves it alone: accepted keys are applied at most once, in    *)
(* the same transaction that makes their outcome final.                     *)
ImplementsLedger == Ledger!Spec

=============================================================================

------------------------------ MODULE Monitoring ------------------------------
(***************************************************************************)
(* Monitored folders: how a change somebody makes to a file becomes an     *)
(* imported snapshot, or is at least remembered until it can be.           *)
(*                                                                         *)
(*   - observer threads put file-system events on a bounded queue; an      *)
(*     event that does not fit leaves only a mark on its root              *)
(*     (WatchdogObserver);                                                 *)
(*   - the main thread ingests events into pending path checks, runs due   *)
(*     checks through the import path, and records pages of reconciliation *)
(*     runs (SqlWriteCoordinator, ImportOrchestrator.execute_pending,      *)
(*     Gate2OperationPipeline);                                            *)
(*   - worker threads scan one page of a run each (BoundedReconciler);     *)
(*   - MonitoringLifecycle opens and closes a session around all that.     *)
(*                                                                         *)
(* No code in src/ schedules these between startup and shutdown.  The      *)
(* steps of that caller are marked external: it takes events as long as    *)
(* their root accepts them, and starts every reconciliation it is told of. *)
(***************************************************************************)
EXTENDS Naturals, Sequences, FiniteSets, SequencesExt

CONSTANTS
    Root,           \* monitoring_roots ids
    Path,           \* paths of files; a pending check and an observation each
    RootOf,         \* the root every path lies under
    Run,            \* reconciliation_runs ids
    Null,           \* nothing
    Capacity,       \* queue_capacity of the observer
    MaxTries,       \* max_stability_attempts
    Interruption,   \* subset of {"crash", "fault", "user", "health", "unplug", "import"}
    MaxSessions,    \* bound: monitoring sessions
    MaxGeneration   \* bound: watcher generation of a root

ASSUME RootAssumption == IsFiniteSet(Root) /\ RootOf \in [Path -> Root] /\ Root \cap Path = {}
ASSUME NullAssumption == Null \notin Run \cup Path
ASSUME RunAssumption ==
    Run \cap {"none", "overflow", "disconnect", "unclean_shutdown", "user_verify"} = {}
ASSUME InterruptionAssumption ==
    Interruption \subseteq {"crash", "fault", "user", "health", "unplug", "import"}
ASSUME BoundAssumption ==
    /\ Capacity \in Nat \ {0} /\ MaxTries \in Nat \ {0}
    /\ MaxSessions \in Nat /\ MaxGeneration \in Nat

VARIABLES
    (* Database: survives a restart. *)
    rootStatus,   \* monitoring_roots.status; "removed" once removed_at is set
    rootGen,      \* monitoring_roots.watcher_generation
    metaGen,      \* workspace_metadata.watcher_generation
    clean,        \* workspace_metadata.clean_shutdown
    check,        \* pending_path_checks.state, "none" without a row
    tries,        \* stability_attempt_count
    observation,  \* source_observations row: does its metadata fit the disk
    owned,        \* paths whose observation has a monitoring_root_id
    run,          \* reconciliation_runs: root, status, reason, checkpoint
    (* Disk. *)
    onDisk,       \* paths with a file
    (* Memory of the process: lost at a restart. *)
    stage,        \* where MonitoringLifecycle is
    unchecked,    \* roots whose folder startup has still to look at
    due,          \* reconciliations startup asked for: a reason, or a run
    alive,        \* roots with a live observer thread
    queue,        \* WatchdogObserver._events
    overflowed,   \* WatchdogObserver._overflowed
    drained,      \* events a draining shutdown holds
    flushed,      \* MonitoringLifecycle.shutdown: success so far
    known,        \* run -> the observations its plan was given, Null = no plan
    page,         \* run -> the page a worker has scanned, Null = none
    exec,         \* execute_pending: the path and step it is at, Null = idle
    (* What the properties remember. *)
    noticed,      \* paths with a change an observer saw and no row knows of
    dirty,        \* paths with a change ingested since their last copy
    resumed,      \* roots with a run left open by an earlier session
    sessions      \* number of sessions begun (bound only)

roots    == <<rootStatus, rootGen, metaGen, clean>>
checks   == <<check, tries, observation, owned>>
intake   == <<alive, queue, overflowed>>
session  == <<stage, unchecked, due, drained, flushed, resumed, sessions>>
runs     == <<run, known, page>>
import   == <<exec, dirty>>
vars     == <<roots, checks, onDisk, intake, session, runs, import, noticed>>

-----------------------------------------------------------------------------
Statuses == {"active", "paused", "disconnected", "degraded",
             "overflow_reconciling", "error"}

(* imported stands for duplicate_content too: which of the two a file is,   *)
(* the store decides.                                                       *)
CheckStates == {"detected", "debouncing", "waiting_for_stability", "importing",
                "imported", "safe_failure", "unstable_source"}

PathsOf(r) == {p \in Path : RootOf[p] = r}
Live == {r \in Root : rootStatus[r] \in Statuses}
Open(r) == {u \in Run : run[u].root = r /\ run[u].status \in {"running", "paused"}}
Reconcilable == {"active", "disconnected", "degraded", "overflow_reconciling"}

(* An event is a change of a path, or the overflow of a root.               *)
EventRoot(e) == IF e \in Root THEN e ELSE RootOf[e]

NoRun == [root |-> Null, status |-> "none", reason |-> "none", done |-> {}]

Init ==
    /\ rootStatus = [r \in Root |-> "absent"]
    /\ rootGen = [r \in Root |-> 0] /\ metaGen = 0 /\ clean = TRUE
    /\ check = [p \in Path |-> "none"] /\ tries = [p \in Path |-> 0]
    /\ observation = [p \in Path |-> "none"] /\ owned = {}
    /\ run = [u \in Run |-> NoRun]
    /\ onDisk \in SUBSET Path
    /\ stage = "down" /\ unchecked = {}
    /\ due = [r \in Root |-> "none"]
    /\ alive = {} /\ queue = <<>> /\ overflowed = {}
    /\ drained = <<>> /\ flushed = TRUE
    /\ known = [u \in Run |-> Null] /\ page = [u \in Run |-> Null]
    /\ exec = Null
    /\ noticed = {} /\ dirty = {} /\ resumed = {}
    /\ sessions = 0

-----------------------------------------------------------------------------
(* Roots: ManageMonitoringRoot and the health transitions.                  *)

(* _baseline: the files under the folder when the root is added.            *)
Baseline(r) == PathsOf(r) \cap onDisk

(* register_monitoring_root: the folder's files get an observation each,    *)
(* one that an import made before is taken over as it is.                   *)
AddRoot(r) ==
    /\ stage = "up"
    /\ rootStatus[r] = "absent"
    /\ rootStatus' = [rootStatus EXCEPT ![r] = "active"]
    /\ rootGen' = [rootGen EXCEPT ![r] = 0]
    /\ owned' = owned \cup Baseline(r)
    /\ observation' = [p \in Path |->
          IF p \in Baseline(r) /\ observation[p] = "none" THEN "current" ELSE observation[p]]
    /\ UNCHANGED <<metaGen, clean, check, tries, onDisk, intake, session, runs, import, noticed>>

(* change_monitoring_root_status and remove_monitoring_root.                *)
PauseRoot(r) ==
    /\ "user" \in Interruption /\ stage = "up"
    /\ rootStatus[r] = "active"
    /\ rootStatus' = [rootStatus EXCEPT ![r] = "paused"]
    /\ UNCHANGED <<rootGen, metaGen, clean, checks, onDisk, intake, session, runs, import, noticed>>

ResumeRoot(r) ==
    /\ "user" \in Interruption /\ stage = "up"
    /\ rootStatus[r] = "paused" /\ rootGen[r] < MaxGeneration
    /\ rootStatus' = [rootStatus EXCEPT ![r] = "active"]
    /\ rootGen' = [rootGen EXCEPT ![r] = @ + 1]
    /\ UNCHANGED <<metaGen, clean, checks, onDisk, intake, session, runs, import, noticed>>

RemoveRoot(r) ==
    /\ "user" \in Interruption /\ stage = "up"
    /\ r \in Live
    /\ rootStatus' = [rootStatus EXCEPT ![r] = "removed"]
    /\ UNCHANGED <<rootGen, metaGen, clean, checks, onDisk, intake, session, runs, import, noticed>>

(* The transitions _apply_monitoring_health allows.                         *)
HealthAllowed(old, new) ==
    CASE old = "active"       -> new \in {"disconnected", "degraded", "overflow_reconciling", "error"}
      [] old = "disconnected" -> new \in {"active", "error"}
      [] old = "degraded"     -> new \in {"active", "disconnected", "overflow_reconciling", "error"}
      [] old = "overflow_reconciling" -> new \in {"active", "degraded", "disconnected", "error"}
      [] old = "paused"       -> new = "error"
      [] OTHER                -> FALSE

(* The status is written with its event in one transaction; a transition    *)
(* that is not allowed raises.                                              *)
ApplyHealth(r, new) ==
    /\ HealthAllowed(rootStatus[r], new)
    /\ rootStatus' = [rootStatus EXCEPT ![r] = new]

(* record_monitoring_health and assess_raw_event_capacity, asked for by the *)
(* external caller while the session is up.  It leaves a root that is       *)
(* reconciling an overflow to record_reconciliation_page.                   *)
RecordHealth(r, new) ==
    /\ "health" \in Interruption /\ stage = "up"
    /\ rootStatus[r] # "overflow_reconciling"
    /\ ApplyHealth(r, new)
    /\ UNCHANGED <<rootGen, metaGen, clean, checks, onDisk, intake, session, runs, import, noticed>>

-----------------------------------------------------------------------------
(* The observer threads.                                                    *)

(* Mutation of Enqueue: nothing is ever too much. *)
EnqueueMut(p) == queue' = Append(queue, p) /\ UNCHANGED overflowed

(* WatchdogObserver._enqueue.                                               *)
Enqueue(p) ==
    IF Len(queue) < Capacity
    THEN queue' = Append(queue, p) /\ UNCHANGED overflowed
    ELSE overflowed' = overflowed \cup {RootOf[p]} /\ UNCHANGED queue

(* Somebody writes a file.  A live observer hears it; between its stop and  *)
(* its join it may or may not.                                              *)
Change(p) ==
    /\ onDisk' = onDisk \cup {p}
    /\ observation' = [observation EXCEPT ![p] = IF @ = "current" THEN "stale" ELSE @]
    /\ \/ /\ RootOf[p] \in alive
          /\ Enqueue(p)
          /\ noticed' = noticed \cup {p}
          /\ page' = [u \in Run |->
                IF page[u] = Null THEN Null ELSE [page[u] EXCEPT !.fresh = @ \ {p}]]
       \/ /\ RootOf[p] \in alive => stage # "up"
          /\ UNCHANGED <<queue, overflowed, noticed, page>>
    /\ UNCHANGED <<roots, check, tries, owned, alive, session, run, known, import>>

-----------------------------------------------------------------------------
(* ingest_raw_file_event, for an event whose root accepts it.               *)

Accepts(e) == rootStatus[EventRoot(e)] = "active"

NewSeries == {"none", "imported", "safe_failure", "unstable_source"}

(* An overflow moves the root; a change moves its check to debouncing, in   *)
(* whatever state it is, and begins a new series of attempts only from the  *)
(* states that ended one.                                                   *)
Ingest(e) ==
    IF e \in Root
    THEN /\ rootStatus' = [rootStatus EXCEPT ![e] = "overflow_reconciling"]
         /\ UNCHANGED <<check, tries, dirty, noticed>>
    ELSE /\ check' = [check EXCEPT ![e] = "debouncing"]
         /\ tries' = [tries EXCEPT ![e] = IF check[e] \in NewSeries THEN 0 ELSE @]
         /\ dirty' = dirty \cup {e}
         /\ noticed' = noticed \ {e}
         /\ UNCHANGED rootStatus

(* External: drain_events(1) and its ingestion, when the root accepts it    *)
(* and, for an overflow, has no run open that could end it too early.  The  *)
(* queue comes before the overflow marks.                                   *)
TakeEvent ==
    /\ stage = "up"
    /\ \/ /\ queue # <<>> /\ Accepts(Head(queue))
          /\ Ingest(Head(queue))
          /\ queue' = Tail(queue) /\ UNCHANGED overflowed
       \/ \E r \in overflowed :
          /\ queue = <<>> /\ Accepts(r) /\ Open(r) = {}
          /\ Ingest(r)
          /\ overflowed' = overflowed \ {r} /\ UNCHANGED queue
    /\ UNCHANGED <<rootGen, metaGen, clean, observation, owned, onDisk, alive,
                   session, runs, exec>>

-----------------------------------------------------------------------------
(* Pending checks: execute_pending, one step per transaction.               *)

(* Mutation of BeginPending: one attempt too many. *)
BeginPendingMut(p) ==
    /\ "import" \in Interruption /\ stage = "up" /\ exec = Null
    /\ check[p] \in {"debouncing", "waiting_for_stability"}
    /\ rootStatus[RootOf[p]] = "active"
    /\ tries[p] <= MaxTries
    /\ check' = [check EXCEPT ![p] = "importing"]
    /\ tries' = [tries EXCEPT ![p] = @ + 1]
    /\ exec' = [path |-> p, step |-> "copy"]
    /\ UNCHANGED <<roots, observation, owned, onDisk, intake, session, runs, dirty, noticed>>

(* External: a check is due.  begin_pending_import counts the attempt.      *)
BeginPending(p) ==
    /\ "import" \in Interruption /\ stage = "up" /\ exec = Null
    /\ check[p] \in {"debouncing", "waiting_for_stability"}
    /\ rootStatus[RootOf[p]] = "active"
    /\ tries[p] < MaxTries
    /\ check' = [check EXCEPT ![p] = "importing"]
    /\ tries' = [tries EXCEPT ![p] = @ + 1]
    /\ exec' = [path |-> p, step |-> "copy"]
    /\ UNCHANGED <<roots, observation, owned, onDisk, intake, session, runs, dirty, noticed>>

(* prepare makes the observation of a file that has none; materialize reads *)
(* the file as it is now, or fails: the source is still being written, or   *)
(* is gone, unsafe or unreadable.                                           *)
Copy ==
    /\ exec # Null /\ exec.step = "copy"
    /\ LET prepared == [observation EXCEPT ![exec.path] = IF @ = "none" THEN "current" ELSE @]
       IN \/ /\ exec.path \in onDisk
             /\ exec' = [exec EXCEPT !.step = "register"]
             /\ dirty' = dirty \ {exec.path}
             /\ observation' = prepared
          \/ /\ "fault" \in Interruption
             /\ \E failure \in {"busy", "unsafe"} : exec' = [exec EXCEPT !.step = failure]
             /\ observation' \in {observation, prepared}
             /\ UNCHANGED dirty
    /\ UNCHANGED <<roots, check, tries, owned, onDisk, intake, session, runs, noticed>>

(* Mutation of Register: the state of the check is not looked at again. *)
RegisterMut ==
    /\ exec # Null /\ exec.step = "register"
    /\ check' = [check EXCEPT ![exec.path] = "imported"]
    /\ owned' = owned \cup {exec.path}
    /\ exec' = Null
    /\ UNCHANGED <<roots, tries, observation, onDisk, intake, session, runs, dirty, noticed>>

(* register_monitored_import: refused once an event or a finding has taken  *)
(* the check out of importing since the attempt began.                      *)
Register ==
    /\ exec # Null /\ exec.step = "register"
    /\ \/ /\ check[exec.path] = "importing"
          /\ check' = [check EXCEPT ![exec.path] = "imported"]
          /\ owned' = owned \cup {exec.path}
          /\ exec' = Null
       \/ /\ check[exec.path] # "importing" \/ "fault" \in Interruption
          /\ exec' = [exec EXCEPT !.step = "unsafe"]
          /\ UNCHANGED <<check, owned>>
    /\ UNCHANGED <<roots, tries, observation, onDisk, intake, session, runs, dirty, noticed>>

(* fail_pending_import: a busy source is tried again until the attempts run *)
(* out; a check that is no longer importing makes it raise.                 *)
Fail ==
    /\ exec # Null /\ exec.step \in {"busy", "unsafe"}
    /\ check' = [check EXCEPT ![exec.path] =
                   IF @ # "importing" THEN @
                   ELSE IF exec.step = "unsafe" THEN "safe_failure"
                   ELSE IF tries[exec.path] >= MaxTries THEN "unstable_source"
                   ELSE "waiting_for_stability"]
    /\ exec' = Null
    /\ UNCHANGED <<roots, tries, observation, owned, onDisk, intake, session, runs, dirty, noticed>>

(* reactivate_pending_check: the user's explicit recheck.                   *)
Recheck(p) ==
    /\ "user" \in Interruption /\ stage = "up"
    /\ check[p] = "unstable_source" /\ RootOf[p] \in Live
    /\ check' = [check EXCEPT ![p] = "debouncing"]
    /\ tries' = [tries EXCEPT ![p] = 0]
    /\ UNCHANGED <<roots, observation, owned, onDisk, intake, session, runs, import, noticed>>

-----------------------------------------------------------------------------
(* Reconciliation runs.                                                     *)

(* What the checkpoint of a run leaves to scan.                             *)
Remaining(u) == (PathsOf(run[u].root) \cap onDisk) \ run[u].done

(* begin_reconciliation: a run of its own for every plan.  The observations *)
(* the root owns now are what its pages are compared with.  External: the   *)
(* caller starts what startup asked for, one run per overflow, and the      *)
(* verification a user asks for.                                            *)
BeginRun(r, u, reason) ==
    /\ stage = "up" /\ run[u] = NoRun
    /\ rootStatus[r] \in Reconcilable
    /\ \/ reason = due[r]
       \/ reason = "overflow" /\ rootStatus[r] = "overflow_reconciling" /\ Open(r) = {}
       \/ reason = "user_verify" /\ "user" \in Interruption /\ due[r] = "none"
    /\ run' = [run EXCEPT ![u] = [root |-> r, status |-> "running", reason |-> reason, done |-> {}]]
    /\ known' = [known EXCEPT ![u] = owned \cap PathsOf(r)]
    /\ due' = [due EXCEPT ![r] = "none"]
    /\ UNCHANGED <<roots, checks, onDisk, intake, stage, unchecked, drained, flushed, resumed,
                   sessions, page, import, noticed>>

(* External: the run startup names goes on from its checkpoint, after       *)
(* resume_reconciliation if it was paused.                                  *)
ResumeRun(r, u) ==
    /\ stage = "up"
    /\ \/ due[r] = u /\ due' = [due EXCEPT ![r] = "none"]
       \/ /\ "user" \in Interruption
          /\ run[u].root = r /\ run[u].status = "paused" /\ known[u] # Null
          /\ UNCHANGED due
    /\ run' = [run EXCEPT ![u].status = "running"]
    /\ known' = [known EXCEPT ![u] = IF @ = Null THEN owned \cap PathsOf(r) ELSE @]
    /\ UNCHANGED <<roots, checks, onDisk, intake, stage, unchecked, drained, flushed, resumed,
                   sessions, page, import, noticed>>

(* pause_reconciliation and cancel_reconciliation; the caller does not      *)
(* start again by itself what the user stopped.                             *)
StopRun(u, status) ==
    /\ "user" \in Interruption /\ stage = "up"
    /\ run[u].status = "running"
    /\ run' = [run EXCEPT ![u].status = status]
    /\ due' = [r \in Root |-> IF due[r] = u THEN "none" ELSE due[r]]
    /\ UNCHANGED <<roots, checks, onDisk, intake, stage, unchecked, drained, flushed, resumed,
                   sessions, known, page, import, noticed>>

(* The observation of a file is missing or does not fit the file.           *)
ChangedSince(u, p) == p \notin known[u] \/ observation[p] = "stale"

(* scan_page, on a worker: some of the files the run has not passed yet, in *)
(* name order, so that names without a file are passed too.  A file is      *)
(* reported when its observation is missing or does not fit.  A full page   *)
(* leaves it to the next one to find that nothing remains.                  *)
ScanPage(u) ==
    /\ stage = "up" /\ run[u].status = "running" /\ known[u] # Null /\ page[u] = Null
    /\ \E seen \in SUBSET Remaining(u), passed \in SUBSET (PathsOf(run[u].root) \ onDisk) :
          \E completed \in {FALSE, seen = Remaining(u)} :
             /\ seen = {} => completed
             /\ page' = [page EXCEPT ![u] =
                   [found |-> {p \in seen : ChangedSince(u, p)},
                    passed |-> seen \cup passed,
                    completed |-> completed,
                    fresh |-> seen]]
    /\ UNCHANGED <<roots, checks, onDisk, intake, session, run, known, import, noticed>>

(* Mutation of RecordPage: the status of the run is not looked at again. *)
RecordPageMut(u) ==
    /\ stage = "up" /\ page[u] # Null
    /\ page' = [page EXCEPT ![u] = Null]
    /\ check' = [p \in Path |-> IF p \in page[u].found THEN "detected" ELSE check[p]]
    /\ dirty' = dirty \cup page[u].found
    /\ noticed' = noticed \ page[u].fresh
    /\ run' = [run EXCEPT ![u].done = @ \cup page[u].passed,
                          ![u].status = IF page[u].completed THEN "completed" ELSE "running"]
    /\ rootStatus' = [rootStatus EXCEPT ![run[u].root] =
                         IF page[u].completed /\ @ = "overflow_reconciling" THEN "active" ELSE @]
    /\ UNCHANGED <<rootGen, metaGen, clean, tries, observation, owned, onDisk, intake,
                   session, known, exec>>

(* record_reconciliation_page: findings become detected checks, the         *)
(* checkpoint moves, and the last page ends the run and the overflow of its *)
(* root, whatever the run was begun for.  A run that is no longer running   *)
(* refuses the page.                                                        *)
RecordPage(u) ==
    /\ stage = "up" /\ page[u] # Null
    /\ page' = [page EXCEPT ![u] = Null]
    /\ \/ /\ run[u].status = "running"
          /\ check' = [p \in Path |-> IF p \in page[u].found THEN "detected" ELSE check[p]]
          /\ dirty' = dirty \cup page[u].found
          /\ noticed' = noticed \ page[u].fresh
          /\ run' = [run EXCEPT ![u].done = @ \cup page[u].passed,
                                ![u].status = IF page[u].completed THEN "completed" ELSE "running"]
          /\ rootStatus' = [rootStatus EXCEPT ![run[u].root] =
                               IF page[u].completed /\ @ = "overflow_reconciling" THEN "active" ELSE @]
       \/ /\ run[u].status # "running" \/ "fault" \in Interruption
          /\ UNCHANGED <<check, dirty, noticed, run, rootStatus>>
    /\ UNCHANGED <<rootGen, metaGen, clean, tries, observation, owned, onDisk, intake,
                   session, known, exec>>

-----------------------------------------------------------------------------
(* Sessions: MonitoringLifecycle, begin_ and complete_monitoring_session.   *)

(* What startup asks for: the open run of a root, or else a new one.        *)
Recovery(r) ==
    IF r \notin Live THEN {"none"}
    ELSE IF Open(r) # {} THEN Open(r)
    ELSE IF rootStatus[r] = "overflow_reconciling" THEN {"overflow"}
    ELSE IF rootStatus[r] = "disconnected" THEN {"disconnect"}
    ELSE IF ~clean \/ rootGen[r] # metaGen THEN {"unclean_shutdown"}
    ELSE {"none"}

BeginSession ==
    /\ stage = "down" /\ sessions < MaxSessions
    /\ due' \in [Root -> Run \cup {"none", "overflow", "disconnect", "unclean_shutdown"}]
    /\ \A r \in Root : due'[r] \in Recovery(r)
    /\ clean' = FALSE
    /\ metaGen' = metaGen + 1
    /\ rootGen' = [r \in Root |-> IF r \in Live THEN metaGen + 1 ELSE rootGen[r]]
    /\ unchecked' = Live
    /\ resumed' = resumed \cup {r \in Live : Open(r) # {}}
    /\ stage' = "starting"
    /\ sessions' = sessions + 1
    /\ UNCHANGED <<rootStatus, checks, onDisk, intake, drained, flushed, runs, import, noticed>>

DueForDisconnect(r) ==
    \/ due[r] = "disconnect"
    \/ \E u \in Run : due[r] = u /\ run[u].reason = "disconnect"

(* startup looks for the folder of every plan.  One that is not there is    *)
(* recorded as disconnected, which raises out of startup when its root does *)
(* not allow it.                                                            *)
CheckRoot(r) ==
    /\ stage = "starting" /\ r \in unchecked
    /\ unchecked' = unchecked \ {r}
    /\ \/ UNCHANGED <<rootStatus, due, stage>>
       \/ /\ "unplug" \in Interruption /\ ~DueForDisconnect(r)
          /\ ApplyHealth(r, "disconnected")
          /\ due' = [due EXCEPT ![r] = "disconnect"]
          /\ UNCHANGED stage
       \/ /\ "unplug" \in Interruption /\ ~DueForDisconnect(r)
          /\ ~HealthAllowed(rootStatus[r], "disconnected")
          /\ stage' = "failed"
          /\ UNCHANGED <<rootStatus, due>>
    /\ UNCHANGED <<rootGen, metaGen, clean, checks, onDisk, intake, drained, flushed,
                   resumed, sessions, runs, import, noticed>>

Started ==
    /\ stage = "starting" /\ unchecked = {}
    /\ stage' = "up"
    /\ UNCHANGED <<roots, checks, onDisk, intake, unchecked, due, drained, flushed,
                   resumed, sessions, runs, import, noticed>>

(* External: an observer for an active root.                                *)
Watch(r) ==
    /\ stage = "up"
    /\ rootStatus[r] = "active" /\ r \notin alive
    /\ alive' = alive \cup {r}
    /\ UNCHANGED <<roots, checks, onDisk, queue, overflowed, session, runs, import, noticed>>

Idle == exec = Null /\ \A u \in Run : page[u] = Null

(* shutdown, from the stop of the observers on; the caller has started what *)
(* startup asked for and is between two operations.                         *)
StopIntake ==
    /\ stage = "up" /\ Idle
    /\ \A r \in Root : due[r] # "none" => rootStatus[r] \notin Reconcilable
    /\ stage' = "draining"
    /\ flushed' = TRUE
    /\ UNCHANGED <<roots, checks, onDisk, intake, unchecked, due, drained, resumed, sessions,
                   runs, import, noticed>>

(* drain_events: everything queued, then one event per overflowed root.     *)
Drain ==
    /\ stage \in {"draining", "redraining"}
    /\ drained' = queue \o SetToSeq(overflowed)
    /\ queue' = <<>> /\ overflowed' = {}
    /\ stage' = IF stage = "draining" THEN "ingesting" ELSE "reingesting"
    /\ UNCHANGED <<roots, checks, onDisk, alive, unchecked, due, flushed, resumed, sessions,
                   runs, import, noticed>>

(* _persist_queued_events: the first refused event ends it, and what was    *)
(* drained with it is lost.                                                 *)
Persist ==
    /\ stage \in {"ingesting", "reingesting"} /\ drained # <<>>
    /\ \/ /\ Accepts(Head(drained))
          /\ Ingest(Head(drained))
          /\ drained' = Tail(drained) /\ UNCHANGED flushed
       \/ /\ ~Accepts(Head(drained)) \/ "fault" \in Interruption
          /\ drained' = <<>> /\ flushed' = FALSE
          /\ UNCHANGED <<rootStatus, check, tries, dirty, noticed>>
    /\ UNCHANGED <<rootGen, metaGen, clean, observation, owned, onDisk, intake, stage,
                   unchecked, due, resumed, sessions, runs, exec>>

(* Mutation of Join: what the observers heard since their stop is not drained. *)
JoinMut ==
    /\ stage = "ingesting" /\ drained = <<>>
    /\ alive' \in IF "fault" \in Interruption THEN SUBSET alive ELSE {{}}
    /\ flushed' = (flushed /\ alive' = {})
    /\ stage' = "reingesting"
    /\ UNCHANGED <<roots, checks, onDisk, queue, overflowed, unchecked, due, drained, resumed,
                   sessions, runs, import, noticed>>

(* The observers are joined; each join may time out.                        *)
Join ==
    /\ stage = "ingesting" /\ drained = <<>>
    /\ alive' \in IF "fault" \in Interruption THEN SUBSET alive ELSE {{}}
    /\ flushed' = (flushed /\ alive' = {})
    /\ stage' = "redraining"
    /\ UNCHANGED <<roots, checks, onDisk, queue, overflowed, unchecked, due, drained, resumed,
                   sessions, runs, import, noticed>>

(* The process ends: its memory is gone.                                    *)
Forget ==
    /\ stage' = "down" /\ unchecked' = {}
    /\ due' = [r \in Root |-> "none"]
    /\ alive' = {} /\ queue' = <<>> /\ overflowed' = {}
    /\ drained' = <<>> /\ flushed' = TRUE
    /\ known' = [u \in Run |-> Null] /\ page' = [u \in Run |-> Null]
    /\ exec' = Null

(* The runner is shut down, which may time out; only a shutdown in which    *)
(* everything succeeded writes the clean marker.                            *)
Complete ==
    /\ stage = "reingesting" /\ drained = <<>>
    /\ \/ flushed /\ clean' = TRUE
       \/ (~flushed \/ "fault" \in Interruption) /\ UNCHANGED clean
    /\ Forget
    /\ UNCHANGED <<rootStatus, rootGen, metaGen, checks, onDisk, run, dirty, noticed,
                   resumed, sessions>>

(* A crash, or the end of a process whose startup raised.                   *)
Crash ==
    /\ stage = "failed" \/ ("crash" \in Interruption /\ stage # "down")
    /\ Forget
    /\ UNCHANGED <<roots, checks, onDisk, run, dirty, noticed, resumed, sessions>>

-----------------------------------------------------------------------------
RootStep ==
    \E r \in Root :
        \/ AddRoot(r) \/ PauseRoot(r) \/ ResumeRoot(r) \/ RemoveRoot(r)
        \/ \E new \in Statuses : RecordHealth(r, new)

CheckStep ==
    \/ \E p \in Path : BeginPending(p) \/ Recheck(p)
    \/ Copy \/ Register \/ Fail

RunStep ==
    \E u \in Run :
        \/ \E r \in Root :
              \/ \E reason \in {"overflow", "disconnect", "unclean_shutdown", "user_verify"} :
                    BeginRun(r, u, reason)
              \/ ResumeRun(r, u)
        \/ \E status \in {"paused", "cancelled"} : StopRun(u, status)
        \/ ScanPage(u) \/ RecordPage(u)

SessionStep ==
    \/ BeginSession \/ (\E r \in Root : CheckRoot(r) \/ Watch(r)) \/ Started
    \/ StopIntake \/ Drain \/ Persist \/ Join \/ Complete

Next ==
    \/ RootStep \/ CheckStep \/ RunStep \/ SessionStep
    \/ (\E p \in Path : Change(p)) \/ TakeEvent
    \/ Crash

Spec == Init /\ [][Next]_vars

(* The most an external caller could do: events taken, checks run, runs     *)
(* begun, resumed and paged whenever possible.                              *)
Fairness ==
    /\ WF_vars(TakeEvent) /\ WF_vars(Copy \/ Register \/ Fail)
    /\ \A p \in Path : SF_vars(BeginPending(p))
    /\ \A u \in Run : WF_vars(ScanPage(u)) /\ WF_vars(RecordPage(u))
LiveSpec == Spec /\ Fairness

-----------------------------------------------------------------------------
(* Properties.                                                              *)

Events == Path \cup Root
Page == [found : SUBSET Path, passed : SUBSET Path, completed : BOOLEAN, fresh : SUBSET Path]
Reasons == {"overflow", "disconnect", "unclean_shutdown", "user_verify"}
Executing == [path : Path, step : {"copy", "register", "busy", "unsafe"}]

(* Type invariant, with the bound of the queue.                              *)
RowsTypeOK ==
    /\ rootStatus \in [Root -> {"absent", "removed"} \cup Statuses]
    /\ rootGen \in [Root -> Nat] /\ metaGen \in Nat /\ clean \in BOOLEAN
    /\ check \in [Path -> {"none"} \cup CheckStates]
    /\ tries \in [Path -> Nat]
    /\ observation \in [Path -> {"none", "current", "stale"}]
    /\ owned \subseteq Path
    /\ run \in [Run -> {NoRun} \cup
                  [root : Root, status : {"running", "paused", "completed", "cancelled"},
                   reason : Reasons, done : SUBSET Path]]

MemoryTypeOK ==
    /\ stage \in {"down", "starting", "failed", "up", "draining", "ingesting",
                  "redraining", "reingesting"}
    /\ unchecked \subseteq Root
    /\ due \in [Root -> Run \cup Reasons \cup {"none"}]
    /\ alive \subseteq Root /\ overflowed \subseteq Root
    /\ queue \in Seq(Path) /\ Len(queue) <= Capacity /\ drained \in Seq(Events)
    /\ flushed \in BOOLEAN
    /\ known \in [Run -> {Null} \cup SUBSET Path]
    /\ page \in [Run -> {Null} \cup Page]
    /\ exec \in {Null} \cup Executing

TypeOK ==
    /\ RowsTypeOK /\ MemoryTypeOK
    /\ onDisk \subseteq Path /\ noticed \subseteq Path /\ dirty \subseteq Path
    /\ resumed \subseteq Root /\ sessions \in Nat

(* A check that says imported was copied after every change the rows know   *)
(* of: an event or a finding that arrives while its attempt is under way    *)
(* sends it back, and the attempt cannot settle it any more                 *)
(* (ingest_raw_file_event, record_reconciliation_page against               *)
(* register_monitored_import).                                              *)
ImportedIsCurrent == \A p \in Path : check[p] = "imported" => p \notin dirty

(* The attempts of a check agree with its state through events that arrive  *)
(* in the middle of a series and restarts: never more than allowed, at      *)
(* least one while importing, some left while waiting and none once it is   *)
(* unstable (begin_pending_import, fail_pending_import, ingest).            *)
AttemptsFitState ==
    \A p \in Path :
        /\ tries[p] <= MaxTries
        /\ check[p] = "importing" => tries[p] > 0
        /\ check[p] = "waiting_for_stability" => tries[p] < MaxTries
        /\ check[p] = "unstable_source" => tries[p] = MaxTries

(* A run the user stopped, or one that is complete, stays as it was,        *)
(* whatever page a worker was scanning meanwhile (record_reconciliation_    *)
(* page against pause_, cancel_ and resume_reconciliation).                 *)
StoppedRunsStay ==
    [][\A u \in Run :
          /\ run[u].status \in {"completed", "cancelled"} => run'[u] = run[u]
          /\ run[u].status = "paused" => run'[u].done = run[u].done]_vars

(* Where a change that an observer saw and no row knows of is still kept.   *)
InMemory(p) ==
    \/ p \in ToSet(queue) \cup ToSet(drained)
    \/ RootOf[p] \in overflowed \cup ToSet(drained)

InRun(p) ==
    \E u \in Open(RootOf[p]) :
        \/ p \notin run[u].done
        \/ page[u] # Null /\ p \in page[u].fresh

(* The session has ended, or will end, without a clean marker.             *)
EndsUnclean == ~flushed \/ (stage = "down" /\ ~clean)

WillReconcile(r) ==
    \/ rootStatus[r] = "overflow_reconciling"
    \/ due[r] \in Reasons
    \/ rootGen[r] # metaGen
    \/ EndsUnclean /\ Open(r) = {}

(* A root nobody reconciles now, or one whose reconciliation was cut short: *)
(* by the user, or by the end of a session, to be resumed from a checkpoint.*)
SetAside(r) ==
    \/ rootStatus[r] # "active"
    \/ \E u \in Run : run[u].root = r /\ run[u].status = "cancelled"
    \/ r \in resumed
    \/ stage \notin {"starting", "up"} /\ Open(r) # {}

(* No change an observer saw is forgotten: until a row knows of it, its     *)
(* event is held, or its overflow is, or some reconciliation has still to   *)
(* pass its path; in particular a clean marker never hides one (_enqueue,   *)
(* drain_events, shutdown, begin_monitoring_session, record_reconciliation_ *)
(* page).                                                                   *)
NoticedIsTraced ==
    \A p \in noticed :
        \/ InMemory(p) \/ InRun(p) \/ WillReconcile(RootOf[p]) \/ SetAside(RootOf[p])

(* The same without the exception for runs left open by an earlier session: *)
(* an unclean end, or an overflow, is followed by a reconciliation of all   *)
(* that was lost.                                                           *)
LostEventsAreReconciled ==
    \A p \in noticed :
        rootStatus[RootOf[p]] = "active" /\ stage = "up" =>
            InMemory(p) \/ InRun(p) \/ WillReconcile(RootOf[p])

(* What reconciliation finds does not wait for ever while the application  *)
(* runs and executes every check it may (record_reconciliation_page,        *)
(* begin_pending_import).                                                   *)
FindingsAreImported ==
    \A p \in Path :
        check[p] = "detected" ~> (check[p] # "detected" \/ stage # "up")

=============================================================================

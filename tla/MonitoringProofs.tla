-------------------------- MODULE MonitoringProofs --------------------------
(***************************************************************************)
(* Proofs about Monitoring, for any roots, paths, runs and bounds: types,  *)
(* what a settled check says, how many attempts it took, that a run that   *)
(* was stopped takes no late page, and that no change is forgotten.        *)
(***************************************************************************)
EXTENDS Monitoring, FiniteSetTheorems, TLAPS

-----------------------------------------------------------------------------
(* Pending checks *)

\* What holds of the check of every path.
ChecksOK ==
    /\ check \in [Path -> {"none"} \cup CheckStates]
    /\ tries \in [Path -> Nat]

\* The attempt under way, and whether its copy is still of the latest change.
AttemptOK ==
    exec # Null =>
        /\ exec \in Executing
        /\ exec.step = "register" /\ check[exec.path] = "importing" => exec.path \notin dirty

SettledChecks == ChecksOK /\ AttemptOK /\ ImportedIsCurrent /\ AttemptsFitState

\* The actions that leave every check and every attempt alone.
Unconcerned == UNCHANGED <<check, tries, dirty>> /\ exec' \in {exec, Null}

LEMMA ConcernedActions ==
    ASSUME [Next]_vars
    PROVE  \/ Unconcerned
           \/ TakeEvent \/ Persist
           \/ \E p \in Path : BeginPending(p) \/ Recheck(p)
           \/ Copy \/ Register \/ Fail
           \/ \E u \in Run : RecordPage(u)
<1>1. RootStep => Unconcerned
  BY DEF RootStep, AddRoot, PauseRoot, ResumeRoot, RemoveRoot, RecordHealth, Unconcerned, checks,
         import
<1>2. ASSUME NEW p \in Path, Change(p) PROVE Unconcerned
  BY <1>2 DEF Change, Unconcerned, import
<1>3. RunStep => Unconcerned \/ \E u \in Run : RecordPage(u)
  BY DEF RunStep, BeginRun, ResumeRun, StopRun, ScanPage, Unconcerned, checks, import
<1>4. SessionStep => Unconcerned \/ Persist
  BY DEF SessionStep, BeginSession, CheckRoot, Watch, Started, StopIntake, Drain, Join, Complete,
         Forget, Unconcerned, checks, import
<1>5. Crash => Unconcerned
  BY DEF Crash, Forget, Unconcerned, checks
<1>6. UNCHANGED vars => Unconcerned
  BY DEF vars, Unconcerned, checks, import
<1> QED
  BY <1>1, <1>2, <1>3, <1>4, <1>5, <1>6 DEF Next, CheckStep

LEMMA IngestSettles ==
    ASSUME SettledChecks, NEW e \in Events, Ingest(e), exec' = exec
    PROVE  SettledChecks'
<1> USE DEF SettledChecks, ChecksOK, AttemptOK, ImportedIsCurrent, AttemptsFitState
<1>1. CASE e \in Root
  BY <1>1 DEF Ingest
<1>2. CASE e \notin Root
  <2>1. e \in Path
    BY <1>2 DEF Events
  <2>2. /\ check' = [check EXCEPT ![e] = "debouncing"]
        /\ tries' = [tries EXCEPT ![e] = IF check[e] \in NewSeries THEN 0 ELSE @]
        /\ dirty' = dirty \cup {e}
    BY <1>2 DEF Ingest
  <2>3. ChecksOK'
    BY <2>1, <2>2 DEF CheckStates
  <2>4. AttemptOK'
    BY <2>1, <2>2
  <2>5. ImportedIsCurrent'
    BY <2>1, <2>2
  <2>6. AttemptsFitState'
    <3> SUFFICES ASSUME NEW p \in Path PROVE
          /\ tries'[p] <= MaxTries
          /\ check'[p] = "importing" => tries'[p] > 0
          /\ check'[p] = "waiting_for_stability" => tries'[p] < MaxTries
          /\ check'[p] = "unstable_source" => tries'[p] = MaxTries
      OBVIOUS
    <3> QED
      BY <2>1, <2>2, BoundAssumption
  <2> QED
    BY <2>3, <2>4, <2>5, <2>6
<1> QED
  BY <1>1, <1>2

LEMMA EventsAreEvents ==
    ASSUME queue \in Seq(Path), drained \in Seq(Events)
    PROVE  /\ queue # <<>> => Head(queue) \in Events /\ Tail(queue) \in Seq(Path)
           /\ drained # <<>> => Head(drained) \in Events /\ Tail(drained) \in Seq(Events)
  BY DEF Events

LEMMA AttemptSettles ==
    ASSUME SettledChecks, NEW p \in Path, BeginPending(p) \/ Recheck(p)
    PROVE  SettledChecks'
<1> USE DEF SettledChecks, ChecksOK, AttemptOK, ImportedIsCurrent, AttemptsFitState
<1>1. CASE BeginPending(p)
  <2>1. /\ check' = [check EXCEPT ![p] = "importing"] /\ tries[p] < MaxTries
        /\ tries' = [tries EXCEPT ![p] = @ + 1]
        /\ exec' = [path |-> p, step |-> "copy"] /\ dirty' = dirty
    BY <1>1 DEF BeginPending
  <2> QED
    BY <2>1, BoundAssumption DEF CheckStates, Executing
<1>2. CASE Recheck(p)
  <2>1. /\ check' = [check EXCEPT ![p] = "debouncing"]
        /\ tries' = [tries EXCEPT ![p] = 0]
        /\ exec' = exec /\ dirty' = dirty
    BY <1>2 DEF Recheck, import
  <2> QED
    BY <2>1, BoundAssumption DEF CheckStates
<1> QED
  BY <1>1, <1>2

LEMMA ExecutionSettles ==
    ASSUME SettledChecks, Copy \/ Register \/ Fail
    PROVE  SettledChecks'
<1> USE DEF SettledChecks, ChecksOK, AttemptOK, ImportedIsCurrent, AttemptsFitState
<1>0. exec # Null /\ exec \in Executing /\ exec.path \in Path
  BY DEF Copy, Register, Fail, Executing
<1>1. CASE Copy
  <2>1. check' = check /\ tries' = tries
    BY <1>1 DEF Copy
  <2>2. CASE exec' = [exec EXCEPT !.step = "register"] /\ dirty' = dirty \ {exec.path}
    BY <1>0, <2>1, <2>2 DEF Executing
  <2>3. CASE \E failure \in {"busy", "unsafe"} :
                exec' = [exec EXCEPT !.step = failure] /\ dirty' = dirty
    BY <1>0, <2>1, <2>3 DEF Executing
  <2> QED
    BY <1>1, <2>2, <2>3 DEF Copy
<1>2. CASE Register
  <2>1. tries' = tries /\ dirty' = dirty /\ exec.step = "register"
    BY <1>2 DEF Register
  <2>2. CASE /\ check[exec.path] = "importing"
             /\ check' = [check EXCEPT ![exec.path] = "imported"] /\ exec' = Null
    BY <1>0, <2>1, <2>2 DEF CheckStates
  <2>3. CASE check' = check /\ exec' = [exec EXCEPT !.step = "unsafe"]
    BY <1>0, <2>1, <2>3 DEF Executing
  <2> QED
    BY <1>2, <2>2, <2>3 DEF Register
<1>3. CASE Fail
  <2>1. tries' = tries /\ dirty' = dirty /\ exec' = Null
    BY <1>3 DEF Fail
  <2> DEFINE s == IF check[exec.path] # "importing" THEN check[exec.path]
                  ELSE IF exec.step = "unsafe" THEN "safe_failure"
                  ELSE IF tries[exec.path] >= MaxTries THEN "unstable_source"
                  ELSE "waiting_for_stability"
  <2>2. check' = [check EXCEPT ![exec.path] = s]
    BY <1>3 DEF Fail
  <2> QED
    BY <1>0, <2>1, <2>2, BoundAssumption DEF CheckStates
<1> QED
  BY <1>1, <1>2, <1>3

LEMMA PageSettles ==
    ASSUME SettledChecks, NEW u \in Run, RecordPage(u)
    PROVE  SettledChecks'
<1> USE DEF SettledChecks, ChecksOK, AttemptOK, ImportedIsCurrent, AttemptsFitState
<1>1. tries' = tries /\ exec' = exec
  BY DEF RecordPage
<1>2. CASE check' = check /\ dirty' = dirty
  BY <1>1, <1>2
<1>3. CASE /\ check' = [p \in Path |-> IF p \in page[u].found THEN "detected" ELSE check[p]]
           /\ dirty' = dirty \cup page[u].found
  <2>1. exec # Null => exec.path \in Path
    BY DEF Executing
  <2> QED
    BY <1>1, <1>3, <2>1 DEF CheckStates
<1> QED
  BY <1>2, <1>3 DEF RecordPage

-----------------------------------------------------------------------------
(* Roots and files *)

RootsOK ==
    /\ rootStatus \in [Root -> {"absent", "removed"} \cup Statuses]
    /\ rootGen \in [Root -> Nat] /\ metaGen \in Nat /\ clean \in BOOLEAN

FilesOK ==
    /\ observation \in [Path -> {"none", "current", "stale"}]
    /\ owned \subseteq Path /\ onDisk \subseteq Path

LEMMA HealthKeepsType ==
    ASSUME RootsOK, NEW r \in Root, NEW new \in Statuses, ApplyHealth(r, new)
    PROVE  rootStatus' \in [Root -> {"absent", "removed"} \cup Statuses]
  BY DEF RootsOK, ApplyHealth

LEMMA IngestKeepsRoots ==
    ASSUME RootsOK, NEW e \in Events, Ingest(e)
    PROVE  rootStatus' \in [Root -> {"absent", "removed"} \cup Statuses]
  BY DEF RootsOK, Ingest, Statuses

LEMMA RootsStep ==
    ASSUME RootsOK, queue \in Seq(Path), drained \in Seq(Events), [Next]_vars
    PROVE  RootsOK'
<1> DEFINE Kept == UNCHANGED <<rootGen, metaGen, clean>>
           Statused == rootStatus' \in [Root -> {"absent", "removed"} \cup Statuses]
<1>0. Kept /\ Statused => RootsOK'
  BY DEF RootsOK
<1>1. UNCHANGED roots => RootsOK'
  BY DEF roots, RootsOK
<1>2. RootStep => RootsOK'
  <2>1. ASSUME NEW r \in Root, AddRoot(r) \/ PauseRoot(r) \/ ResumeRoot(r) \/ RemoveRoot(r)
        PROVE  RootsOK'
    <3>1. \E s \in {"active", "paused", "removed"} : rootStatus' = [rootStatus EXCEPT ![r] = s]
      BY <2>1 DEF AddRoot, PauseRoot, ResumeRoot, RemoveRoot
    <3>2. Statused
      BY <3>1 DEF RootsOK, Statuses
    <3>3. \E n \in {0, rootGen[r], rootGen[r] + 1} : rootGen' = [rootGen EXCEPT ![r] = n]
      BY <2>1 DEF AddRoot, PauseRoot, ResumeRoot, RemoveRoot, RootsOK
    <3>4. rootGen' \in [Root -> Nat]
      BY <3>3 DEF RootsOK
    <3>5. UNCHANGED <<metaGen, clean>>
      BY <2>1 DEF AddRoot, PauseRoot, ResumeRoot, RemoveRoot
    <3> QED
      BY <3>2, <3>4, <3>5 DEF RootsOK
  <2>2. ASSUME NEW r \in Root, NEW new \in Statuses, RecordHealth(r, new) PROVE RootsOK'
    BY <1>0, <2>2, HealthKeepsType DEF RecordHealth
  <2> QED
    BY <2>1, <2>2 DEF RootStep
<1>3. CheckStep => UNCHANGED roots
  BY DEF CheckStep, BeginPending, Recheck, Copy, Register, Fail
<1>4. RunStep => RootsOK'
  <2>1. ASSUME NEW u \in Run, RecordPage(u) PROVE RootsOK'
    <3> DEFINE s == IF page[u].completed /\ rootStatus[run[u].root] = "overflow_reconciling"
                    THEN "active" ELSE rootStatus[run[u].root]
    <3>1. CASE rootStatus' = [rootStatus EXCEPT ![run[u].root] = s]
      <4>1. s = rootStatus[run[u].root] \/ s = "active"
        OBVIOUS
      <4>2. Statused
        BY <3>1, <4>1 DEF RootsOK, Statuses
      <4> QED
        BY <1>0, <2>1, <4>2 DEF RecordPage
    <3>2. CASE rootStatus' = rootStatus
      BY <2>1, <3>2 DEF RecordPage, RootsOK
    <3> QED
      BY <2>1, <3>1, <3>2 DEF RecordPage
  <2> QED
    BY <1>1, <2>1 DEF RunStep, BeginRun, ResumeRun, StopRun, ScanPage
<1>5. SessionStep => RootsOK'
  <2>1. ASSUME BeginSession PROVE RootsOK'
    <3>1. rootGen' = [r \in Root |-> IF r \in Live THEN metaGen + 1 ELSE rootGen[r]]
      BY <2>1 DEF BeginSession
    <3>2. metaGen + 1 \in Nat /\ \A r \in Root : rootGen[r] \in Nat
      BY DEF RootsOK
    <3>3. rootGen' \in [Root -> Nat]
      BY <3>1, <3>2
    <3> QED
      BY <2>1, <3>2, <3>3 DEF BeginSession, RootsOK
  <2>2. ASSUME NEW r \in Root, CheckRoot(r) PROVE RootsOK'
    <3>1. "disconnected" \in Statuses
      BY DEF Statuses
    <3>2. Statused
      BY <2>2, <3>1, HealthKeepsType DEF CheckRoot, RootsOK
    <3> QED
      BY <1>0, <2>2, <3>2 DEF CheckRoot
  <2>3. Persist => RootsOK'
    <3>1. Persist => Statused
      BY IngestKeepsRoots, EventsAreEvents DEF Persist, RootsOK
    <3> QED
      BY <1>0, <3>1 DEF Persist
  <2>4. Complete => RootsOK'
    BY DEF Complete, RootsOK
  <2> QED
    BY <1>1, <2>1, <2>2, <2>3, <2>4 DEF SessionStep, Watch, Started, StopIntake, Drain, Join
<1>6. ASSUME NEW p \in Path, Change(p) PROVE UNCHANGED roots
  BY <1>6 DEF Change
<1>7. TakeEvent => RootsOK'
  <2>1. \A r \in overflowed : Ingest(r) => Statused
    BY DEF Ingest, RootsOK, Statuses
  <2>2. TakeEvent => Statused
    BY <2>1, IngestKeepsRoots, EventsAreEvents DEF TakeEvent
  <2> QED
    BY <1>0, <2>2 DEF TakeEvent
<1>8. Crash => UNCHANGED roots
  BY DEF Crash
<1>9. UNCHANGED vars => UNCHANGED roots
  BY DEF vars
<1> QED
  BY <1>1, <1>2, <1>3, <1>4, <1>5, <1>6, <1>7, <1>8, <1>9 DEF Next

LEMMA FilesStep ==
    ASSUME FilesOK, exec # Null => exec \in Executing, [Next]_vars
    PROVE  FilesOK'
<1> DEFINE Kept == UNCHANGED <<observation, owned, onDisk>>
<1>1. Kept => FilesOK'
  BY DEF FilesOK
<1>2. RootStep => FilesOK'
  <2>1. ASSUME NEW r \in Root, AddRoot(r) PROVE FilesOK'
    BY <2>1 DEF AddRoot, Baseline, PathsOf, FilesOK
  <2> QED
    BY <1>1, <2>1 DEF RootStep, PauseRoot, ResumeRoot, RemoveRoot, RecordHealth, checks
<1>3. CheckStep => FilesOK'
  <2>1. exec # Null => exec.path \in Path
    BY DEF Executing
  <2>2. Copy => FilesOK'
    BY <2>1 DEF Copy, FilesOK
  <2>3. Register => FilesOK'
    BY <2>1 DEF Register, FilesOK
  <2> QED
    BY <1>1, <2>2, <2>3 DEF CheckStep, BeginPending, Recheck, Fail
<1>4. RunStep => Kept
  BY DEF RunStep, BeginRun, ResumeRun, StopRun, ScanPage, RecordPage, checks
<1>5. SessionStep => Kept
  BY DEF SessionStep, BeginSession, CheckRoot, Watch, Started, StopIntake, Drain, Persist, Join,
         Complete, checks
<1>6. ASSUME NEW p \in Path, Change(p) PROVE FilesOK'
  BY <1>6 DEF Change, FilesOK
<1>7. TakeEvent => Kept
  BY DEF TakeEvent
<1>8. Crash => Kept
  BY DEF Crash, checks
<1>9. UNCHANGED vars => Kept
  BY DEF vars, checks
<1> QED
  BY <1>1, <1>2, <1>3, <1>4, <1>5, <1>6, <1>7, <1>8, <1>9 DEF Next

-----------------------------------------------------------------------------
(* Reconciliation runs *)

RunRow == [root : Root, status : {"running", "paused", "completed", "cancelled"},
           reason : Reasons, done : SUBSET Path]

\* Nobody has gone on with the run in this session.
Untouched(u) == known[u] = Null /\ page[u] = Null

\* What startup asks for: an open run of that root nobody has gone on with.
Asked(r, u) ==
    run[u] \in RunRow /\ run[u].root = r /\ run[u].status \in {"running", "paused"}
    /\ Untouched(u)

RunsOK ==
    /\ run \in [Run -> {NoRun} \cup RunRow]
    /\ known \in [Run -> {Null} \cup SUBSET Path]
    /\ page \in [Run -> {Null} \cup Page]
    /\ due \in [Root -> Run \cup Reasons \cup {"none"}]
    /\ \A r \in Root, u \in Run : due[r] = u => Asked(r, u)
    /\ stage = "down" => \A u \in Run : Untouched(u)

LEMMA OpenIsRow ==
    ASSUME RunsOK, NEW u \in Run, run[u].status \in {"running", "paused", "completed", "cancelled"}
    PROVE  run[u] \in RunRow
  BY DEF RunsOK, NoRun

LEMMA ReasonsAreNotRuns ==
    ASSUME NEW u \in Run PROVE u \notin Reasons \cup {"none"}
  BY RunAssumption DEF Reasons

LEMMA ChangeKeepsRuns == ASSUME RunsOK, NEW p \in Path, Change(p) PROVE RunsOK'
<1>1. UNCHANGED <<run, known, due, stage>>
  BY DEF Change, session
<1>2. page' \in [Run -> {Null} \cup Page] /\ \A u \in Run : page[u] = Null => page'[u] = Null
  <2>1. CASE page' = page
    BY <2>1 DEF RunsOK
  <2>2. CASE page' = [u \in Run |->
                        IF page[u] = Null THEN Null ELSE [page[u] EXCEPT !.fresh = @ \ {p}]]
    <3>1. ASSUME NEW u \in Run, page[u] # Null PROVE [page[u] EXCEPT !.fresh = @ \ {p}] \in Page
      BY <3>1 DEF RunsOK, Page
    <3> QED
      BY <2>2, <3>1
  <2> QED
    BY <2>1, <2>2 DEF Change
<1> QED
  BY <1>1, <1>2 DEF RunsOK, Asked, Untouched

LEMMA BeginKeepsRuns ==
    ASSUME RunsOK, FilesOK, NEW r \in Root, NEW u \in Run, NEW reason \in Reasons,
           BeginRun(r, u, reason)
    PROVE  RunsOK'
<1>1. /\ run' = [run EXCEPT ![u] = [root |-> r, status |-> "running", reason |-> reason,
                                    done |-> {}]]
      /\ known' = [known EXCEPT ![u] = owned \cap PathsOf(r)]
      /\ due' = [due EXCEPT ![r] = "none"]
      /\ page' = page /\ stage' = stage /\ stage = "up" /\ run[u] = NoRun
  BY DEF BeginRun
<1>2. [root |-> r, status |-> "running", reason |-> reason, done |-> {}] \in RunRow
  BY DEF RunRow
<1>3. owned \cap PathsOf(r) \in SUBSET Path
  BY DEF FilesOK
<1>4. /\ run' \in [Run -> {NoRun} \cup RunRow]
      /\ known' \in [Run -> {Null} \cup SUBSET Path]
      /\ due' \in [Root -> Run \cup Reasons \cup {"none"}]
  BY <1>1, <1>2, <1>3 DEF RunsOK
<1>5. ASSUME NEW q \in Root, NEW w \in Run, due'[q] = w PROVE Asked(q, w)'
  <2>1. q # r /\ due[q] = w
    BY <1>1, <1>5, ReasonsAreNotRuns DEF RunsOK
  <2>2. Asked(q, w)
    BY <2>1 DEF RunsOK
  <2>3. w # u
    BY <1>1, <2>2 DEF Asked, NoRun
  <2> QED
    BY <1>1, <2>2, <2>3 DEF Asked, Untouched, RunsOK
<1> QED
  BY <1>1, <1>4, <1>5 DEF RunsOK

LEMMA ResumeKeepsRuns ==
    ASSUME RunsOK, FilesOK, NEW r \in Root, NEW u \in Run, ResumeRun(r, u)
    PROVE  RunsOK' /\ run[u].status \in {"running", "paused"} /\ run[u] \in RunRow
<1>1. /\ run' = [run EXCEPT ![u].status = "running"]
      /\ known' = [known EXCEPT ![u] = IF @ = Null THEN owned \cap PathsOf(r) ELSE @]
      /\ page' = page /\ stage' = stage /\ stage = "up"
  BY DEF ResumeRun
<1>2. run[u].status \in {"running", "paused"} /\ run[u] \in RunRow
  <2>1. CASE due[r] = u
    BY <2>1 DEF RunsOK, Asked
  <2>2. CASE run[u].status = "paused"
    BY <2>2, OpenIsRow
  <2> QED
    BY <2>1, <2>2 DEF ResumeRun
<1>3. [run[u] EXCEPT !.status = "running"] \in RunRow
  BY <1>2 DEF RunRow
<1>4. run' \in [Run -> {NoRun} \cup RunRow]
  BY <1>1, <1>3 DEF RunsOK
<1>5. known' \in [Run -> {Null} \cup SUBSET Path]
  BY <1>1 DEF RunsOK, FilesOK
<1>6. due' \in [Root -> Run \cup Reasons \cup {"none"}]
  BY DEF RunsOK, ResumeRun
<1>7. ASSUME NEW q \in Root, NEW w \in Run, due'[q] = w PROVE Asked(q, w)'
  <2>1. due[q] = w
    BY <1>7, ReasonsAreNotRuns DEF RunsOK, ResumeRun
  <2>2. Asked(q, w)
    BY <2>1 DEF RunsOK
  <2>3. w # u
    <3>1. CASE due[r] = u /\ due' = [due EXCEPT ![r] = "none"]
      <4>1. q # r
        BY <1>7, <3>1, ReasonsAreNotRuns DEF RunsOK
      <4>2. run[u].root = r
        BY <3>1 DEF RunsOK, Asked
      <4> QED
        BY <2>2, <4>1, <4>2 DEF Asked
    <3>2. CASE known[u] # Null
      BY <2>2, <3>2 DEF Asked, Untouched
    <3> QED
      BY <3>1, <3>2 DEF ResumeRun
  <2> QED
    BY <1>1, <2>2, <2>3 DEF Asked, Untouched, RunsOK
<1> QED
  BY <1>1, <1>2, <1>4, <1>5, <1>6, <1>7 DEF RunsOK

LEMMA StopKeepsRuns ==
    ASSUME RunsOK, NEW u \in Run, NEW status \in {"paused", "cancelled"}, StopRun(u, status)
    PROVE  RunsOK'
<1>1. /\ run' = [run EXCEPT ![u].status = status] /\ run[u].status = "running"
      /\ due' = [r \in Root |-> IF due[r] = u THEN "none" ELSE due[r]]
      /\ known' = known /\ page' = page /\ stage' = stage
  BY DEF StopRun
<1>2. run[u] \in RunRow
  BY <1>1, OpenIsRow
<1>3. [run[u] EXCEPT !.status = status] \in RunRow
  BY <1>2 DEF RunRow
<1>4. run' \in [Run -> {NoRun} \cup RunRow]
  BY <1>1, <1>3 DEF RunsOK
<1>5. due' \in [Root -> Run \cup Reasons \cup {"none"}]
  BY <1>1 DEF RunsOK
<1>6. ASSUME NEW q \in Root, NEW w \in Run, due'[q] = w PROVE Asked(q, w)'
  <2>1. due[q] = w /\ w # u
    BY <1>1, <1>6, ReasonsAreNotRuns
  <2> QED
    BY <1>1, <2>1 DEF Asked, Untouched, RunsOK
<1> QED
  BY <1>1, <1>4, <1>5, <1>6 DEF RunsOK, Untouched

LEMMA ScanKeepsRuns == ASSUME RunsOK, FilesOK, NEW u \in Run, ScanPage(u) PROVE RunsOK'
<1>1. UNCHANGED <<run, known, due, stage>> /\ stage = "up" /\ known[u] # Null
  BY DEF ScanPage, session
<1>2. run[u] \in RunRow
  BY OpenIsRow DEF ScanPage
<1>3. PICK seen \in SUBSET Remaining(u), passed \in SUBSET (PathsOf(run[u].root) \ onDisk) :
        \E completed \in {FALSE, seen = Remaining(u)} :
            /\ seen = {} => completed
            /\ page' = [page EXCEPT ![u] =
                   [found |-> {p \in seen : ChangedSince(u, p)},
                    passed |-> seen \cup passed,
                    completed |-> completed,
                    fresh |-> seen]]
  BY Zenon DEF ScanPage
<1>4. seen \subseteq Path /\ passed \subseteq Path
  BY DEF Remaining, PathsOf
<1>5. ASSUME NEW completed \in BOOLEAN
      PROVE  [found |-> {p \in seen : ChangedSince(u, p)}, passed |-> seen \cup passed,
              completed |-> completed, fresh |-> seen] \in Page
  BY <1>4 DEF Page
<1>6. PICK new \in Page : page' = [page EXCEPT ![u] = new]
  <2>1. PICK completed \in {FALSE, seen = Remaining(u)} :
          page' = [page EXCEPT ![u] =
                      [found |-> {p \in seen : ChangedSince(u, p)}, passed |-> seen \cup passed,
                       completed |-> completed, fresh |-> seen]]
    BY <1>3
  <2>2. completed \in BOOLEAN
    BY <2>1
  <2> QED
    BY <1>5, <2>1, <2>2, Zenon
<1>7. \A w \in Run : w # u => page'[w] = page[w]
  BY <1>6 DEF RunsOK
<1>8. page' \in [Run -> {Null} \cup Page]
  BY <1>6 DEF RunsOK
<1> QED
  BY <1>1, <1>7, <1>8 DEF RunsOK, Asked, Untouched

LEMMA RecordKeepsRuns == ASSUME RunsOK, NEW u \in Run, RecordPage(u) PROVE RunsOK'
<1>1. /\ page' = [page EXCEPT ![u] = Null] /\ page[u] # Null /\ stage' = stage /\ stage = "up"
      /\ due' = due /\ known' = known
  BY DEF RecordPage, session
<1>2. page[u] \in Page
  BY <1>1 DEF RunsOK
<1>3. /\ run' \in [Run -> {NoRun} \cup RunRow]
      /\ \A w \in Run : w # u => run'[w] = run[w]
  <2>1. CASE run' = run
    BY <2>1 DEF RunsOK
  <2>2. CASE /\ run[u].status = "running"
             /\ run' = [run EXCEPT ![u].done = @ \cup page[u].passed,
                                   ![u].status = IF page[u].completed THEN "completed" ELSE "running"]
    <3>1. run[u] \in RunRow
      BY <2>2, OpenIsRow
    <3> DEFINE done == run[u].done \cup page[u].passed
               status == IF page[u].completed THEN "completed" ELSE "running"
    <3>2. done \in SUBSET Path
      BY <1>2, <3>1 DEF RunRow, Page
    <3>3. status \in {"completed", "running"}
      OBVIOUS
    <3>4. run' = [run EXCEPT ![u] = [[run[u] EXCEPT !.done = done] EXCEPT !.status = status]]
      BY <2>2, <3>1 DEF RunsOK, RunRow
    <3> HIDE DEF done, status
    <3>5. [[run[u] EXCEPT !.done = done] EXCEPT !.status = status] \in RunRow
      BY <3>1, <3>2, <3>3 DEF RunRow
    <3> QED
      BY <3>4, <3>5 DEF RunsOK
  <2> QED
    BY <2>1, <2>2 DEF RecordPage
<1>4. page' \in [Run -> {Null} \cup Page] /\ \A w \in Run : page[w] = Null => page'[w] = Null
  BY <1>1 DEF RunsOK
<1>5. ASSUME NEW r \in Root, due[r] = u PROVE FALSE
  BY <1>1, <1>5 DEF RunsOK, Asked, Untouched
<1> QED
  BY <1>1, <1>3, <1>4, <1>5 DEF RunsOK, Asked, Untouched

LEMMA ForgetKeepsRuns == ASSUME RunsOK, Forget, run' = run PROVE RunsOK'
<1>1. /\ known' = [u \in Run |-> Null] /\ page' = [u \in Run |-> Null]
      /\ due' = [r \in Root |-> "none"]
  BY DEF Forget
<1> QED
  BY <1>1, ReasonsAreNotRuns DEF RunsOK, Untouched

LEMMA SessionKeepsRuns == ASSUME RunsOK, SessionStep PROVE RunsOK'
<1>1. ASSUME BeginSession PROVE RunsOK'
  <2>1. /\ UNCHANGED <<run, known, page>> /\ stage = "down" /\ stage' = "starting"
        /\ \A r \in Root : due'[r] \in Recovery(r)
        /\ due' \in [Root -> Run \cup {"none", "overflow", "disconnect", "unclean_shutdown"}]
    BY <1>1 DEF BeginSession, runs
  <2>2. due' \in [Root -> Run \cup Reasons \cup {"none"}]
    <3>1. Run \cup {"none", "overflow", "disconnect", "unclean_shutdown"}
            \subseteq Run \cup Reasons \cup {"none"}
      BY DEF Reasons
    <3> QED
      BY ONLY <2>1, <3>1
  <2>3. ASSUME NEW r \in Root, NEW u \in Run, due'[r] = u PROVE Asked(r, u)
    <3>1. u \in Recovery(r) /\ u \notin {"none", "overflow", "disconnect", "unclean_shutdown"}
      BY <2>1, <2>3, RunAssumption
    <3>2. u \in Open(r)
      BY <3>1 DEF Recovery
    <3> QED
      BY <2>1, <3>2, OpenIsRow DEF Open, Asked, RunsOK
  <2> QED
    BY <2>1, <2>2, <2>3 DEF RunsOK, Asked, Untouched
<1>2. ASSUME NEW r \in Root, CheckRoot(r) PROVE RunsOK'
  <2>1. /\ UNCHANGED <<run, known, page>> /\ stage' # "down"
        /\ due' = due \/ due' = [due EXCEPT ![r] = "disconnect"]
    BY <1>2 DEF CheckRoot, runs
  <2>2. due' \in [Root -> Run \cup Reasons \cup {"none"}]
    BY <2>1 DEF RunsOK, Reasons
  <2>3. ASSUME NEW q \in Root, NEW u \in Run, due'[q] = u PROVE due[q] = u
    <3>1. u # "disconnect"
      BY ReasonsAreNotRuns DEF Reasons
    <3> QED
      BY <2>1, <2>3, <3>1 DEF RunsOK
  <2> QED
    BY <2>1, <2>2, <2>3 DEF RunsOK, Asked, Untouched
<1>3. ASSUME UNCHANGED <<run, known, page, due>>, stage' # "down" \/ stage' = stage PROVE RunsOK'
  BY <1>3 DEF RunsOK, Asked, Untouched
<1>4. Complete => RunsOK'
  BY ForgetKeepsRuns DEF Complete
<1>5. ASSUME NEW r \in Root, Watch(r) PROVE RunsOK'
  BY <1>3, <1>5 DEF Watch, session, runs
<1>6. Started \/ StopIntake \/ Drain \/ Persist \/ Join => RunsOK'
  BY <1>3 DEF Started, StopIntake, Drain, Persist, Join, runs
<1> QED
  BY <1>1, <1>2, <1>4, <1>5, <1>6 DEF SessionStep

LEMMA RunsStep == ASSUME RunsOK, FilesOK, [Next]_vars PROVE RunsOK'
<1>1. UNCHANGED <<run, known, page, due, stage>> => RunsOK'
  BY DEF RunsOK, Asked, Untouched
<1>2. RootStep => RunsOK'
  BY <1>1 DEF RootStep, AddRoot, PauseRoot, ResumeRoot, RemoveRoot, RecordHealth, session, runs
<1>3. CheckStep => RunsOK'
  BY <1>1 DEF CheckStep, BeginPending, Recheck, Copy, Register, Fail, session, runs
<1>4. RunStep => RunsOK'
  BY BeginKeepsRuns, ResumeKeepsRuns, StopKeepsRuns, ScanKeepsRuns, RecordKeepsRuns
     DEF RunStep, Reasons
<1>5. TakeEvent => RunsOK'
  BY <1>1 DEF TakeEvent, session, runs
<1>6. Crash => RunsOK'
  BY ForgetKeepsRuns DEF Crash
<1>7. UNCHANGED vars => RunsOK'
  BY <1>1 DEF vars, session, runs
<1> QED
  BY <1>2, <1>3, <1>4, <1>5, <1>6, <1>7, SessionKeepsRuns, ChangeKeepsRuns DEF Next

-----------------------------------------------------------------------------
(* Events and sessions *)

IntakeOK ==
    /\ alive \subseteq Root /\ overflowed \subseteq Root
    /\ queue \in Seq(Path) /\ Len(queue) <= Capacity /\ drained \in Seq(Events)

SessionOK ==
    /\ stage \in {"down", "starting", "failed", "up", "draining", "ingesting",
                  "redraining", "reingesting"}
    /\ unchecked \subseteq Root /\ flushed \in BOOLEAN
    /\ resumed \subseteq Root /\ sessions \in Nat

LEMMA SetToSeqType == ASSUME NEW S, IsFiniteSet(S) PROVE SetToSeq(S) \in Seq(S)
<1>1. Cardinality(S) \in Nat /\ ExistsBijection(1..Cardinality(S), S)
  BY FS_CardinalityType
<1>2. \E f \in [1..Cardinality(S) -> S] : IsInjective(f)
  BY <1>1 DEF ExistsBijection, Bijection, Injection
<1>3. SetToSeq(S) \in [1..Cardinality(S) -> S]
  BY <1>2 DEF SetToSeq
<1> QED
  BY <1>1, <1>3

LEMMA IntakeStep == ASSUME IntakeOK, [Next]_vars PROVE IntakeOK'
<1>1. UNCHANGED <<intake, drained>> => IntakeOK'
  BY DEF intake, IntakeOK
<1>2. RootStep \/ CheckStep \/ RunStep => IntakeOK'
  <2>1. RootStep => UNCHANGED <<intake, drained>>
    BY DEF RootStep, AddRoot, PauseRoot, ResumeRoot, RemoveRoot, RecordHealth, session
  <2>2. CheckStep => UNCHANGED <<intake, drained>>
    BY DEF CheckStep, BeginPending, Recheck, Copy, Register, Fail, session
  <2>3. RunStep => UNCHANGED <<intake, drained>>
    BY DEF RunStep, BeginRun, ResumeRun, StopRun, ScanPage, RecordPage, session
  <2> QED
    BY <1>1, <2>1, <2>2, <2>3
<1>3. ASSUME NEW p \in Path, Change(p) PROVE IntakeOK'
  <2>1. alive' = alive /\ drained' = drained
    BY <1>3 DEF Change, session
  <2>2. CASE Enqueue(p)
    <3>1. CASE Len(queue) < Capacity
      <4>1. queue' = Append(queue, p) /\ overflowed' = overflowed
        BY <2>2, <3>1 DEF Enqueue
      <4>2. queue' \in Seq(Path) /\ Len(queue') = Len(queue) + 1
        BY <4>1 DEF IntakeOK
      <4> QED
        BY <2>1, <3>1, <4>1, <4>2, BoundAssumption DEF IntakeOK
    <3>2. CASE ~(Len(queue) < Capacity)
      BY <2>1, <2>2, <3>2, RootAssumption DEF Enqueue, IntakeOK
    <3> QED
      BY <3>1, <3>2
  <2>3. CASE UNCHANGED <<queue, overflowed>>
    BY <2>1, <2>3 DEF IntakeOK
  <2> QED
    BY <1>3, <2>2, <2>3 DEF Change
<1>4. TakeEvent => IntakeOK'
  <2>1. queue # <<>> => Tail(queue) \in Seq(Path) /\ Len(Tail(queue)) = Len(queue) - 1
    BY DEF IntakeOK
  <2>2. Len(queue) \in Nat /\ Len(queue) <= Capacity
    BY DEF IntakeOK
  <2> SUFFICES ASSUME TakeEvent PROVE IntakeOK'
    OBVIOUS
  <2>3. alive' = alive /\ drained' = drained /\ overflowed' \subseteq overflowed
    BY DEF TakeEvent, session
  <2>4. queue' = queue \/ (queue # <<>> /\ queue' = Tail(queue))
    BY DEF TakeEvent
  <2>5. queue' \in Seq(Path) /\ Len(queue') <= Capacity
    BY <2>1, <2>2, <2>4, BoundAssumption DEF IntakeOK
  <2> QED
    BY <2>3, <2>5 DEF IntakeOK
<1>5. Complete \/ Crash => IntakeOK'
  <2>1. <<>> \in Seq(Path) /\ <<>> \in Seq(Events) /\ Len(<<>>) <= Capacity
    BY BoundAssumption
  <2>2. Forget => IntakeOK'
    BY <2>1 DEF Forget, IntakeOK
  <2> QED
    BY <2>2 DEF Complete, Crash
<1>6. Drain => IntakeOK'
  <2>1. IsFiniteSet(overflowed)
    BY RootAssumption, FS_Subset DEF IntakeOK
  <2>2. SetToSeq(overflowed) \in Seq(Events)
    BY <2>1, SetToSeqType DEF IntakeOK, Events
  <2>3. queue \o SetToSeq(overflowed) \in Seq(Events)
    <3>1. queue \in Seq(Events)
      BY DEF IntakeOK, Events
    <3> QED
      BY <2>2, <3>1
  <2> QED
    BY <2>3, BoundAssumption DEF Drain, IntakeOK
<1>7. Persist => IntakeOK'
  <2>1. drained # <<>> => Tail(drained) \in Seq(Events)
    BY DEF IntakeOK
  <2>2. <<>> \in Seq(Events)
    OBVIOUS
  <2>3. Persist => drained' \in Seq(Events) /\ UNCHANGED intake
    BY <2>1, <2>2 DEF Persist
  <2> QED
    BY <2>3 DEF IntakeOK, intake
<1>8. Join => IntakeOK'
  BY DEF Join, IntakeOK
<1>9. ASSUME NEW r \in Root, Watch(r) PROVE IntakeOK'
  BY <1>9 DEF Watch, IntakeOK, session
<1>10. BeginSession \/ (\E r \in Root : CheckRoot(r)) \/ Started \/ StopIntake => IntakeOK'
  BY <1>1 DEF BeginSession, CheckRoot, Started, StopIntake
<1>11. UNCHANGED vars => IntakeOK'
  BY <1>1 DEF vars, session
<1> QED
  BY <1>2, <1>3, <1>4, <1>5, <1>6, <1>7, <1>8, <1>9, <1>10, <1>11 DEF Next, SessionStep

LEMMA SessionOKStep == ASSUME SessionOK, [Next]_vars PROVE SessionOK'
<1>1. UNCHANGED <<stage, unchecked, flushed, resumed, sessions>> => SessionOK'
  BY DEF SessionOK
<1>2. RootStep \/ CheckStep \/ RunStep => SessionOK'
  <2>1. RootStep => UNCHANGED session
    BY DEF RootStep, AddRoot, PauseRoot, ResumeRoot, RemoveRoot, RecordHealth
  <2>2. CheckStep => UNCHANGED session
    BY DEF CheckStep, BeginPending, Recheck, Copy, Register, Fail
  <2>3. RunStep => UNCHANGED <<stage, unchecked, flushed, resumed, sessions>>
    BY DEF RunStep, BeginRun, ResumeRun, StopRun, ScanPage, RecordPage, session
  <2> QED
    BY <1>1, <2>1, <2>2, <2>3 DEF session
<1>3. BeginSession => SessionOK'
  <2>1. BeginSession => /\ stage' = "starting" /\ unchecked' = Live /\ flushed' = flushed
                        /\ resumed' = resumed \cup {r \in Live : Open(r) # {}}
                        /\ sessions' = sessions + 1
    BY DEF BeginSession
  <2> QED
    BY <2>1 DEF SessionOK, Live
<1>4. ASSUME NEW r \in Root, CheckRoot(r) \/ Watch(r) PROVE SessionOK'
  BY <1>4 DEF CheckRoot, Watch, SessionOK, session
<1>5. Started \/ StopIntake \/ Drain => SessionOK'
  BY DEF Started, StopIntake, Drain, SessionOK
<1>6. Persist \/ Join => SessionOK'
  <2>1. Join => flushed' \in BOOLEAN
    BY DEF Join
  <2> QED
    BY <2>1 DEF Persist, Join, SessionOK
<1>7. Complete \/ Crash => SessionOK'
  BY DEF Complete, Crash, Forget, SessionOK
<1>8. (\E p \in Path : Change(p)) \/ TakeEvent \/ UNCHANGED vars => SessionOK'
  BY <1>1 DEF Change, TakeEvent, session, vars
<1> QED
  BY <1>2, <1>3, <1>4, <1>5, <1>6, <1>7, <1>8 DEF Next, SessionStep

Marks == noticed \subseteq Path /\ dirty \subseteq Path

LEMMA MarksStep ==
    ASSUME Marks, RunsOK, IntakeOK, [Next]_vars
    PROVE  Marks'
<1>1. UNCHANGED <<noticed, dirty>> => Marks'
  BY DEF Marks
<1>2. ASSUME NEW e \in Events, Ingest(e), e \in Root => UNCHANGED <<noticed, dirty>> PROVE Marks'
  BY <1>1, <1>2 DEF Ingest, Marks, Events
<1>3. ASSUME NEW e, Ingest(e), e \in Root PROVE UNCHANGED <<noticed, dirty>>
  BY <1>3 DEF Ingest
<1>4. CheckStep => Marks'
  BY DEF CheckStep, BeginPending, Recheck, Copy, Register, Fail, Marks, import
<1>5. RunStep => Marks'
  <2>1. ASSUME NEW u \in Run, RecordPage(u) PROVE Marks'
    <3>1. page[u].found \subseteq Path
      BY <2>1 DEF RecordPage, RunsOK, Page
    <3> QED
      BY <2>1, <3>1 DEF RecordPage, Marks
  <2> QED
    BY <1>1, <2>1 DEF RunStep, BeginRun, ResumeRun, StopRun, ScanPage, import
<1>6. TakeEvent => Marks'
  <2>1. TakeEvent => \E e \in Events : Ingest(e)
    BY EventsAreEvents DEF TakeEvent, IntakeOK, Events
  <2> QED
    BY <1>2, <1>3, <2>1
<1>7. Persist => Marks'
  <2>1. Persist => (\E e \in Events : Ingest(e)) \/ UNCHANGED <<noticed, dirty>>
    BY EventsAreEvents DEF Persist, IntakeOK
  <2> QED
    BY <1>1, <1>2, <1>3, <2>1
<1>8. SessionStep => Marks' \/ Persist
  BY <1>1 DEF SessionStep, BeginSession, CheckRoot, Watch, Started, StopIntake, Drain, Join,
              Complete, import
<1>9. RootStep => UNCHANGED <<noticed, dirty>>
  BY DEF RootStep, AddRoot, PauseRoot, ResumeRoot, RemoveRoot, RecordHealth, import
<1>10. Crash \/ UNCHANGED vars => UNCHANGED <<noticed, dirty>>
  BY DEF Crash, vars, import
<1>11. ASSUME NEW p \in Path, Change(p) PROVE Marks'
  BY <1>11 DEF Change, Marks, import
<1> QED
  BY <1>1, <1>4, <1>5, <1>6, <1>7, <1>8, <1>9, <1>10, <1>11 DEF Next

-----------------------------------------------------------------------------
(* The specification *)

LEMMA ChecksStep ==
    ASSUME SettledChecks, IntakeOK, [Next]_vars
    PROVE  SettledChecks'
<1>1. Unconcerned => SettledChecks'
  BY DEF Unconcerned, SettledChecks, ChecksOK, AttemptOK, ImportedIsCurrent, AttemptsFitState
<1>2. TakeEvent => SettledChecks'
  <2>1. TakeEvent => (\E e \in Events : Ingest(e)) /\ exec' = exec
    BY EventsAreEvents DEF TakeEvent, IntakeOK, Events
  <2> QED
    BY <2>1, IngestSettles
<1>3. Persist => SettledChecks'
  <2>1. Persist => \/ (\E e \in Events : Ingest(e)) /\ exec' = exec
                   \/ Unconcerned
    BY EventsAreEvents DEF Persist, IntakeOK, Unconcerned
  <2> QED
    BY <1>1, <2>1, IngestSettles
<1> QED
  BY <1>1, <1>2, <1>3, ConcernedActions, AttemptSettles, ExecutionSettles, PageSettles

Inductive ==
    /\ SettledChecks /\ RootsOK /\ FilesOK /\ RunsOK /\ IntakeOK /\ SessionOK /\ Marks

LEMMA InductiveInit == Init => Inductive
<1> SUFFICES ASSUME Init PROVE Inductive
  OBVIOUS
<1>1. SettledChecks
  BY BoundAssumption
     DEF Init, SettledChecks, ChecksOK, AttemptOK, ImportedIsCurrent, AttemptsFitState
<1>2. RootsOK /\ FilesOK /\ SessionOK /\ Marks
  BY DEF Init, RootsOK, FilesOK, SessionOK, Marks
<1>3. RunsOK
  BY ReasonsAreNotRuns DEF Init, RunsOK, Untouched
<1>4. IntakeOK
  BY BoundAssumption DEF Init, IntakeOK
<1> QED
  BY <1>1, <1>2, <1>3, <1>4 DEF Inductive

LEMMA InductiveStep == Inductive /\ [Next]_vars => Inductive'
<1> SUFFICES ASSUME Inductive, [Next]_vars PROVE Inductive'
  OBVIOUS
<1>1. exec # Null => exec \in Executing
  BY DEF Inductive, SettledChecks, AttemptOK
<1>2. queue \in Seq(Path) /\ drained \in Seq(Events)
  BY DEF Inductive, IntakeOK
<1> QED
  BY <1>1, <1>2, ChecksStep, RootsStep, FilesStep, RunsStep, IntakeStep, SessionOKStep, MarksStep
     DEF Inductive

(* Every row, queue and record has its type, and the queue its bound. *)
THEOREM TypeCorrect == Spec => []TypeOK
<1>1. Inductive => RowsTypeOK
  BY DEF Inductive, SettledChecks, ChecksOK, RootsOK, FilesOK, RunsOK, RunRow, RowsTypeOK
<1>2. Inductive => MemoryTypeOK
  BY DEF Inductive, SettledChecks, AttemptOK, RunsOK, IntakeOK, SessionOK, MemoryTypeOK
<1>3. Inductive => TypeOK
  BY <1>1, <1>2 DEF Inductive, FilesOK, SessionOK, Marks, TypeOK
<1> QED
  BY <1>3, InductiveInit, InductiveStep, PTL DEF Spec

(* A check that says imported was copied after every change ingested or found
   for it, for any number of files, attempts and restarts. *)
THEOREM SettledIsCurrent == Spec => []ImportedIsCurrent
<1>1. Inductive => ImportedIsCurrent
  BY DEF Inductive, SettledChecks
<1> QED
  BY <1>1, InductiveInit, InductiveStep, PTL DEF Spec

(* Attempts agree with the state of their check, whatever max_stability_attempts
   is and wherever events cut a series short. *)
THEOREM AttemptsAgree == Spec => []AttemptsFitState
<1>1. Inductive => AttemptsFitState
  BY DEF Inductive, SettledChecks
<1> QED
  BY <1>1, InductiveInit, InductiveStep, PTL DEF Spec

\* What no step may do to a run.
Stays(u) ==
    /\ run[u].status \in {"completed", "cancelled"} => run'[u] = run[u]
    /\ run[u].status = "paused" => run'[u].done = run[u].done

LEMMA StoppedRunStays == ASSUME Inductive, [Next]_vars, NEW u \in Run PROVE Stays(u)
<1> USE DEF Stays
<1>1. run \in [Run -> {NoRun} \cup RunRow] /\ RunsOK /\ FilesOK
  BY DEF Inductive, RunsOK
<1>2. ASSUME NEW r \in Root, NEW w \in Run, NEW reason \in Reasons, BeginRun(r, w, reason)
      PROVE  Stays(u)
  BY <1>1, <1>2 DEF BeginRun, NoRun
<1>3. ASSUME NEW r \in Root, NEW w \in Run, ResumeRun(r, w) PROVE Stays(u)
  <2>1. run[w].status \in {"running", "paused"} /\ run[w] \in RunRow
    BY <1>1, <1>3, ResumeKeepsRuns
  <2>2. run' = [run EXCEPT ![w].status = "running"]
    BY <1>3 DEF ResumeRun
  <2> QED
    BY <1>1, <2>1, <2>2 DEF RunRow
<1>4. ASSUME NEW w \in Run, NEW status \in {"paused", "cancelled"}, StopRun(w, status)
      PROVE  Stays(u)
  BY <1>1, <1>4 DEF StopRun
<1>5. ASSUME NEW w \in Run, ScanPage(w) PROVE Stays(u)
  BY <1>5 DEF ScanPage
<1>6. ASSUME NEW w \in Run, RecordPage(w) PROVE Stays(u)
  BY <1>1, <1>6 DEF RecordPage
<1>7. ASSUME run' = run PROVE Stays(u)
  BY <1>7
<1>8. RunStep => Stays(u)
  BY <1>2, <1>3, <1>4, <1>5, <1>6 DEF RunStep, Reasons
<1>9. RootStep \/ CheckStep => run' = run
  BY DEF RootStep, AddRoot, PauseRoot, ResumeRoot, RemoveRoot, RecordHealth, CheckStep,
         BeginPending, Recheck, Copy, Register, Fail, runs
<1>10. SessionStep \/ TakeEvent \/ Crash \/ (\E p \in Path : Change(p)) => run' = run
  BY DEF SessionStep, BeginSession, CheckRoot, Watch, Started, StopIntake, Drain, Persist, Join,
         Complete, TakeEvent, Crash, Change, runs
<1>11. UNCHANGED vars => run' = run
  BY DEF vars, runs
<1> QED
  BY <1>7, <1>8, <1>9, <1>10, <1>11 DEF Next

(* A run that is complete or cancelled stays so, and a paused one passes
   nothing: startup resumes only open runs, and a page that was being scanned
   when the run was stopped is refused. *)
THEOREM NoLatePage == Spec => StoppedRunsStay
<1>1. Inductive /\ [Next]_vars => [\A u \in Run : Stays(u)]_vars
  BY StoppedRunStays
<1>2. [\A u \in Run : Stays(u)]_vars
        => [\A u \in Run :
              /\ run[u].status \in {"completed", "cancelled"} => run'[u] = run[u]
              /\ run[u].status = "paused" => run'[u].done = run[u].done]_vars
  BY DEF Stays
<1> QED
  BY <1>1, <1>2, InductiveInit, InductiveStep, PTL DEF Spec, StoppedRunsStay

-----------------------------------------------------------------------------
(* Where an unrecorded change is kept                                      *)

Working == stage \in {"starting", "up"}
Draining == stage \in {"draining", "ingesting", "redraining", "reingesting"}

\* The run has scanned past the name of p, or will have once its page is recorded.
Passed(u, p) ==
    \/ p \in run[u].done
    \/ page[u] # Null /\ p \notin page[u].fresh /\ (p \in page[u].passed \/ page[u].completed)

Covered(p) == \E u \in Open(RootOf[p]) : ~Passed(u, p)

\* Rows a step of one component makes never precede those of another.
RowsAgree ==
    /\ \A p \in noticed : p \in onDisk /\ rootStatus[RootOf[p]] # "absent"
    /\ \A r \in alive : rootStatus[r] # "absent"
    /\ \A u \in Run : run[u] = NoRun => page[u] = Null
    /\ \A u \in Run : run[u] # NoRun => rootStatus[run[u].root] # "absent"

\* What memory can hold at each stage of a session.
MemoryFitsStage ==
    /\ stage \in {"down", "starting", "failed"} => alive = {} /\ queue = <<>> /\ overflowed = {}
    /\ stage \notin {"ingesting", "reingesting"} => drained = <<>>
    /\ stage = "down" => \A r \in Root : due[r] = "none"
    /\ stage \in {"down", "starting", "failed", "up"} => flushed
    /\ stage # "down" => ~clean

\* A shutdown that still counts as a success has joined and drained everything.
DrainedIfFlushed ==
    /\ stage \in {"redraining", "reingesting"} /\ flushed => alive = {}
    /\ stage = "reingesting" /\ flushed => queue = <<>> /\ overflowed = {}

\* A reconciliation startup asked for is of a root of this session, and is
\* outstanding at a shutdown only where none may begin.
DueFits ==
    /\ \A r \in Root : due[r] # "none" \/ r \in unchecked =>
          rootStatus[r] # "absent" /\ rootGen[r] >= metaGen
    /\ Draining => \A r \in Root : due[r] # "none" => rootStatus[r] \notin Reconcilable

\* A change of this session that a run of this session has passed came later
\* than the scan, so its event is still held.
PassedIsHeld ==
    Working => \A p \in noticed : \A u \in Open(RootOf[p]) :
        Passed(u, p) /\ RootOf[p] \notin resumed /\ rootStatus[RootOf[p]] # "removed"
            => InMemory(p)

\* NoticedIsTraced, with the status of a root replaced by what each status
\* promises: a paused root is at the generation of its session, so that the
\* generation is ahead once it is resumed.
Traced(p) ==
    \/ InMemory(p) \/ Covered(p)
    \/ rootStatus[RootOf[p]] \in {"overflow_reconciling", "removed", "error"}
    \/ due[RootOf[p]] \in Reasons
    \/ rootGen[RootOf[p]] > metaGen
    \/ rootStatus[RootOf[p]] = "paused" /\ rootGen[RootOf[p]] >= metaGen
    \/ EndsUnclean /\ Open(RootOf[p]) = {}
    \/ ~Working /\ Open(RootOf[p]) # {}
    \/ RootOf[p] \in resumed
    \/ \E u \in Run : run[u].root = RootOf[p] /\ run[u].status = "cancelled"

Traces ==
    /\ RowsAgree /\ MemoryFitsStage /\ DrainedIfFlushed /\ DueFits /\ PassedIsHeld
    /\ \A p \in noticed : Traced(p)

LEMMA ToSetOps ==
    ASSUME NEW S, NEW s \in Seq(S)
    PROVE  /\ \A e \in S : ToSet(Append(s, e)) = ToSet(s) \cup {e}
           /\ s # <<>> => ToSet(s) = {Head(s)} \cup ToSet(Tail(s))
           /\ \A t \in Seq(S) : ToSet(s \o t) = ToSet(s) \cup ToSet(t)
           /\ ToSet(<<>>) = {}
<1>1. ASSUME NEW e \in S PROVE ToSet(Append(s, e)) = ToSet(s) \cup {e}
  <2>1. /\ Len(Append(s, e)) = Len(s) + 1 /\ DOMAIN Append(s, e) = 1..(Len(s) + 1)
        /\ \A i \in 1..Len(s) : Append(s, e)[i] = s[i]
        /\ Append(s, e)[Len(s) + 1] = e /\ Len(s) \in Nat /\ DOMAIN s = 1..Len(s)
    OBVIOUS
  <2>2. \A i \in 1..(Len(s) + 1) : i \in 1..Len(s) \/ i = Len(s) + 1
    BY <2>1
  <2>3. 1..Len(s) \subseteq 1..(Len(s) + 1) /\ Len(s) + 1 \in 1..(Len(s) + 1)
    BY <2>1
  <2> QED
    BY <2>1, <2>2, <2>3, Zenon DEF ToSet
<1>2. ASSUME s # <<>> PROVE ToSet(s) = {Head(s)} \cup ToSet(Tail(s))
  <2>1. /\ Len(s) \in Nat \ {0} /\ DOMAIN s = 1..Len(s) /\ Head(s) = s[1]
        /\ DOMAIN Tail(s) = 1..(Len(s) - 1)
        /\ \A i \in 1..(Len(s) - 1) : Tail(s)[i] = s[i + 1]
    BY <1>2
  <2>2. ASSUME NEW i \in 1..Len(s) PROVE s[i] \in {Head(s)} \cup ToSet(Tail(s))
    <3>1. CASE i = 1
      BY <2>1, <3>1
    <3>2. CASE i # 1
      <4>1. i - 1 \in 1..(Len(s) - 1) /\ (i - 1) + 1 = i
        BY <2>1, <3>2
      <4>2. Tail(s)[i - 1] = s[i]
        BY <2>1, <4>1
      <4> QED
        BY <2>1, <4>1, <4>2, Zenon DEF ToSet
    <3> QED
      BY <3>1, <3>2
  <2>3. ASSUME NEW i \in 1..(Len(s) - 1) PROVE Tail(s)[i] \in ToSet(s)
    <3>1. i + 1 \in 1..Len(s)
      BY <2>1
    <3> QED
      BY <2>1, <3>1, Zenon DEF ToSet
  <2>4. Head(s) \in ToSet(s)
    <3>1. 1 \in DOMAIN s /\ Head(s) = s[1]
      BY <2>1
    <3> QED
      BY ONLY <3>1, Zenon DEF ToSet
  <2>5. ToSet(s) \subseteq {Head(s)} \cup ToSet(Tail(s))
    BY <2>1, <2>2, Zenon DEF ToSet
  <2>6. ToSet(Tail(s)) \subseteq ToSet(s)
    BY <2>1, <2>3, Zenon DEF ToSet
  <2> QED
    BY ONLY <2>4, <2>5, <2>6
<1>3. ASSUME NEW t \in Seq(S) PROVE ToSet(s \o t) = ToSet(s) \cup ToSet(t)
  <2>1. /\ Len(s) \in Nat /\ Len(t) \in Nat /\ DOMAIN s = 1..Len(s) /\ DOMAIN t = 1..Len(t)
        /\ DOMAIN (s \o t) = 1..(Len(s) + Len(t))
        /\ \A i \in 1..Len(s) : (s \o t)[i] = s[i]
        /\ \A i \in 1..Len(t) : (s \o t)[Len(s) + i] = t[i]
    OBVIOUS
  <2>2. ASSUME NEW i \in 1..(Len(s) + Len(t)) PROVE (s \o t)[i] \in ToSet(s) \cup ToSet(t)
    <3>1. CASE i \in 1..Len(s)
      BY <2>1, <3>1, Zenon DEF ToSet
    <3>2. CASE i \notin 1..Len(s)
      <4>1. i - Len(s) \in 1..Len(t) /\ Len(s) + (i - Len(s)) = i
        BY <2>1, <3>2
      <4>2. (s \o t)[i] = t[i - Len(s)]
        BY <2>1, <4>1
      <4> QED
        BY <2>1, <4>1, <4>2, Zenon DEF ToSet
    <3> QED
      BY <3>1, <3>2
  <2>3. /\ 1..Len(s) \subseteq 1..(Len(s) + Len(t))
        /\ \A i \in 1..Len(t) : Len(s) + i \in 1..(Len(s) + Len(t))
    BY <2>1
  <2>4. ToSet(s) \subseteq ToSet(s \o t)
    BY <2>1, <2>3, Zenon DEF ToSet
  <2>5. ToSet(t) \subseteq ToSet(s \o t)
    BY <2>1, <2>3, Zenon DEF ToSet
  <2>6. ToSet(s \o t) \subseteq ToSet(s) \cup ToSet(t)
    BY <2>1, <2>2, Zenon DEF ToSet
  <2> QED
    BY <2>4, <2>5, <2>6
<1>4. ToSet(<<>>) = {}
  BY DEF ToSet
<1> QED
  BY <1>1, <1>2, <1>3, <1>4

\* SetToSeq lists every element of a finite set.
LEMMA SetToSeqSet == ASSUME NEW S, IsFiniteSet(S) PROVE ToSet(SetToSeq(S)) = S
<1> DEFINE n == Cardinality(S)
<1>1. n \in Nat /\ ExistsBijection(1..n, S)
  BY FS_CardinalityType
<1>2. \E f \in [1..n -> S] : IsInjective(f)
  BY <1>1 DEF ExistsBijection, Bijection, Injection
<1>3. SetToSeq(S) \in [1..n -> S] /\ IsInjective(SetToSeq(S))
  BY <1>2 DEF SetToSeq
<1>4. SetToSeq(S) \in Injection(1..n, S)
  BY <1>3 DEF Injection, IsInjective
<1>5. IsFiniteSet(1..n) /\ Cardinality(1..n) = n
  BY <1>1, FS_Interval
<1>6. SetToSeq(S) \in Surjection(1..n, S)
  BY <1>4, <1>5, FS_Injection
<1> HIDE DEF n
<1>7. \A e \in S : \E i \in 1..n : SetToSeq(S)[i] = e
  BY <1>6 DEF Surjection
<1> QED
  BY <1>3, <1>7 DEF ToSet

LEMMA StatusStays ==
    ASSUME Inductive, [Next]_vars, NEW r \in Root, rootStatus[r] # "absent"
    PROVE  rootStatus'[r] # "absent"
<1>0. rootStatus \in [Root -> {"absent", "removed"} \cup Statuses]
  BY DEF Inductive, RootsOK
<1>1. ASSUME NEW q \in Root, NEW s, s # "absent", rootStatus' = [rootStatus EXCEPT ![q] = s]
      PROVE  rootStatus'[r] # "absent"
  BY <1>0, <1>1
<1>2. ASSUME NEW q \in Root, NEW new \in Statuses, ApplyHealth(q, new)
      PROVE  rootStatus'[r] # "absent"
  BY <1>1, <1>2 DEF ApplyHealth, Statuses
<1>3. ASSUME NEW e, Ingest(e) PROVE rootStatus'[r] # "absent"
  BY <1>0, <1>3 DEF Ingest
<1>4. RootStep => rootStatus'[r] # "absent"
  BY <1>1, <1>2 DEF RootStep, AddRoot, PauseRoot, ResumeRoot, RemoveRoot, RecordHealth
<1>5. ASSUME NEW u \in Run, RecordPage(u) PROVE rootStatus'[r] # "absent"
  BY <1>0, <1>5 DEF RecordPage
<1>6. ASSUME NEW q \in Root, CheckRoot(q) PROVE rootStatus'[r] # "absent"
  BY <1>2, <1>6 DEF CheckRoot, Statuses
<1>7. CheckStep => rootStatus' = rootStatus
  BY DEF CheckStep, BeginPending, Recheck, Copy, Register, Fail, roots
<1>8. RunStep => rootStatus'[r] # "absent"
  BY <1>5 DEF RunStep, BeginRun, ResumeRun, StopRun, ScanPage, roots
<1>9. SessionStep => rootStatus'[r] # "absent"
  BY <1>3, <1>6 DEF SessionStep, BeginSession, Watch, Started, StopIntake, Drain, Persist, Join,
                    Complete, roots
<1>10. (\E p \in Path : Change(p)) \/ TakeEvent \/ Crash \/ UNCHANGED vars
         => rootStatus'[r] # "absent"
  BY <1>3 DEF Change, TakeEvent, Crash, vars, roots
<1> QED
  BY <1>4, <1>7, <1>8, <1>9, <1>10 DEF Next

\* Where a mark of an unrecorded change comes from and where it may go.
LEMMA NoticedGrows ==
    ASSUME [Next]_vars
    PROVE  /\ onDisk \subseteq onDisk'
           /\ \A p \in noticed' \ noticed : Change(p) /\ RootOf[p] \in alive
<1>1. ASSUME NEW e, Ingest(e) PROVE noticed' \subseteq noticed
  BY <1>1 DEF Ingest
<1>2. RootStep \/ CheckStep => UNCHANGED <<noticed, onDisk>>
  BY DEF RootStep, AddRoot, PauseRoot, ResumeRoot, RemoveRoot, RecordHealth, CheckStep,
         BeginPending, Recheck, Copy, Register, Fail
<1>3. RunStep => onDisk' = onDisk /\ noticed' \subseteq noticed
  BY DEF RunStep, BeginRun, ResumeRun, StopRun, ScanPage, RecordPage
<1>4. SessionStep => onDisk' = onDisk /\ noticed' \subseteq noticed
  BY <1>1 DEF SessionStep, BeginSession, CheckRoot, Watch, Started, StopIntake, Drain, Persist,
              Join, Complete
<1>5. ASSUME NEW q \in Path, Change(q)
      PROVE  /\ onDisk \subseteq onDisk'
             /\ \A p \in noticed' \ noticed : p = q /\ RootOf[p] \in alive
  BY <1>5 DEF Change
<1>6. TakeEvent \/ Crash \/ UNCHANGED vars => onDisk' = onDisk /\ noticed' \subseteq noticed
  BY <1>1 DEF TakeEvent, Crash, vars
<1> QED
  BY <1>2, <1>3, <1>4, <1>5, <1>6 DEF Next

\* A page leaves no file unread that it passes.
LEMMA ScanReads ==
    ASSUME Inductive, NEW u \in Run, ScanPage(u)
    PROVE  /\ run[u] \in RunRow /\ run[u].status = "running" /\ page[u] = Null
           /\ \E new \in Page :
                 /\ page' = [page EXCEPT ![u] = new]
                 /\ \A p \in onDisk : RootOf[p] = run[u].root /\ p \notin new.fresh
                       /\ (p \in new.passed \/ new.completed) => p \in run[u].done
<1>0. RunsOK /\ FilesOK
  BY DEF Inductive
<1>1. run[u] \in RunRow /\ run[u].status = "running" /\ page[u] = Null
  BY <1>0, OpenIsRow DEF ScanPage
<1>2. PICK seen \in SUBSET Remaining(u), passed \in SUBSET (PathsOf(run[u].root) \ onDisk) :
        \E completed \in {FALSE, seen = Remaining(u)} :
            /\ seen = {} => completed
            /\ page' = [page EXCEPT ![u] =
                   [found |-> {p \in seen : ChangedSince(u, p)},
                    passed |-> seen \cup passed,
                    completed |-> completed,
                    fresh |-> seen]]
  BY Zenon DEF ScanPage
<1>3. PICK completed \in {FALSE, seen = Remaining(u)} :
        page' = [page EXCEPT ![u] = [found |-> {p \in seen : ChangedSince(u, p)},
                                     passed |-> seen \cup passed,
                                     completed |-> completed, fresh |-> seen]]
  BY <1>2
<1>4. seen \subseteq Path /\ passed \subseteq Path /\ passed \cap onDisk = {}
      /\ completed \in BOOLEAN /\ (completed => seen = Remaining(u))
  BY <1>3 DEF Remaining, PathsOf
<1> DEFINE new == [found |-> {p \in seen : ChangedSince(u, p)}, passed |-> seen \cup passed,
                   completed |-> completed, fresh |-> seen]
<1>5. new \in Page
  BY <1>4 DEF Page
<1>6. new.fresh = seen /\ new.passed = seen \cup passed /\ new.completed = completed
  OBVIOUS
<1>7. page' = [page EXCEPT ![u] = new]
  BY <1>3
<1> HIDE DEF new
<1>8. ASSUME NEW p \in onDisk, RootOf[p] = run[u].root, p \notin new.fresh,
             p \in new.passed \/ new.completed
      PROVE  p \in run[u].done
  <2>1. completed /\ p \notin Remaining(u)
    BY <1>4, <1>6, <1>8
  <2>2. p \in PathsOf(run[u].root)
    BY <1>0, <1>8 DEF PathsOf, FilesOK
  <2> QED
    BY <2>1, <2>2 DEF Remaining
<1> QED
  BY <1>1, <1>5, <1>7, <1>8

\* What recording a page does to its run, or nothing.
LEMMA RecordMoves ==
    ASSUME Inductive, NEW u \in Run, RecordPage(u)
    PROVE  /\ page' = [page EXCEPT ![u] = Null] /\ page[u] \in Page
           /\ \/ UNCHANGED <<run, noticed, rootStatus>>
              \/ /\ run[u] \in RunRow /\ run[u].status = "running" /\ run'[u] \in RunRow
                 /\ \A w \in Run : w # u => run'[w] = run[w]
                 /\ run'[u].root = run[u].root
                 /\ run'[u].done = run[u].done \cup page[u].passed
                 /\ run'[u].status = IF page[u].completed THEN "completed" ELSE "running"
                 /\ noticed' = noticed \ page[u].fresh
                 /\ rootStatus' = [rootStatus EXCEPT ![run[u].root] =
                       IF page[u].completed /\ @ = "overflow_reconciling" THEN "active" ELSE @]
<1>0. RunsOK /\ RunsOK'
  BY RecordKeepsRuns DEF Inductive
<1>1. page' = [page EXCEPT ![u] = Null] /\ page[u] \in Page
  BY <1>0 DEF RecordPage, RunsOK
<1>2. CASE /\ run[u].status = "running"
           /\ run' = [run EXCEPT ![u].done = @ \cup page[u].passed,
                                 ![u].status = IF page[u].completed THEN "completed" ELSE "running"]
  <2>1. run[u] \in RunRow
    BY <1>0, <1>2, OpenIsRow
  <2>2. \A w \in Run : w # u => run'[w] = run[w]
    BY <1>0, <1>2 DEF RunsOK
  <2>3. /\ run'[u].root = run[u].root
        /\ run'[u].done = run[u].done \cup page[u].passed
        /\ run'[u].status = IF page[u].completed THEN "completed" ELSE "running"
    BY <1>0, <1>2, <2>1 DEF RunsOK, RunRow
  <2>4. run'[u] \in RunRow
    <3>1. run'[u].status \in {"completed", "running"}
      BY <2>3
    <3> QED
      BY <1>0, <3>1 DEF RunsOK, NoRun
  <2>5. CASE /\ noticed' = noticed \ page[u].fresh
             /\ rootStatus' = [rootStatus EXCEPT ![run[u].root] =
                   IF page[u].completed /\ @ = "overflow_reconciling" THEN "active" ELSE @]
    BY <1>1, <1>2, <2>1, <2>2, <2>3, <2>4, <2>5
  <2>6. CASE UNCHANGED <<run, noticed, rootStatus>>
    BY <1>1, <2>6
  <2> QED
    BY <2>5, <2>6 DEF RecordPage
<1>3. CASE UNCHANGED <<run, noticed, rootStatus>>
  BY <1>1, <1>3
<1> QED
  BY <1>2, <1>3 DEF RecordPage

LEMMA RowsAgreeStep ==
    ASSUME Inductive, Inductive', RowsAgree, [Next]_vars
    PROVE  RowsAgree'
<1>0. /\ run \in [Run -> {NoRun} \cup RunRow] /\ page \in [Run -> {Null} \cup Page]
      /\ run' \in [Run -> {NoRun} \cup RunRow] /\ RootOf \in [Path -> Root]
      /\ noticed' \subseteq Path /\ alive \subseteq Root
  BY RootAssumption DEF Inductive, RunsOK, Marks, IntakeOK
<1>1. ASSUME NEW p \in noticed' PROVE p \in onDisk' /\ rootStatus'[RootOf[p]] # "absent"
  <2>1. CASE p \in noticed
    BY <1>0, <1>1, <2>1, StatusStays, NoticedGrows DEF RowsAgree
  <2>2. CASE p \notin noticed
    <3>1. Change(p) /\ RootOf[p] \in alive
      BY <1>1, <2>2, NoticedGrows
    <3> QED
      BY <1>0, <3>1, StatusStays DEF Change, RowsAgree
  <2> QED
    BY <2>1, <2>2
<1>2. ASSUME NEW r \in alive' PROVE rootStatus'[r] # "absent"
  <2>1. CASE r \in alive
    BY <1>0, <2>1, StatusStays DEF RowsAgree
  <2>2. CASE r \notin alive
    <3>1. RootStep \/ CheckStep \/ RunStep => alive' = alive
      <4>1. RootStep => alive' = alive
        BY DEF RootStep, AddRoot, PauseRoot, ResumeRoot, RemoveRoot, RecordHealth, intake
      <4>2. CheckStep => alive' = alive
        BY DEF CheckStep, BeginPending, Recheck, Copy, Register, Fail, intake
      <4>3. RunStep => alive' = alive
        BY DEF RunStep, BeginRun, ResumeRun, StopRun, ScanPage, RecordPage, intake
      <4> QED
        BY <4>1, <4>2, <4>3
    <3>2. (\E p \in Path : Change(p)) \/ TakeEvent \/ Crash \/ UNCHANGED vars => alive' \subseteq alive
      BY DEF Change, TakeEvent, Crash, Forget, vars, intake
    <3>3. SessionStep => alive' \subseteq alive \/ \E q \in Root : Watch(q)
      BY DEF SessionStep, BeginSession, CheckRoot, Started, StopIntake, Drain, Persist, Join,
             Complete, Forget, intake
    <3>4. PICK q \in Root : Watch(q)
      BY <1>2, <2>2, <3>1, <3>2, <3>3 DEF Next
    <3> QED
      BY <1>2, <2>2, <3>4 DEF Watch, roots
  <2> QED
    BY <2>1, <2>2
<1>3. ASSUME NEW u \in Run
      PROVE  /\ run'[u] = NoRun => page'[u] = Null
             /\ run'[u] # NoRun => rootStatus'[run'[u].root] # "absent"
  <2>0. run[u] # NoRun => run[u] \in RunRow
    BY <1>0
  <2>1. ASSUME run' = run, page[u] = Null => page'[u] = Null
        PROVE  /\ run'[u] = NoRun => page'[u] = Null
               /\ run'[u] # NoRun => rootStatus'[run'[u].root] # "absent"
    BY <2>0, <2>1, StatusStays DEF RowsAgree, RunRow
  <2>2. ASSUME NEW w \in Run, NEW r \in Root, NEW reason \in Reasons, BeginRun(r, w, reason)
        PROVE  /\ run'[u] = NoRun => page'[u] = Null
               /\ run'[u] # NoRun => rootStatus'[run'[u].root] # "absent"
    <3>1. /\ run' = [run EXCEPT ![w] = [root |-> r, status |-> "running", reason |-> reason,
                                        done |-> {}]]
          /\ page' = page /\ rootStatus' = rootStatus /\ rootStatus[r] \in Reconcilable
      BY <2>2 DEF BeginRun, roots
    <3>2. CASE u = w
      <4>1. run'[u] # NoRun /\ run'[u].root = r
        BY <1>0, <3>1, <3>2 DEF NoRun
      <4> QED
        BY <3>1, <4>1 DEF Reconcilable
    <3>3. CASE u # w
      BY <1>0, <3>1, <3>3 DEF RowsAgree
    <3> QED
      BY <3>2, <3>3
  <2>3. ASSUME NEW w \in Run, NEW r \in Root, ResumeRun(r, w)
        PROVE  /\ run'[u] = NoRun => page'[u] = Null
               /\ run'[u] # NoRun => rootStatus'[run'[u].root] # "absent"
    <3>1. run[w] \in RunRow /\ run' = [run EXCEPT ![w].status = "running"] /\ page' = page
          /\ rootStatus' = rootStatus
      BY <2>3, ResumeKeepsRuns DEF Inductive, ResumeRun, roots
    <3>2. run[w] # NoRun
      BY <3>1 DEF RunRow, NoRun
    <3>3. run'[u].root = run[u].root /\ (u # w => run'[u] = run[u])
      BY <1>0, <3>1
    <3>4. u = w => run'[u] # NoRun
      BY <1>0, <3>1 DEF RunRow, NoRun
    <3> QED
      BY <3>1, <3>2, <3>3, <3>4 DEF RowsAgree
  <2>4. ASSUME NEW w \in Run, NEW status \in {"paused", "cancelled"}, StopRun(w, status)
        PROVE  /\ run'[u] = NoRun => page'[u] = Null
               /\ run'[u] # NoRun => rootStatus'[run'[u].root] # "absent"
    <3>1. run[w] # NoRun /\ run' = [run EXCEPT ![w].status = status] /\ page' = page
          /\ rootStatus' = rootStatus
      BY <2>4 DEF StopRun, NoRun, roots
    <3> QED
      BY <1>0, <3>1 DEF RowsAgree, RunRow, NoRun
  <2>5. ASSUME NEW w \in Run, ScanPage(w)
        PROVE  /\ run'[u] = NoRun => page'[u] = Null
               /\ run'[u] # NoRun => rootStatus'[run'[u].root] # "absent"
    <3>1. run' = run /\ rootStatus' = rootStatus /\ run[w] # NoRun
      BY <2>5 DEF ScanPage, NoRun, roots
    <3>2. u # w => page'[u] = page[u]
      BY <1>0, <2>5, ScanReads
    <3> QED
      BY <3>1, <3>2 DEF RowsAgree
  <2>6. ASSUME NEW w \in Run, RecordPage(w)
        PROVE  /\ run'[u] = NoRun => page'[u] = Null
               /\ run'[u] # NoRun => rootStatus'[run'[u].root] # "absent"
    <3>1. page'[u] = Null \/ page'[u] = page[u]
      BY <1>0, <2>6, RecordMoves
    <3>2. rootStatus[run[u].root] # "absent" /\ run[u] # NoRun
            => rootStatus'[run[u].root] # "absent"
      BY <2>0, StatusStays DEF RunRow
    <3>3. CASE run'[u] = run[u]
      BY <3>1, <3>2, <3>3 DEF RowsAgree
    <3>4. CASE u = w /\ run[u] \in RunRow /\ run'[u] \in RunRow /\ run'[u].root = run[u].root
      <4>1. run[u] # NoRun /\ run'[u] # NoRun
        BY <3>4 DEF RunRow, NoRun
      <4> QED
        BY <3>2, <3>4, <4>1 DEF RowsAgree
    <3> QED
      BY <2>6, <3>3, <3>4, RecordMoves
  <2>7. RootStep \/ CheckStep => run' = run /\ page' = page
    BY DEF RootStep, AddRoot, PauseRoot, ResumeRoot, RemoveRoot, RecordHealth, CheckStep,
           BeginPending, Recheck, Copy, Register, Fail, runs
  <2>8. SessionStep \/ TakeEvent \/ Crash \/ UNCHANGED vars
          => run' = run /\ (page[u] = Null => page'[u] = Null)
    BY DEF SessionStep, BeginSession, CheckRoot, Watch, Started, StopIntake, Drain, Persist, Join,
           Complete, TakeEvent, Crash, Forget, runs, vars
  <2>9. (\E p \in Path : Change(p)) => run' = run /\ (page[u] = Null => page'[u] = Null)
    BY DEF Change, runs
  <2> QED
    BY <2>1, <2>2, <2>3, <2>4, <2>5, <2>6, <2>7, <2>8, <2>9 DEF Next, RunStep, Reasons
<1> QED
  BY <1>1, <1>2, <1>3 DEF RowsAgree

LEMMA StageStep ==
    ASSUME MemoryFitsStage, DrainedIfFlushed, [Next]_vars
    PROVE  MemoryFitsStage' /\ DrainedIfFlushed'
<1> USE DEF MemoryFitsStage, DrainedIfFlushed
<1>1. UNCHANGED <<stage, alive, queue, overflowed, drained, due, flushed, clean>>
        => MemoryFitsStage' /\ DrainedIfFlushed'
  OBVIOUS
<1>2. CASE RootStep
  BY <1>1, <1>2 DEF RootStep, AddRoot, PauseRoot, ResumeRoot, RemoveRoot, RecordHealth, intake, session
<1>3. CASE CheckStep
  BY <1>1, <1>3 DEF CheckStep, BeginPending, Recheck, Copy, Register, Fail, roots, intake, session
<1>4. CASE RunStep
  <2>1. RunStep => \/ UNCHANGED <<stage, alive, queue, overflowed, drained, due, flushed, clean>>
                   \/ stage = "up" /\ UNCHANGED <<stage, alive, queue, overflowed, drained, flushed, clean>>
    BY DEF RunStep, BeginRun, ResumeRun, StopRun, ScanPage, RecordPage, roots, intake, session
  <2> QED
    BY <1>1, <1>4, <2>1
<1>5. CASE BeginSession
  BY <1>5 DEF BeginSession, intake
<1>6. ASSUME NEW r \in Root, CheckRoot(r) \/ Watch(r) PROVE MemoryFitsStage' /\ DrainedIfFlushed'
  BY <1>6 DEF CheckRoot, Watch, intake, session, roots
<1>7. CASE Started \/ StopIntake
  BY <1>7 DEF Started, StopIntake, intake, roots
<1>8. CASE Drain
  BY <1>8 DEF Drain, roots
<1>9. CASE Persist
  BY <1>9 DEF Persist, intake
<1>10. CASE Join
  BY <1>10 DEF Join, roots
<1>11. CASE Complete \/ Crash
  BY <1>11 DEF Complete, Crash, Forget
<1>12. ASSUME NEW p \in Path, Change(p) PROVE MemoryFitsStage' /\ DrainedIfFlushed'
  <2>1. UNCHANGED <<stage, alive, drained, due, flushed, clean>>
    BY <1>12 DEF Change, session, roots
  <2>2. alive = {} => UNCHANGED <<queue, overflowed>>
    BY <1>12 DEF Change
  <2> QED
    BY <1>1, <2>1, <2>2
<1>13. CASE TakeEvent
  BY <1>13 DEF TakeEvent, session
<1>14. CASE UNCHANGED vars
  BY <1>1, <1>14 DEF vars, roots, intake, session
<1> QED
  BY <1>2, <1>3, <1>4, <1>5, <1>6, <1>7, <1>8, <1>9, <1>10, <1>11, <1>12, <1>13, <1>14
     DEF Next, SessionStep

LEMMA DueFitsStep ==
    ASSUME Inductive, Inductive', DueFits, [Next]_vars
    PROVE  DueFits'
<1>0. /\ rootStatus \in [Root -> {"absent", "removed"} \cup Statuses]
      /\ rootGen \in [Root -> Nat] /\ metaGen \in Nat
      /\ rootGen' \in [Root -> Nat] /\ metaGen' \in Nat
      /\ due \in [Root -> Run \cup Reasons \cup {"none"}]
      /\ unchecked \subseteq Root
      /\ queue \in Seq(Path) /\ drained \in Seq(Events)
  BY DEF Inductive, RootsOK, RunsOK, IntakeOK, SessionOK
<1>1. ASSUME unchecked' \subseteq unchecked,
             \A r \in Root : due'[r] # "none" => due[r] # "none" \/ r \in unchecked,
             metaGen' = metaGen,
             \A r \in Root : rootStatus[r] # "absent" => rootGen'[r] >= rootGen[r]
      PROVE  \A r \in Root : due'[r] # "none" \/ r \in unchecked' =>
                rootStatus'[r] # "absent" /\ rootGen'[r] >= metaGen'
  <2> SUFFICES ASSUME NEW r \in Root, due'[r] # "none" \/ r \in unchecked'
               PROVE  rootStatus'[r] # "absent" /\ rootGen'[r] >= metaGen'
    OBVIOUS
  <2>1. rootStatus[r] # "absent" /\ rootGen[r] >= metaGen
    BY <1>1 DEF DueFits
  <2> QED
    BY <1>0, <1>1, <2>1, StatusStays
<1>2. ASSUME UNCHANGED <<rootGen, metaGen, due, unchecked, rootStatus>>, Draining' => Draining
      PROVE  DueFits'
  BY <1>2 DEF DueFits, Draining
<1>3. CASE RootStep
  <2>1. UNCHANGED <<due, unchecked, metaGen>> /\ ~Draining'
    BY <1>3 DEF RootStep, AddRoot, PauseRoot, ResumeRoot, RemoveRoot, RecordHealth, session,
                Draining
  <2>2. \A r \in Root : rootStatus[r] # "absent" => rootGen'[r] >= rootGen[r]
    <3>1. ASSUME NEW q \in Root, AddRoot(q)
          PROVE  \A r \in Root : rootStatus[r] # "absent" => rootGen'[r] >= rootGen[r]
      BY <1>0, <3>1 DEF AddRoot
    <3>2. ASSUME NEW q \in Root, ResumeRoot(q)
          PROVE  \A r \in Root : rootGen'[r] >= rootGen[r]
      BY <1>0, <3>2 DEF ResumeRoot
    <3>3. rootGen' = rootGen => \A r \in Root : rootGen'[r] >= rootGen[r]
      BY <1>0
    <3> QED
      BY <1>3, <3>1, <3>2, <3>3 DEF RootStep, PauseRoot, RemoveRoot, RecordHealth
  <2> QED
    BY <1>1, <2>1, <2>2 DEF DueFits
<1>4. CASE CheckStep
  BY <1>2, <1>4 DEF CheckStep, BeginPending, Recheck, Copy, Register, Fail, roots, session, Draining
<1>5. CASE RunStep
  <2>1. UNCHANGED <<rootGen, metaGen, unchecked>> /\ ~Draining'
    BY <1>5 DEF RunStep, BeginRun, ResumeRun, StopRun, ScanPage, RecordPage, roots, session,
                Draining
  <2>2. \A r \in Root : due'[r] # "none" => due[r] # "none"
    BY <1>0, <1>5 DEF RunStep, BeginRun, ResumeRun, StopRun, ScanPage, RecordPage, session
  <2> QED
    BY <1>0, <1>1, <2>1, <2>2 DEF DueFits
<1>6. CASE BeginSession
  <2>1. /\ rootStatus' = rootStatus /\ metaGen' = metaGen + 1 /\ unchecked' = Live
        /\ \A r \in Live : rootGen'[r] = metaGen + 1
        /\ \A r \in Root : due'[r] \in Recovery(r)
        /\ ~Draining'
    BY <1>6 DEF BeginSession, Draining, Live
  <2>2. \A r \in Root : r \notin Live => due'[r] = "none"
    BY <2>1 DEF Recovery
  <2>3. \A r \in Live : rootStatus[r] # "absent"
    BY DEF Live, Statuses
  <2> QED
    BY <1>0, <2>1, <2>2, <2>3 DEF DueFits
<1>7. ASSUME NEW r \in Root, CheckRoot(r) PROVE DueFits'
  <2>1. UNCHANGED <<rootGen, metaGen>> /\ unchecked' \subseteq unchecked /\ ~Draining'
        /\ r \in unchecked
    BY <1>7 DEF CheckRoot, Draining
  <2>2. \A q \in Root : due'[q] # "none" => due[q] # "none" \/ q \in unchecked
    BY <1>0, <1>7 DEF CheckRoot
  <2> QED
    BY <1>0, <1>1, <2>1, <2>2 DEF DueFits
<1>8. ASSUME NEW r \in Root, Watch(r) PROVE DueFits'
  BY <1>2, <1>8 DEF Watch, roots, session, Draining
<1>9. CASE Started \/ Drain \/ Join
  BY <1>2, <1>9 DEF Started, Drain, Join, roots, Draining
<1>10. CASE StopIntake
  BY <1>10 DEF StopIntake, DueFits, roots
<1>11. CASE Persist
  <2>1. UNCHANGED <<rootGen, metaGen, due, unchecked, stage>> /\ Draining
    BY <1>11 DEF Persist, Draining
  <2>2. \/ rootStatus' = rootStatus
        \/ \E r \in Root : /\ rootStatus[r] = "active"
                           /\ rootStatus' = [rootStatus EXCEPT ![r] = "overflow_reconciling"]
    BY <1>11 DEF Persist, Ingest, Accepts, EventRoot
  <2>3. \A r \in Root : due[r] # "none" => rootStatus'[r] = rootStatus[r]
    BY <1>0, <2>1, <2>2 DEF DueFits, Reconcilable
  <2>4. Draining' => \A r \in Root : due'[r] # "none" => rootStatus'[r] \notin Reconcilable
    BY <2>1, <2>3 DEF DueFits
  <2> QED
    BY <1>0, <1>1, <2>1, <2>4 DEF DueFits
<1>12. CASE Complete \/ Crash
  <2>1. unchecked' = {} /\ \A r \in Root : due'[r] = "none"
    BY <1>12 DEF Complete, Crash, Forget
  <2> QED
    BY <2>1 DEF DueFits
<1>13. CASE TakeEvent
  <2>1. UNCHANGED <<rootGen, metaGen, due, unchecked>> /\ ~Draining'
    BY <1>13 DEF TakeEvent, session, Draining
  <2> QED
    BY <1>0, <1>1, <2>1 DEF DueFits
<1>14. (\E p \in Path : Change(p)) \/ UNCHANGED vars => DueFits'
  BY <1>2 DEF Change, roots, session, Draining, vars
<1> QED
  BY <1>3, <1>4, <1>5, <1>6, <1>7, <1>8, <1>9, <1>10, <1>11, <1>12, <1>13, <1>14
     DEF Next, SessionStep

\* The moves of a root's status, with what goes with those that matter.
LEMMA StatusMoves ==
    ASSUME Inductive, [Next]_vars, NEW r \in Root, rootStatus'[r] # rootStatus[r]
    PROVE  /\ rootStatus[r] # "removed"
           /\ \/ rootStatus'[r] \in {"removed", "error", "overflow_reconciling"}
              \/ rootStatus[r] \in {"absent", "active", "disconnected", "degraded"}
              \/ /\ rootStatus[r] = "paused"
                 /\ rootGen'[r] = rootGen[r] + 1 /\ metaGen' = metaGen
              \/ /\ rootStatus[r] = "overflow_reconciling"
                 /\ \/ due'[r] = "disconnect"
                    \/ \E u \in Run : /\ RecordPage(u) /\ run[u].root = r /\ run[u].status = "running"
                                      /\ page[u].completed /\ noticed' = noticed \ page[u].fresh
<1>0. rootStatus \in [Root -> {"absent", "removed"} \cup Statuses] /\ rootGen \in [Root -> Nat]
      /\ due \in [Root -> Run \cup Reasons \cup {"none"}]
  BY DEF Inductive, RootsOK, RunsOK
<1> DEFINE Goal ==
      /\ rootStatus[r] # "removed"
      /\ \/ rootStatus'[r] \in {"removed", "error", "overflow_reconciling"}
         \/ rootStatus[r] \in {"absent", "active", "disconnected", "degraded"}
         \/ /\ rootStatus[r] = "paused"
            /\ rootGen'[r] = rootGen[r] + 1 /\ metaGen' = metaGen
         \/ /\ rootStatus[r] = "overflow_reconciling"
            /\ \/ due'[r] = "disconnect"
               \/ \E u \in Run : /\ RecordPage(u) /\ run[u].root = r /\ run[u].status = "running"
                                 /\ page[u].completed /\ noticed' = noticed \ page[u].fresh
<1>1. ASSUME NEW q \in Root, AddRoot(q) \/ PauseRoot(q) \/ ResumeRoot(q) \/ RemoveRoot(q) PROVE Goal
  <2>1. q = r
    BY <1>0, <1>1 DEF AddRoot, PauseRoot, ResumeRoot, RemoveRoot
  <2>2. AddRoot(q) \/ PauseRoot(q) => Goal
    BY <2>1 DEF AddRoot, PauseRoot
  <2>3. ResumeRoot(q) => Goal
    BY <1>0, <2>1 DEF ResumeRoot
  <2>4. RemoveRoot(q) => Goal
    BY <1>0, <2>1 DEF RemoveRoot, Live, Statuses
  <2> QED
    BY <1>1, <2>2, <2>3, <2>4
<1>2. ASSUME NEW q \in Root, NEW new \in Statuses, RecordHealth(q, new) PROVE Goal
  <2>1. q = r /\ rootStatus'[r] = new /\ HealthAllowed(rootStatus[r], new)
        /\ rootStatus[r] # "overflow_reconciling"
    BY <1>0, <1>2 DEF RecordHealth, ApplyHealth
  <2> QED
    BY <1>0, <2>1 DEF HealthAllowed, Statuses
<1>3. ASSUME NEW q \in Root, CheckRoot(q) PROVE Goal
  <2>1. /\ q = r /\ HealthAllowed(rootStatus[r], "disconnected")
        /\ due' = [due EXCEPT ![r] = "disconnect"]
    BY <1>0, <1>3 DEF CheckRoot, ApplyHealth
  <2>2. due'[r] = "disconnect"
    BY <1>0, <2>1
  <2> QED
    BY <1>0, <2>1, <2>2 DEF HealthAllowed, Statuses
<1>4. ASSUME NEW u \in Run, RecordPage(u) PROVE Goal
  <2>1. /\ run[u].status = "running" /\ page[u].completed /\ noticed' = noticed \ page[u].fresh
        /\ run[u].root = r /\ rootStatus[r] = "overflow_reconciling"
    BY <1>0, <1>4, RecordMoves
  <2> QED
    BY <1>4, <2>1
<1>5. ASSUME NEW e, Ingest(e), Accepts(e) PROVE Goal
  BY <1>0, <1>5 DEF Ingest, Accepts, EventRoot
<1>6. RootStep => Goal
  BY <1>1, <1>2 DEF RootStep
<1>7. RunStep => Goal
  BY <1>4 DEF RunStep, BeginRun, ResumeRun, StopRun, ScanPage, roots
<1>8. SessionStep => Goal
  BY <1>3, <1>5 DEF SessionStep, BeginSession, Watch, Started, StopIntake, Drain, Persist, Join,
                    Complete, roots
<1>9. CheckStep => rootStatus' = rootStatus
  BY DEF CheckStep, BeginPending, Recheck, Copy, Register, Fail, roots
<1>10. TakeEvent => Goal
  BY <1>5 DEF TakeEvent
<1>11. (\E p \in Path : Change(p)) \/ Crash \/ UNCHANGED vars => rootStatus' = rootStatus
  BY DEF Change, Crash, vars, roots
<1> HIDE DEF Goal
<1>12. Goal
  BY <1>6, <1>7, <1>8, <1>9, <1>10, <1>11 DEF Next
<1> QED
  BY <1>12 DEF Goal

\* A change an observer hears is in the queue, or its overflow is.
LEMMA ChangeIsHeld ==
    ASSUME Inductive, NEW p \in Path, Change(p), (p \in noticed' /\ p \notin noticed) \/ page' # page
    PROVE  InMemory(p)'
<1>0. queue \in Seq(Path) /\ drained \in Seq(Events) /\ RootOf[p] \in Root
  BY RootAssumption DEF Inductive, IntakeOK
<1>1. Enqueue(p)
  BY DEF Change
<1>2. CASE queue' = Append(queue, p)
  <2>1. p \in ToSet(queue')
    BY <1>0, <1>2, ToSetOps
  <2> QED
    BY <2>1 DEF InMemory
<1>3. CASE overflowed' = overflowed \cup {RootOf[p]}
  BY <1>3 DEF InMemory
<1> QED
  BY <1>1, <1>2, <1>3 DEF Enqueue

\* What memory holds of a change leaves it only for a row, or with the session.
LEMMA MemoryStep ==
    ASSUME Inductive, MemoryFitsStage, [Next]_vars, NEW p \in noticed, p \in noticed', InMemory(p)
    PROVE  \/ InMemory(p)'
           \/ /\ rootStatus'[RootOf[p]] = "overflow_reconciling"
              /\ Working => Open(RootOf[p]) = {}
           \/ ~flushed' /\ stage' \notin {"down", "starting", "up"}
           \/ Complete \/ Crash
<1>0. /\ queue \in Seq(Path) /\ drained \in Seq(Events) /\ p \in Path /\ RootOf[p] \in Root
      /\ overflowed \subseteq Root /\ IsFiniteSet(overflowed)
      /\ rootStatus \in [Root -> {"absent", "removed"} \cup Statuses]
      /\ Root \cap Path = {}
  BY RootAssumption, FS_Subset DEF Inductive, IntakeOK, Marks, RootsOK
<1> DEFINE Goal ==
      \/ InMemory(p)'
      \/ /\ rootStatus'[RootOf[p]] = "overflow_reconciling"
         /\ Working => Open(RootOf[p]) = {}
      \/ ~flushed' /\ stage' \notin {"down", "starting", "up"}
      \/ Complete \/ Crash
<1>1. UNCHANGED <<queue, drained, overflowed>> => Goal
  BY DEF InMemory
<1>2. ASSUME NEW e \in Path, Ingest(e) PROVE e # p
  BY <1>0, <1>2 DEF Ingest
<1>3. ASSUME NEW r \in Root, Ingest(r), RootOf[p] = r PROVE rootStatus'[RootOf[p]] = "overflow_reconciling"
  BY <1>0, <1>3 DEF Ingest
<1>4. ASSUME NEW q \in Path, Change(q) PROVE Goal
  <2>1. drained' = drained
    BY <1>4 DEF Change, session
  <2>2. ToSet(queue) \subseteq ToSet(queue') /\ overflowed \subseteq overflowed'
    <3>1. CASE queue' = Append(queue, q) /\ overflowed' = overflowed
      <4>1. ToSet(queue') = ToSet(queue) \cup {q}
        BY <1>0, <3>1, ToSetOps
      <4> QED
        BY <3>1, <4>1
    <3>2. CASE overflowed' = overflowed \cup {RootOf[q]} /\ queue' = queue
      BY <3>2
    <3>3. CASE UNCHANGED <<queue, overflowed>>
      BY <3>3
    <3> QED
      BY <1>4, <3>1, <3>2, <3>3 DEF Change, Enqueue
  <2> QED
    BY <2>1, <2>2 DEF InMemory
<1>5. CASE TakeEvent
  <2>1. drained' = drained /\ stage = "up"
    BY <1>5 DEF TakeEvent, session
  <2>2. CASE queue # <<>> /\ Ingest(Head(queue)) /\ queue' = Tail(queue) /\ overflowed' = overflowed
    <3>1. Head(queue) \in Path /\ ToSet(queue) = {Head(queue)} \cup ToSet(queue')
      BY <1>0, <2>2, ToSetOps
    <3>2. Head(queue) # p
      BY <1>2, <2>2, <3>1
    <3> QED
      BY <2>1, <2>2, <3>1, <3>2 DEF InMemory
  <2>3. ASSUME NEW r \in overflowed, Ingest(r), Open(r) = {}, queue' = queue,
               overflowed' = overflowed \ {r}
        PROVE  Goal
    <3>1. CASE RootOf[p] = r
      BY <1>0, <1>3, <2>3, <3>1
    <3>2. CASE RootOf[p] # r
      BY <2>1, <2>3, <3>2 DEF InMemory
    <3> QED
      BY <3>1, <3>2
  <2> QED
    BY <1>5, <2>2, <2>3 DEF TakeEvent
<1>6. CASE Drain
  <2>1. drained = <<>> /\ drained' = queue \o SetToSeq(overflowed)
    BY <1>6 DEF Drain, MemoryFitsStage
  <2>2. queue \in Seq(Events) /\ SetToSeq(overflowed) \in Seq(Events)
    BY <1>0, SetToSeqType DEF Events
  <2>3. ToSet(drained') = ToSet(queue) \cup overflowed
    BY <1>0, <2>1, <2>2, ToSetOps, SetToSeqSet
  <2>4. ToSet(drained) = {}
    BY <1>0, <2>1, ToSetOps
  <2> QED
    BY <2>3, <2>4 DEF InMemory
<1>7. CASE Persist
  <2>1. UNCHANGED <<queue, overflowed, stage>> /\ drained # <<>>
        /\ stage \in {"ingesting", "reingesting"}
    BY <1>7 DEF Persist, intake
  <2>2. CASE Ingest(Head(drained)) /\ drained' = Tail(drained)
    <3>1. Head(drained) \in Events /\ ToSet(drained) = {Head(drained)} \cup ToSet(drained')
      BY <1>0, <2>1, <2>2, ToSetOps
    <3>2. CASE Head(drained) \in Path
      <4>1. Head(drained) # p /\ Head(drained) # RootOf[p]
        BY <1>0, <1>2, <2>2, <3>2
      <4> QED
        BY <2>1, <3>1, <4>1 DEF InMemory
    <3>3. CASE Head(drained) \in Root
      <4>1. CASE Head(drained) = RootOf[p]
        BY <1>3, <2>1, <2>2, <3>3, <4>1 DEF Working
      <4>2. CASE Head(drained) # RootOf[p]
        <5>1. Head(drained) # p
          BY <1>0, <3>3
        <5> QED
          BY <2>1, <3>1, <4>2, <5>1 DEF InMemory
      <4> QED
        BY <4>1, <4>2
    <3> QED
      BY <3>1, <3>2, <3>3 DEF Events
  <2>3. CASE flushed' = FALSE
    BY <2>1, <2>3
  <2> QED
    BY <1>7, <2>2, <2>3 DEF Persist
<1>8. RootStep \/ CheckStep \/ RunStep => UNCHANGED <<queue, drained, overflowed>>
  <2>1. RootStep => UNCHANGED <<queue, drained, overflowed>>
    BY DEF RootStep, AddRoot, PauseRoot, ResumeRoot, RemoveRoot, RecordHealth, intake, session
  <2>2. CheckStep => UNCHANGED <<queue, drained, overflowed>>
    BY DEF CheckStep, BeginPending, Recheck, Copy, Register, Fail, intake, session
  <2>3. RunStep => UNCHANGED <<queue, drained, overflowed>>
    BY DEF RunStep, BeginRun, ResumeRun, StopRun, ScanPage, RecordPage, intake, session
  <2> QED
    BY <2>1, <2>2, <2>3
<1>9. SessionStep => \/ UNCHANGED <<queue, drained, overflowed>>
                     \/ Drain \/ Persist \/ Complete
  BY DEF SessionStep, BeginSession, CheckRoot, Watch, Started, StopIntake, Join, intake, session
<1>10. UNCHANGED vars => UNCHANGED <<queue, drained, overflowed>>
  BY DEF vars, intake, session
<1> QED
  BY <1>1, <1>4, <1>5, <1>6, <1>7, <1>8, <1>9, <1>10 DEF Next

\* What is passed after a step was passed before it, unless it was just heard.
LEMMA PassedStep ==
    ASSUME Inductive, Inductive', RowsAgree, [Next]_vars, NEW p \in noticed, p \in noticed',
           NEW u \in Run, u \in Open(RootOf[p])', Passed(u, p)'
    PROVE  InMemory(p)' \/ (u \in Open(RootOf[p]) /\ Passed(u, p))
<1>0. /\ run \in [Run -> {NoRun} \cup RunRow] /\ page \in [Run -> {Null} \cup Page]
      /\ run'[u].root = RootOf[p] /\ run'[u].status \in {"running", "paused"}
      /\ p \in onDisk /\ p \in Path
      /\ p \in run'[u].done \/ (page'[u] # Null /\ p \notin page'[u].fresh
                                /\ (p \in page'[u].passed \/ page'[u].completed))
  BY DEF Inductive, RunsOK, Open, Passed, RowsAgree, Marks
<1> DEFINE Before == u \in Open(RootOf[p]) /\ Passed(u, p)
<1>1. ASSUME run'[u] = run[u], page'[u] \in {page[u], Null} PROVE Before
  BY <1>0, <1>1 DEF Open, Passed
<1>2. ASSUME NEW w \in Run, NEW r \in Root, NEW reason \in Reasons, BeginRun(r, w, reason)
      PROVE  Before
  <2>1. page' = page /\ run[w] = NoRun
        /\ run' = [run EXCEPT ![w] = [root |-> r, status |-> "running", reason |-> reason,
                                      done |-> {}]]
    BY <1>2 DEF BeginRun
  <2>2. CASE u = w
    <3>1. run'[u].done = {} /\ page'[u] = Null
      BY <1>0, <2>1, <2>2 DEF RowsAgree
    <3> QED
      BY <1>0, <3>1
  <2>3. CASE u # w
    BY <1>0, <1>1, <2>1, <2>3
  <2> QED
    BY <2>2, <2>3
<1>3. ASSUME NEW w \in Run, page' = page, run[w] \in RunRow, run[w].status \in {"running", "paused"},
             NEW s, run' = [run EXCEPT ![w].status = s]
      PROVE  Before
  <2>1. CASE u = w
    <3>1. run'[u].root = run[u].root /\ run'[u].done = run[u].done
      BY <1>0, <1>3, <2>1 DEF RunRow
    <3> QED
      BY <1>0, <1>3, <2>1, <3>1 DEF Open, Passed
  <2>2. CASE u # w
    BY <1>0, <1>1, <1>3, <2>2
  <2> QED
    BY <2>1, <2>2
<1>4. ASSUME NEW w \in Run, NEW r \in Root, ResumeRun(r, w) PROVE Before
  <2>1. run[w] \in RunRow /\ run[w].status \in {"running", "paused"}
    BY <1>4, ResumeKeepsRuns DEF Inductive
  <2>2. page' = page /\ run' = [run EXCEPT ![w].status = "running"]
    BY <1>4 DEF ResumeRun
  <2> QED
    BY <1>3, <2>1, <2>2
<1>5. ASSUME NEW w \in Run, NEW status \in {"paused", "cancelled"}, StopRun(w, status)
      PROVE  Before
  <2>1. page' = page /\ run' = [run EXCEPT ![w].status = status] /\ run[w].status = "running"
    BY <1>5 DEF StopRun
  <2>2. run[w] \in RunRow
    BY <2>1, OpenIsRow DEF Inductive
  <2> QED
    BY <1>3, <2>1, <2>2
<1>6. ASSUME NEW w \in Run, ScanPage(w) PROVE Before
  <2>1. run' = run
    BY <1>6 DEF ScanPage
  <2>2. CASE u = w
    <3>1. PICK new \in Page :
            /\ page' = [page EXCEPT ![u] = new]
            /\ \A q \in onDisk : RootOf[q] = run[u].root /\ q \notin new.fresh
                  /\ (q \in new.passed \/ new.completed) => q \in run[u].done
      BY <1>6, <2>2, ScanReads
    <3>2. page'[u] = new
      BY <1>0, <3>1
    <3>3. p \in run[u].done
      BY <1>0, <2>1, <3>1, <3>2
    <3> QED
      BY <1>0, <2>1, <3>3 DEF Open, Passed
  <2>3. CASE u # w
    <3>1. page'[u] = page[u]
      BY <1>0, <1>6, <2>3, ScanReads
    <3> QED
      BY <1>1, <2>1, <3>1
  <2> QED
    BY <2>2, <2>3
<1>7. ASSUME NEW w \in Run, RecordPage(w) PROVE Before
  <2>0. page' = [page EXCEPT ![w] = Null] /\ page[w] \in Page
    BY <1>7, RecordMoves
  <2>1. page'[u] \in {page[u], Null}
    BY <1>0, <2>0
  <2>2. CASE run'[u] = run[u]
    BY <1>1, <2>1, <2>2
  <2>3. CASE /\ u = w /\ run[u].status = "running" /\ run'[u].root = run[u].root
             /\ run'[u].done = run[u].done \cup page[u].passed
             /\ noticed' = noticed \ page[u].fresh
    <3>1. page'[u] = Null /\ page[u] # Null
      BY <1>0, <1>7, <2>0, <2>3 DEF RecordPage
    <3> QED
      BY <1>0, <2>3, <3>1 DEF Open, Passed
  <2> QED
    BY <1>7, <2>2, <2>3, RecordMoves
<1>8. RunStep => Before
  BY <1>2, <1>4, <1>5, <1>6, <1>7 DEF RunStep, Reasons
<1>9. ASSUME NEW q \in Path, Change(q) PROVE InMemory(p)' \/ Before
  <2>1. run' = run
    BY <1>9 DEF Change
  <2>2. CASE page' = page
    BY <1>1, <2>1, <2>2
  <2>3. CASE page' # page /\ q = p
    BY <1>9, <2>3, ChangeIsHeld
  <2>4. CASE page' # page /\ q # p
    <3>1. page'[u] = IF page[u] = Null THEN Null ELSE [page[u] EXCEPT !.fresh = @ \ {q}]
      BY <1>9, <2>4 DEF Change
    <3>2. CASE page[u] = Null
      BY <1>1, <2>1, <3>1, <3>2
    <3>3. CASE page[u] # Null
      <4>1. page[u] \in Page
        BY <1>0, <3>3
      <4>2. /\ page'[u].passed = page[u].passed /\ page'[u].completed = page[u].completed
            /\ page'[u].fresh = page[u].fresh \ {q}
        BY <3>1, <3>3, <4>1 DEF Page
      <4> QED
        BY <1>0, <2>1, <2>4, <3>3, <4>2 DEF Open, Passed
    <3> QED
      BY <3>2, <3>3
  <2> QED
    BY <2>2, <2>3, <2>4
<1>10. RootStep \/ CheckStep \/ TakeEvent \/ UNCHANGED vars => run' = run /\ page' = page
  BY DEF RootStep, AddRoot, PauseRoot, ResumeRoot, RemoveRoot, RecordHealth, CheckStep,
         BeginPending, Recheck, Copy, Register, Fail, TakeEvent, runs, vars
<1>11. SessionStep \/ Crash => run' = run /\ page'[u] \in {page[u], Null}
  BY DEF SessionStep, BeginSession, CheckRoot, Watch, Started, StopIntake, Drain, Persist, Join,
         Complete, Crash, Forget, runs
<1> QED
  BY <1>1, <1>8, <1>9, <1>10, <1>11 DEF Next

\* Steps between the beginning of a session and its end.
Within == ~BeginSession /\ ~Complete /\ ~Crash

LEMMA WithinSession ==
    ASSUME MemoryFitsStage, [Next]_vars, Within
    PROVE  /\ metaGen' = metaGen /\ resumed' = resumed
           /\ Working' => Working
           /\ stage' = "down" => stage = "down"
           /\ EndsUnclean => EndsUnclean'
           /\ stage # "up" => run' = run
<1> DEFINE Same == UNCHANGED <<metaGen, resumed, stage, flushed, clean>>
<1>1. RootStep => Same /\ stage = "up"
  BY DEF RootStep, AddRoot, PauseRoot, ResumeRoot, RemoveRoot, RecordHealth, session
<1>2. CheckStep => Same /\ run' = run
  BY DEF CheckStep, BeginPending, Recheck, Copy, Register, Fail, roots, session, runs
<1>3. RunStep => Same /\ stage = "up"
  BY DEF RunStep, BeginRun, ResumeRun, StopRun, ScanPage, RecordPage, roots, session
<1>4. (\E p \in Path : Change(p)) \/ TakeEvent \/ UNCHANGED vars => Same /\ run' = run
  BY DEF Change, TakeEvent, roots, session, runs, vars
<1>5. (\E r \in Root : CheckRoot(r) \/ Watch(r)) \/ Started \/ StopIntake \/ Drain \/ Persist \/ Join
        => UNCHANGED <<metaGen, resumed, clean, run>> /\ (flushed' = flushed \/ stage # "down")
  BY DEF CheckRoot, Watch, Started, StopIntake, Drain, Persist, Join, roots, session, runs
<1>6. (\E r \in Root : CheckRoot(r) \/ Watch(r)) \/ Started \/ StopIntake \/ Drain \/ Persist \/ Join
        => /\ stage' \in {"starting", "up"} => stage \in {"starting", "up"}
           /\ stage' # "down" /\ stage # "down"
           /\ ~flushed => ~flushed'
  <2> DEFINE Goal == /\ stage' \in {"starting", "up"} => stage \in {"starting", "up"}
                     /\ stage' # "down" /\ stage # "down"
                     /\ ~flushed => ~flushed'
  <2>1. ASSUME NEW r \in Root, CheckRoot(r) \/ Watch(r) PROVE Goal
    BY <2>1 DEF CheckRoot, Watch, session
  <2>2. Started \/ Drain => Goal
    BY DEF Started, Drain
  <2>3. StopIntake => Goal
    BY DEF StopIntake, MemoryFitsStage
  <2>4. Persist => Goal
    BY DEF Persist
  <2>5. Join => Goal
    <3>1. Join => (~flushed => ~flushed')
      BY Zenon DEF Join
    <3> QED
      BY <3>1 DEF Join
  <2> QED
    BY <2>1, <2>2, <2>3, <2>4, <2>5
<1> QED
  BY <1>1, <1>2, <1>3, <1>4, <1>5, <1>6 DEF Next, SessionStep, Within, Working, EndsUnclean

LEMMA PassedIsHeldStep ==
    ASSUME Inductive, Inductive', RowsAgree, MemoryFitsStage, MemoryFitsStage', PassedIsHeld,
           [Next]_vars
    PROVE  PassedIsHeld'
<1> SUFFICES ASSUME Working', NEW p \in noticed', NEW u \in Run, u \in Open(RootOf[p])',
                    Passed(u, p)', RootOf[p] \notin resumed', rootStatus'[RootOf[p]] # "removed"
             PROVE  InMemory(p)'
  BY DEF PassedIsHeld, Open
<1>0. p \in Path /\ RootOf[p] \in Root /\ stage' \in {"starting", "up"}
  BY RootAssumption DEF Inductive, Marks, Working
<1>1. CASE p \notin noticed
  BY <1>0, <1>1, NoticedGrows, ChangeIsHeld
<1>2. CASE p \in noticed /\ BeginSession
  <2>1. /\ rootStatus' = rootStatus /\ run' = run /\ page' = page
        /\ resumed' = resumed \cup {r \in Live : Open(r) # {}}
    BY <1>2 DEF BeginSession, runs
  <2>2. u \in Open(RootOf[p])
    BY <2>1 DEF Open
  <2>3. RootOf[p] \in Live
    <3>1. rootStatus[RootOf[p]] # "absent"
      BY <1>2 DEF RowsAgree
    <3> QED
      BY <1>0, <2>1, <3>1 DEF Live, Inductive, RootsOK
  <2> QED
    BY <2>1, <2>2, <2>3
<1>3. CASE p \in noticed /\ ~BeginSession
  <2>1. ~Complete /\ ~Crash
    BY <1>0 DEF Complete, Crash, Forget
  <2>2. Working /\ resumed' = resumed
    BY <1>3, <2>1, WithinSession DEF Within
  <2>3. rootStatus[RootOf[p]] # "removed"
    BY <1>0, StatusMoves
  <2>4. CASE u \in Open(RootOf[p]) /\ Passed(u, p)
    <3>1. InMemory(p)
      BY <1>3, <2>2, <2>3, <2>4 DEF PassedIsHeld
    <3> QED
      BY <1>0, <1>3, <2>1, <2>2, <2>4, <3>1, MemoryStep
  <2> QED
    BY <1>3, <2>4, PassedStep
<1> QED
  BY <1>1, <1>2, <1>3

-----------------------------------------------------------------------------
(* Every change stays traced                                                *)

LEMMA BeginKeepsTraces ==
    ASSUME Inductive, RowsAgree, MemoryFitsStage, BeginSession, NEW p \in noticed, Traced(p)
    PROVE  Traced(p)'
<1> DEFINE r == RootOf[p]
<1>0. /\ r \in Root /\ rootStatus \in [Root -> {"absent", "removed"} \cup Statuses]
      /\ rootGen \in [Root -> Nat] /\ metaGen \in Nat
      /\ drained = <<>> /\ queue = <<>> /\ overflowed = {} /\ flushed /\ due[r] = "none"
      /\ rootStatus[r] # "absent"
      /\ stage = "down"
  BY RootAssumption DEF Inductive, Marks, RootsOK, MemoryFitsStage, RowsAgree, BeginSession
<1>1. /\ rootStatus' = rootStatus /\ run' = run /\ due'[r] \in Recovery(r)
      /\ metaGen' = metaGen + 1 /\ resumed' = resumed \cup {q \in Live : Open(q) # {}}
      /\ rootGen' = [q \in Root |-> IF q \in Live THEN metaGen + 1 ELSE rootGen[q]]
  BY <1>0 DEF BeginSession, runs
<1> HIDE DEF r
<1>2. CASE rootStatus[r] \in {"overflow_reconciling", "removed", "error"}
  BY <1>1, <1>2 DEF Traced, r
<1>3. CASE Open(r) # {} /\ rootStatus[r] # "removed"
  <2>1. r \in Live
    BY <1>0, <1>3 DEF Live
  <2>2. r \in resumed'
    BY <1>1, <1>3, <2>1
  <2> QED
    BY <2>2 DEF Traced, r
<1>4. CASE rootStatus[r] = "paused"
  <2>1. r \in Live
    BY <1>0, <1>4 DEF Live, Statuses
  <2>2. rootGen'[r] = metaGen'
    BY <1>0, <1>1, <2>1
  <2>3. rootStatus'[r] = "paused" /\ rootGen'[r] >= metaGen'
    BY <1>0, <1>1, <1>4, <2>2
  <2> QED
    BY <2>3 DEF Traced, r
<1>5. CASE r \in resumed \/ \E u \in Run : run[u].root = r /\ run[u].status = "cancelled"
  BY <1>1, <1>5 DEF Traced, r
<1>6. CASE /\ Open(r) = {} /\ rootStatus[r] \notin {"overflow_reconciling", "removed", "error", "paused"}
           /\ rootGen[r] > metaGen \/ EndsUnclean
  <2>1. r \in Live /\ (~clean \/ rootGen[r] # metaGen)
    BY <1>0, <1>6 DEF Live, EndsUnclean
  <2>2. due'[r] \in {"disconnect", "unclean_shutdown"}
    BY <1>1, <1>6, <2>1 DEF Recovery
  <2>3. due'[r] \in Reasons
    BY <2>2 DEF Reasons
  <2> QED
    BY <2>3 DEF Traced, r
<1>7. ~InMemory(p) /\ due[r] \notin Reasons
  <2>1. ToSet(queue) = {} /\ ToSet(drained) = {}
    BY <1>0 DEF ToSet
  <2> QED
    BY <1>0, <2>1 DEF InMemory, Reasons
<1>8. Covered(p) => Open(r) # {}
  BY DEF Covered, r
<1>9. \/ Open(r) # {} \/ rootStatus[r] \in {"overflow_reconciling", "removed", "error", "paused"}
      \/ rootGen[r] > metaGen \/ EndsUnclean \/ r \in resumed
      \/ \E u \in Run : run[u].root = r /\ run[u].status = "cancelled"
  BY <1>7, <1>8 DEF Traced, r
<1> QED
  BY <1>2, <1>3, <1>4, <1>5, <1>6, <1>9

LEMMA EndKeepsTraces ==
    ASSUME Inductive, RowsAgree, MemoryFitsStage, DrainedIfFlushed, DueFits,
           Complete \/ Crash, NEW p \in noticed, Traced(p)
    PROVE  Traced(p)'
<1> DEFINE r == RootOf[p]
<1>0. /\ r \in Root /\ rootStatus \in [Root -> {"absent", "removed"} \cup Statuses]
      /\ due \in [Root -> Run \cup Reasons \cup {"none"}]
  BY RootAssumption DEF Inductive, Marks, RootsOK, RunsOK
<1>1. /\ UNCHANGED <<rootStatus, rootGen, metaGen, run, resumed>> /\ stage' = "down"
      /\ ~clean
  BY DEF Complete, Crash, Forget, roots, MemoryFitsStage
<1> HIDE DEF r
<1>2. Open(r)' = Open(r)
  BY <1>1 DEF Open
<1>3. CASE Open(r) # {}
  BY <1>1, <1>2, <1>3 DEF Traced, Working, r
<1>4. CASE Open(r) = {} /\ ~clean'
  BY <1>1, <1>2, <1>4 DEF Traced, EndsUnclean, r
<1>5. CASE Open(r) = {} /\ clean'
  <2>1. /\ stage = "reingesting" /\ flushed /\ drained = <<>>
    BY <1>1, <1>5 DEF Complete, Crash, roots
  <2>2. queue = <<>> /\ overflowed = {}
    BY <2>1 DEF DrainedIfFlushed
  <2>3. ~InMemory(p) /\ ~Covered(p) /\ ~EndsUnclean
    <3>1. ToSet(queue) = {} /\ ToSet(drained) = {}
      BY <2>1, <2>2 DEF ToSet
    <3> QED
      BY <1>5, <2>1, <2>2, <3>1 DEF InMemory, Covered, EndsUnclean, r
  <2>4. ASSUME due[r] \in Reasons
        PROVE  \/ rootStatus[r] \in {"overflow_reconciling", "removed", "error"}
               \/ rootStatus[r] = "paused" /\ rootGen[r] >= metaGen
    <3>1. due[r] # "none"
      BY <2>4 DEF Reasons
    <3>2. rootStatus[r] # "absent" /\ rootGen[r] >= metaGen /\ rootStatus[r] \notin Reconcilable
      BY <1>0, <2>1, <3>1 DEF DueFits, Draining
    <3> QED
      BY <1>0, <3>2 DEF Reconcilable, Statuses
  <2> QED
    BY <1>1, <1>5, <2>3, <2>4 DEF Traced, r
<1> QED
  BY <1>3, <1>4, <1>5

\* A run ends by the user, or by its last page.
LEMMA OpenEnds ==
    ASSUME Inductive, [Next]_vars, NEW r \in Root, NEW u \in Open(r), u \notin Open(r)'
    PROVE  \/ run'[u].root = r /\ run'[u].status = "cancelled"
           \/ RecordPage(u) /\ page[u].completed /\ noticed' = noticed \ page[u].fresh
<1>0. /\ run \in [Run -> {NoRun} \cup RunRow] /\ u \in Run
      /\ run[u].root = r /\ run[u].status \in {"running", "paused"} /\ run[u] \in RunRow
  BY OpenIsRow DEF Inductive, RunsOK, Open
<1>1. run'[u] # run[u]
  BY <1>0 DEF Open
<1>2. ASSUME NEW w \in Run, NEW q \in Root, NEW reason \in Reasons, BeginRun(q, w, reason) PROVE FALSE
  BY <1>0, <1>1, <1>2 DEF BeginRun, NoRun
<1>3. ASSUME NEW w \in Run, NEW s, run' = [run EXCEPT ![w].status = s]
      PROVE  run'[u].root = r /\ run'[u].status = s
  BY <1>0, <1>1, <1>3 DEF RunRow
<1>4. ASSUME NEW w \in Run, NEW q \in Root, ResumeRun(q, w) PROVE FALSE
  <2>1. run' = [run EXCEPT ![w].status = "running"]
    BY <1>4 DEF ResumeRun
  <2>2. run'[u].root = r /\ run'[u].status = "running"
    BY <1>3, <2>1
  <2> QED
    BY <1>0, <2>2 DEF Open
<1>5. ASSUME NEW w \in Run, NEW status \in {"paused", "cancelled"}, StopRun(w, status)
      PROVE  run'[u].root = r /\ run'[u].status = "cancelled"
  <2>1. run' = [run EXCEPT ![w].status = status]
    BY <1>5 DEF StopRun
  <2>2. run'[u].root = r /\ run'[u].status = status
    BY <1>3, <2>1
  <2>3. status # "paused"
    BY <1>0, <2>2 DEF Open
  <2> QED
    BY <2>2, <2>3
<1>6. ASSUME NEW w \in Run, RecordPage(w)
      PROVE  RecordPage(u) /\ page[u].completed /\ noticed' = noticed \ page[u].fresh
  <2>1. /\ u = w /\ run'[u].root = run[u].root
        /\ run'[u].status = IF page[u].completed THEN "completed" ELSE "running"
        /\ noticed' = noticed \ page[u].fresh
    BY <1>0, <1>1, <1>6, RecordMoves
  <2>2. page[u].completed
    BY <1>0, <2>1 DEF Open
  <2> QED
    BY <1>6, <2>1, <2>2
<1>7. RunStep => \/ run'[u].root = r /\ run'[u].status = "cancelled"
                 \/ RecordPage(u) /\ page[u].completed /\ noticed' = noticed \ page[u].fresh
  BY <1>1, <1>2, <1>4, <1>5, <1>6 DEF RunStep, Reasons, ScanPage
<1>8. RootStep \/ CheckStep \/ TakeEvent \/ UNCHANGED vars => run' = run
  BY DEF RootStep, AddRoot, PauseRoot, ResumeRoot, RemoveRoot, RecordHealth, CheckStep,
         BeginPending, Recheck, Copy, Register, Fail, TakeEvent, runs, vars
<1>9. SessionStep \/ Crash \/ (\E p \in Path : Change(p)) => run' = run
  BY DEF SessionStep, BeginSession, CheckRoot, Watch, Started, StopIntake, Drain, Persist, Join,
         Complete, Crash, Change, runs
<1> QED
  BY <1>1, <1>7, <1>8, <1>9 DEF Next

\* What startup asked for is replaced by another reconciliation, or by its run.
LEMMA DueMoves ==
    ASSUME Inductive, [Next]_vars, Within, NEW r \in Root, due[r] \in Reasons, due'[r] # due[r]
    PROVE  due'[r] = "disconnect" \/ \E u \in Run, reason \in Reasons : BeginRun(r, u, reason)
<1>0. due \in [Root -> Run \cup Reasons \cup {"none"}] /\ due[r] \notin Run
  BY RunAssumption DEF Inductive, RunsOK, Reasons
<1>1. RootStep \/ CheckStep \/ TakeEvent \/ UNCHANGED vars => due' = due
  BY DEF RootStep, AddRoot, PauseRoot, ResumeRoot, RemoveRoot, RecordHealth, CheckStep,
         BeginPending, Recheck, Copy, Register, Fail, TakeEvent, session, vars
<1>2. ASSUME NEW q \in Root, CheckRoot(q) PROVE due'[r] = "disconnect"
  BY <1>0, <1>2 DEF CheckRoot
<1>3. SessionStep => due' = due \/ \E q \in Root : CheckRoot(q)
  BY DEF SessionStep, Within, Watch, Started, StopIntake, Drain, Persist, Join, session
<1>4. (\E p \in Path : Change(p)) => due' = due
  BY DEF Change, session
<1>5. ASSUME NEW u \in Run, NEW q \in Root, NEW reason \in Reasons, BeginRun(q, u, reason) PROVE q = r
  BY <1>0, <1>5 DEF BeginRun
<1>6. ASSUME NEW u \in Run, NEW q \in Root, ResumeRun(q, u) PROVE FALSE
  BY <1>0, <1>6 DEF ResumeRun
<1>7. ASSUME NEW u \in Run, NEW status \in {"paused", "cancelled"}, StopRun(u, status) PROVE FALSE
  BY <1>0, <1>7 DEF StopRun
<1>8. RunStep => \E u \in Run, reason \in Reasons : BeginRun(r, u, reason)
  BY <1>5, <1>6, <1>7 DEF RunStep, Reasons, ScanPage, RecordPage, session
<1> QED
  BY <1>1, <1>2, <1>3, <1>4, <1>8 DEF Next, Within

LEMMA GenerationStays ==
    ASSUME Inductive, Inductive', [Next]_vars, Within, NEW r \in Root, rootStatus[r] # "absent"
    PROVE  rootGen'[r] >= rootGen[r]
<1>0. rootGen \in [Root -> Nat]
  BY DEF Inductive, RootsOK
<1>1. ASSUME NEW q \in Root, AddRoot(q) \/ ResumeRoot(q) PROVE rootGen'[r] >= rootGen[r]
  BY <1>0, <1>1 DEF AddRoot, ResumeRoot
<1>2. RootStep => rootGen' = rootGen \/ \E q \in Root : AddRoot(q) \/ ResumeRoot(q)
  BY DEF RootStep, PauseRoot, RemoveRoot, RecordHealth
<1>3. CheckStep \/ RunStep \/ TakeEvent \/ UNCHANGED vars => rootGen' = rootGen
  <2>1. CheckStep => rootGen' = rootGen
    BY DEF CheckStep, BeginPending, Recheck, Copy, Register, Fail, roots
  <2>2. RunStep => rootGen' = rootGen
    BY DEF RunStep, BeginRun, ResumeRun, StopRun, ScanPage, RecordPage, roots
  <2>3. TakeEvent \/ UNCHANGED vars => rootGen' = rootGen
    BY DEF TakeEvent, roots, vars
  <2> QED
    BY <2>1, <2>2, <2>3
<1>4. SessionStep => rootGen' = rootGen
  <2>1. (\E q \in Root : CheckRoot(q) \/ Watch(q)) => rootGen' = rootGen
    BY DEF CheckRoot, Watch, roots
  <2>2. Started \/ StopIntake \/ Drain \/ Join => rootGen' = rootGen
    BY DEF Started, StopIntake, Drain, Join, roots
  <2>3. Persist => rootGen' = rootGen
    BY DEF Persist, Ingest, roots
  <2> QED
    BY <2>1, <2>2, <2>3 DEF SessionStep, Within
<1>5. (\E p \in Path : Change(p)) => rootGen' = rootGen
  BY DEF Change, roots
<1> QED
  BY <1>0, <1>1, <1>2, <1>3, <1>4, <1>5 DEF Next, Within

LEMMA WithinKeepsTraces ==
    ASSUME Inductive, Inductive', RowsAgree, MemoryFitsStage, MemoryFitsStage', PassedIsHeld,
           [Next]_vars, Within, NEW p \in noticed, p \in noticed', Traced(p)
    PROVE  Traced(p)'
<1> DEFINE r == RootOf[p]
<1>0. /\ r \in Root /\ p \in Path /\ rootGen[r] \in Nat /\ rootGen'[r] \in Nat /\ metaGen \in Nat
      /\ rootStatus[r] # "absent" /\ rootGen'[r] >= rootGen[r] /\ metaGen' = metaGen
      /\ resumed' = resumed
  BY RootAssumption, GenerationStays, WithinSession DEF Inductive, Marks, RootsOK, RowsAgree
<1>1. ASSUME InMemory(p) PROVE Traced(p)'
  <2>1. CASE ~flushed' /\ stage' \notin {"down", "starting", "up"}
    BY <2>1 DEF Traced, EndsUnclean, Working
  <2>2. CASE InMemory(p)' \/ rootStatus'[r] = "overflow_reconciling"
    BY <2>2 DEF Traced
  <2> QED
    BY <1>1, <2>1, <2>2, MemoryStep DEF Within
<1>2. ASSUME NEW u \in Open(r), ~Passed(u, p) PROVE Traced(p)'
  <2>1. u \in Run
    BY DEF Open
  <2>2. CASE u \in Open(r)'
    <3>1. ~Passed(u, p)' \/ InMemory(p)'
      BY <1>2, <2>1, <2>2, PassedStep
    <3> QED
      BY <2>2, <3>1 DEF Traced, Covered
  <2>3. CASE run'[u].root = r /\ run'[u].status = "cancelled"
    BY <2>1, <2>3 DEF Traced
  <2>4. CASE RecordPage(u) /\ page[u].completed /\ noticed' = noticed \ page[u].fresh
    <3>1. Passed(u, p)
      BY <2>4 DEF RecordPage, Passed
    <3> QED
      BY <1>2, <3>1
  <2> QED
    BY <1>0, <2>2, <2>3, <2>4, OpenEnds
<1>3. ASSUME rootStatus[r] \in {"overflow_reconciling", "removed", "error"} PROVE Traced(p)'
  <2>1. CASE rootStatus'[r] = rootStatus[r]
    BY <1>3, <2>1 DEF Traced
  <2>2. CASE rootStatus'[r] \in {"removed", "error", "overflow_reconciling"}
    BY <2>2 DEF Traced
  <2>3. CASE due'[r] = "disconnect"
    BY <2>3 DEF Traced, Reasons
  <2>4. ASSUME NEW u \in Run, RecordPage(u), run[u].root = r, run[u].status = "running",
               page[u].completed, noticed' = noticed \ page[u].fresh,
               rootStatus[r] = "overflow_reconciling"
        PROVE  Traced(p)'
    <3>1. u \in Open(r) /\ Working /\ Passed(u, p)
      BY <2>4 DEF Open, Working, Passed, RecordPage
    <3>2. CASE r \in resumed
      BY <1>0, <3>2 DEF Traced
    <3>3. CASE r \notin resumed
      BY <1>1, <2>4, <3>1, <3>3 DEF PassedIsHeld
    <3> QED
      BY <3>2, <3>3
  <2> QED
    BY <1>0, <1>3, <2>1, <2>2, <2>3, <2>4, StatusMoves
<1>4. ASSUME due[r] \in Reasons PROVE Traced(p)'
  <2>1. CASE due'[r] = due[r] \/ due'[r] = "disconnect"
    BY <1>4, <2>1 DEF Traced, Reasons
  <2>2. ASSUME NEW u \in Run, NEW reason \in Reasons, BeginRun(r, u, reason) PROVE Traced(p)'
    <3>0. run \in [Run -> {NoRun} \cup RunRow]
      BY DEF Inductive, RunsOK
    <3>1. /\ page' = page /\ run[u] = NoRun
          /\ run' = [run EXCEPT ![u] = [root |-> r, status |-> "running", reason |-> reason,
                                        done |-> {}]]
      BY <2>2 DEF BeginRun
    <3>2. run'[u].root = r /\ run'[u].status = "running" /\ run'[u].done = {} /\ page'[u] = Null
      BY <3>0, <3>1 DEF RowsAgree
    <3> QED
      BY <3>2 DEF Traced, Covered, Open, Passed
  <2> QED
    BY <1>0, <1>4, <2>1, <2>2, DueMoves
<1>5. ASSUME rootGen[r] > metaGen PROVE Traced(p)'
  <2>1. rootGen'[r] > metaGen'
    BY <1>0, <1>5
  <2> QED
    BY <2>1 DEF Traced
<1>6. ASSUME rootStatus[r] = "paused" /\ rootGen[r] >= metaGen PROVE Traced(p)'
  <2>1. rootGen'[r] >= metaGen'
    BY <1>0, <1>6
  <2>2. CASE rootStatus'[r] = "paused"
    BY <2>1, <2>2 DEF Traced
  <2>3. CASE rootStatus'[r] \in {"removed", "error", "overflow_reconciling"}
    BY <2>3 DEF Traced
  <2>4. CASE rootGen'[r] = rootGen[r] + 1
    <3>1. rootGen'[r] > metaGen'
      BY <1>0, <1>6, <2>4
    <3> QED
      BY <3>1 DEF Traced
  <2> QED
    BY <1>0, <1>6, <2>2, <2>3, <2>4, StatusMoves
<1>7. ASSUME EndsUnclean /\ Open(r) = {} PROVE Traced(p)'
  <2>1. EndsUnclean' /\ run' = run
    BY <1>7, WithinSession DEF EndsUnclean, MemoryFitsStage
  <2>2. Open(r)' = {}
    BY <1>7, <2>1 DEF Open
  <2> QED
    BY <2>1, <2>2 DEF Traced
<1>8. ASSUME ~Working /\ Open(r) # {} PROVE Traced(p)'
  <2>1. ~Working' /\ run' = run
    BY <1>8, WithinSession DEF Working
  <2>2. Open(r)' # {}
    BY <1>8, <2>1 DEF Open
  <2> QED
    BY <2>1, <2>2 DEF Traced
<1>9. ASSUME r \in resumed PROVE Traced(p)'
  BY <1>0, <1>9 DEF Traced
<1>10. ASSUME NEW u \in Run, run[u].root = r, run[u].status = "cancelled" PROVE Traced(p)'
  <2>1. run'[u] = run[u]
    BY <1>10, StoppedRunStays DEF Stays
  <2> QED
    BY <1>10, <2>1 DEF Traced
<1> QED
  BY <1>1, <1>2, <1>3, <1>4, <1>5, <1>6, <1>7, <1>8, <1>9, <1>10 DEF Traced, Covered

LEMMA TracesStep == Inductive /\ Inductive' /\ Traces /\ [Next]_vars => Traces'
<1> SUFFICES ASSUME Inductive, Inductive', Traces, [Next]_vars PROVE Traces'
  OBVIOUS
<1>1. RowsAgree' /\ MemoryFitsStage' /\ DrainedIfFlushed' /\ DueFits'
  BY RowsAgreeStep, StageStep, DueFitsStep DEF Traces
<1>2. PassedIsHeld'
  BY <1>1, PassedIsHeldStep DEF Traces
<1>3. ASSUME NEW p \in noticed' PROVE Traced(p)'
  <2>1. CASE p \notin noticed
    <3>1. Change(p) /\ p \in Path
      BY <2>1, NoticedGrows DEF Inductive, Marks
    <3>2. InMemory(p)'
      BY <2>1, <3>1, ChangeIsHeld
    <3> QED
      BY <3>2 DEF Traced
  <2>2. CASE p \in noticed
    <3>1. Traced(p)
      BY <2>2 DEF Traces
    <3>2. CASE BeginSession
      BY <2>2, <3>1, <3>2, BeginKeepsTraces DEF Traces
    <3>3. CASE Complete \/ Crash
      BY <2>2, <3>1, <3>3, EndKeepsTraces DEF Traces
    <3>4. CASE Within
      BY <1>1, <2>2, <3>1, <3>4, WithinKeepsTraces DEF Traces
    <3> QED
      BY <3>2, <3>3, <3>4 DEF Within
  <2> QED
    BY <2>1, <2>2
<1> QED
  BY <1>1, <1>2, <1>3 DEF Traces

(* A change an observer saw is never lost from sight, whatever interrupts the
   session, faults it or changes the health of its roots: it is in memory, a
   run has still to pass it, or its root is one that startup will reconcile or
   that was set aside.  In particular no clean marker is written over one. *)
THEOREM NoticedTraced == Spec => []NoticedIsTraced
<1>1. Init => Traces
  <2> SUFFICES ASSUME Init PROVE Traces
    OBVIOUS
  <2>1. RowsAgree /\ MemoryFitsStage
    BY DEF Init, RowsAgree, MemoryFitsStage
  <2>2. DrainedIfFlushed /\ DueFits /\ PassedIsHeld /\ noticed = {}
    BY DEF Init, DrainedIfFlushed, DueFits, PassedIsHeld, Draining
  <2> QED
    BY <2>1, <2>2 DEF Traces
<1>2. Inductive /\ Traces => NoticedIsTraced
  <2> SUFFICES ASSUME Inductive, Traces, NEW p \in noticed
               PROVE  InMemory(p) \/ InRun(p) \/ WillReconcile(RootOf[p]) \/ SetAside(RootOf[p])
    BY DEF NoticedIsTraced
  <2>0. /\ RootOf[p] \in Root /\ rootGen[RootOf[p]] \in Nat /\ metaGen \in Nat
    BY RootAssumption DEF Inductive, RootsOK, Marks
  <2>1. Covered(p) => InRun(p)
    BY DEF Covered, InRun, Passed
  <2>2. rootGen[RootOf[p]] > metaGen => rootGen[RootOf[p]] # metaGen
    BY <2>0
  <2>3. Traced(p)
    BY DEF Traces
  <2> QED
    BY <2>1, <2>2, <2>3 DEF Traced, WillReconcile, SetAside, Working
<1> QED
  BY <1>1, <1>2, InductiveInit, InductiveStep, TracesStep, PTL DEF Spec

=============================================================================

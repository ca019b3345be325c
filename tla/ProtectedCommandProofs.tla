----------------------- MODULE ProtectedCommandProofs -----------------------
(***************************************************************************)
(* Proofs about ProtectedCommand, for every set of commands, every number  *)
(* of workers alive at once, every number of restarts and every choice of  *)
(* interruptions; from `Overlapping commands' on about the specification   *)
(* with the history of overlaps, under the same conditions.                *)
(***************************************************************************)
EXTENDS CommandOverlap, FiniteSetTheorems, TLAPS

USE NullAssumption, BoundAssumption

-----------------------------------------------------------------------------
(* The values Init, Submit and the directory operations write are typed.    *)
LEMMA Constants ==
    /\ Absent \in Directory /\ Unverified \in Directory
    /\ NoJob \in Job
    /\ ~IsImage(Absent) /\ ~IsImage(Unverified)
  BY DEF Directory, Images, Absent, Unverified, Job, NoJob, Basis, IsImage

LEMMA JobFields ==
    ASSUME NEW c \in Command, MemoryTypeOK
    PROVE  job[c].gen \in Nat /\ job[c].expected \in Nat /\ job[c].basis \in Basis
  BY DEF MemoryTypeOK, Job

LEMMA JobType ==
    ASSUME NEW g \in Nat, NEW v \in Nat, NEW b \in Basis
    PROVE  [gen |-> g, expected |-> v, basis |-> b] \in Job
  BY DEF Job

LEMMA ImageType ==
    ASSUME NEW c \in Command, NEW g \in Nat, NEW n \in Nat
    PROVE  Image(c, g, n) \in Directory /\ IsImage(Image(c, g, n))
  BY DEF Directory, Images, Image, IsImage

-----------------------------------------------------------------------------
(* The variables keep their types under every step of the pipeline.         *)
LEMMA TypeInit == Init => TypeOK
<1> SUFFICES ASSUME Init PROVE TypeOK
  OBVIOUS
<1>1. DatabaseTypeOK
  BY DEF Init, DatabaseTypeOK
<1>2. DiskTypeOK
  BY Constants DEF Init, DiskTypeOK
<1>3. MemoryTypeOK
  BY Constants DEF Init, MemoryTypeOK
<1> QED BY <1>1, <1>2, <1>3 DEF TypeOK

LEMMA DatabaseTypeStep == TypeOK /\ [Next]_vars => DatabaseTypeOK'
<1> SUFFICES ASSUME TypeOK, [Next]_vars PROVE DatabaseTypeOK'
  OBVIOUS
<1> USE DEF TypeOK, DatabaseTypeOK, database
<1>1. ASSUME NEW c \in Command, WorkerStep(c) PROVE DatabaseTypeOK'
  BY <1>1 DEF WorkerStep, StartWorker, Backup, CheckCancelled, RetirePrevious,
              DemoteCurrent, PromoteStaging, DropRetired, WorkerFault, mainSide
<1>2. ASSUME NEW c \in Command, Delivery(c) PROVE DatabaseTypeOK'
  <2>1. CASE DeliverWithoutCommit(c)
    BY <2>1 DEF DeliverWithoutCommit
  <2>2. CASE Activate(c)
    <3>1. job[c].gen \in Nat
      BY JobFields
    <3> QED BY <2>2, <3>1 DEF Activate
  <2>3. CASE ActivateFails(c)
    BY <2>3 DEF ActivateFails, MarkFailed
  <2>4. CASE Commit(c)
    <3>1. version' \in [Entity -> Nat]
      <4>1. version' = [e \in Entity |-> IF e = target[c] THEN version[e] + 1 ELSE version[e]]
        BY <2>4 DEF Commit
      <4>2. \A e \in Entity : version[e] + 1 \in Nat
        OBVIOUS
      <4> QED BY <4>1, <4>2
    <3>2. log' \in Seq(Command)
      BY <2>4 DEF Commit
    <3>3. status' \in [Command -> {"absent", "running", "failed", "committed"}]
      BY <2>4 DEF Commit
    <3> QED BY <2>4, <3>1, <3>2, <3>3 DEF Commit
  <2>5. CASE CommitFails(c)
    BY <2>5 DEF CommitFails, MarkFailed
  <2> QED BY <1>2, <2>1, <2>2, <2>3, <2>4, <2>5 DEF Delivery
<1>3. ASSUME NEW c \in Command, UserStep(c) PROVE DatabaseTypeOK'
  <2>1. ASSUME NEW e \in Entity, NEW b \in Basis, Submit(c, e, b) PROVE DatabaseTypeOK'
    BY <2>1 DEF Submit
  <2>2. CASE Replay(c) \/ Cancel(c)
    BY <2>2 DEF Replay, Cancel
  <2> QED BY <1>3, <2>1, <2>2 DEF UserStep
<1>4. CASE Close \/ Restart \/ UNCHANGED vars
  BY <1>4 DEF Close, Restart, vars
<1> QED BY <1>1, <1>2, <1>3, <1>4 DEF Next

LEMMA DiskTypeStep == TypeOK /\ [Next]_vars => DiskTypeOK'
<1> SUFFICES ASSUME TypeOK, [Next]_vars PROVE DiskTypeOK'
  OBVIOUS
<1> USE DEF TypeOK, DiskTypeOK, files
<1>1. ASSUME NEW c \in Command, WorkerStep(c) PROVE DiskTypeOK'
  <2> USE Constants
  <2>1. CASE StartWorker(c)
    BY <2>1 DEF StartWorker
  <2>2. CASE Backup(c)
    <3>1. Len(log) \in Nat /\ job[c].gen \in Nat
      BY JobFields DEF DatabaseTypeOK
    <3>2. Image(c, job[c].gen, Len(log)) \in Directory
      BY ImageType, <3>1
    <3> QED BY <2>2, <3>2 DEF Backup
  <2>3. CASE CheckCancelled(c)
    BY <2>3 DEF CheckCancelled
  <2>4. CASE RetirePrevious(c)
    BY <2>4 DEF RetirePrevious
  <2>5. CASE DemoteCurrent(c)
    BY <2>5 DEF DemoteCurrent
  <2>6. CASE PromoteStaging(c)
    BY <2>6 DEF PromoteStaging
  <2>7. CASE DropRetired(c)
    BY <2>7 DEF DropRetired
  <2>8. CASE WorkerFault(c)
    BY <2>8 DEF WorkerFault
  <2> QED BY <1>1, <2>1, <2>2, <2>3, <2>4, <2>5, <2>6, <2>7, <2>8 DEF WorkerStep
<1>2. ASSUME NEW c \in Command, Delivery(c) PROVE DiskTypeOK'
  BY <1>2 DEF Delivery, DeliverWithoutCommit, Activate, ActivateFails, Commit, CommitFails
<1>3. ASSUME NEW c \in Command, UserStep(c) PROVE DiskTypeOK'
  BY <1>3 DEF UserStep, Submit, Replay, Cancel
<1>4. CASE Restart
  BY <1>4, Constants DEF Restart, Layout
<1>5. CASE Close \/ UNCHANGED vars
  BY <1>5 DEF Close, vars
<1> QED BY <1>1, <1>2, <1>3, <1>4, <1>5 DEF Next

LEMMA MemoryTypeStep == TypeOK /\ [Next]_vars => MemoryTypeOK'
<1> SUFFICES ASSUME TypeOK, [Next]_vars PROVE MemoryTypeOK'
  OBVIOUS
<1> USE DEF TypeOK, MemoryTypeOK, memory, WorkerSteps, Terminals
<1>1. ASSUME NEW c \in Command, WorkerStep(c) PROVE MemoryTypeOK'
  BY <1>1 DEF WorkerStep, StartWorker, Backup, CheckCancelled, RetirePrevious,
              DemoteCurrent, PromoteStaging, DropRetired, WorkerFault, mainSide, Goto
<1>2. ASSUME NEW c \in Command, Delivery(c) PROVE MemoryTypeOK'
  BY <1>2, Constants DEF Delivery, DeliverWithoutCommit, Activate, ActivateFails,
                         Commit, CommitFails, Finish, Goto
<1>3. ASSUME NEW c \in Command, UserStep(c) PROVE MemoryTypeOK'
  <2>1. ASSUME NEW e \in Entity, NEW b \in Basis, Submit(c, e, b) PROVE MemoryTypeOK'
    <3>1. \A g \in 1..MaxGeneration : [gen |-> g, expected |-> version[e], basis |-> b] \in Job
      BY JobType DEF DatabaseTypeOK
    <3> QED BY <2>1, <3>1 DEF Submit
  <2>2. CASE Replay(c)
    BY <2>2 DEF Replay
  <2>3. CASE Cancel(c)
    BY <2>3 DEF Cancel
  <2> QED BY <1>3, <2>1, <2>2, <2>3 DEF UserStep
<1>4. CASE Restart
  BY <1>4, Constants DEF Restart
<1>5. CASE Close \/ UNCHANGED vars
  BY <1>5 DEF Close, vars, InFlight
<1> QED BY <1>1, <1>2, <1>3, <1>4, <1>5 DEF Next

LEMMA TypeStep == TypeOK /\ [Next]_vars => TypeOK'
  BY DatabaseTypeStep, DiskTypeStep, MemoryTypeStep DEF TypeOK

(* Type correctness of the pipeline. *)
THEOREM TypeCorrect == Spec => []TypeOK
  BY TypeInit, TypeStep, PTL DEF Spec

-----------------------------------------------------------------------------
(* The inductive invariant.  One lemma per part; each assumes the whole     *)
(* invariant before the step.                                               *)

LEMMA IndInit == Init => IndInv
<1> SUFFICES ASSUME Init PROVE IndInv
  OBVIOUS
<1>1. TypeOK
  BY TypeInit
<1>2. InFlightIsRunning /\ OutcomeIsTruthful /\ CommittedHasRecoveryPoint
  BY DEF Init, InFlightIsRunning, OutcomeIsTruthful, CommittedHasRecoveryPoint
<1>3. AppliedAtMostOnce
  BY DEF Init, AppliedAtMostOnce, Occurs
<1>4. SlotsMatchPoints
  BY DEF Init, SlotsMatchPoints
<1>5. ImagesAreOld
  BY Constants DEF Init, ImagesAreOld, Disk
<1>6. RotationIsPrepared /\ ImageIsKept
  BY DEF Init, RotationIsPrepared, ImageIsKept
<1> QED BY <1>1, <1>2, <1>3, <1>4, <1>5, <1>6 DEF IndInv

LEMMA InFlightStep == IndInv /\ [Next]_vars => InFlightIsRunning'
<1> SUFFICES ASSUME IndInv, [Next]_vars PROVE InFlightIsRunning'
  OBVIOUS
<1> USE DEF IndInv, TypeOK, DatabaseTypeOK, MemoryTypeOK, InFlightIsRunning, database, memory, Goto, At
<1>1. ASSUME NEW c \in Command, WorkerStep(c) PROVE InFlightIsRunning'
  BY <1>1 DEF WorkerStep, StartWorker, Backup, CheckCancelled, RetirePrevious,
              DemoteCurrent, PromoteStaging, DropRetired, WorkerFault, mainSide, WorkerSteps
<1>2. ASSUME NEW c \in Command, Delivery(c) PROVE InFlightIsRunning'
  <2>1. CASE DeliverWithoutCommit(c)
    BY <2>1 DEF DeliverWithoutCommit, Finish, MainIdle
  <2>2. CASE Activate(c)
    BY <2>2 DEF Activate
  <2>3. CASE ActivateFails(c)
    BY <2>3 DEF ActivateFails, Finish, MarkFailed, MainIdle
  <2>4. CASE Commit(c)
    BY <2>4 DEF Commit, Finish
  <2>5. CASE CommitFails(c)
    BY <2>5 DEF CommitFails, Finish, MarkFailed
  <2> QED BY <1>2, <2>1, <2>2, <2>3, <2>4, <2>5 DEF Delivery
<1>3. ASSUME NEW c \in Command, UserStep(c) PROVE InFlightIsRunning'
  <2>1. ASSUME NEW e \in Entity, NEW b \in Basis, Submit(c, e, b) PROVE InFlightIsRunning'
    <3>1. PICK g \in 1..MaxGeneration :
            job' = [job EXCEPT ![c] = [gen |-> g, expected |-> version[e], basis |-> b]]
      BY <2>1 DEF Submit
    <3>2. job'[c].gen # 0 /\ \A d \in Command \ {c} : job'[d] = job[d]
      BY <3>1
    <3> QED BY <2>1, <3>2 DEF Submit
  <2>2. CASE Replay(c) \/ Cancel(c)
    BY <2>2 DEF Replay, Cancel
  <2> QED BY <1>3, <2>1, <2>2 DEF UserStep
<1>4. CASE Close \/ Restart \/ UNCHANGED vars
  BY <1>4 DEF Close, Restart, vars
<1> QED BY <1>1, <1>2, <1>3, <1>4 DEF Next

(* The log grows only by a running command, which is not in it yet.         *)
LEMMA AppliedStep == IndInv /\ [Next]_vars => AppliedAtMostOnce'
<1> SUFFICES ASSUME IndInv, [Next]_vars PROVE AppliedAtMostOnce'
  OBVIOUS
<1> USE DEF IndInv, TypeOK, DatabaseTypeOK, AppliedAtMostOnce, Occurs, database
<1>1. ASSUME NEW c \in Command, WorkerStep(c) PROVE AppliedAtMostOnce'
  BY <1>1 DEF WorkerStep, StartWorker, Backup, CheckCancelled, RetirePrevious,
              DemoteCurrent, PromoteStaging, DropRetired, WorkerFault, mainSide
<1>2. ASSUME NEW c \in Command, Delivery(c) PROVE AppliedAtMostOnce'
  <2>1. CASE Commit(c)
    <3>1. /\ log' = Append(log, c) /\ ~Occurs(c)
          /\ status' = [status EXCEPT ![c] = "committed"]
      BY <2>1 DEF Commit
    <3>2. /\ DOMAIN log' = 1..(Len(log) + 1) /\ DOMAIN log = 1..Len(log)
          /\ \A i \in 1..Len(log) : log'[i] = log[i] /\ log[i] # c
          /\ log'[Len(log) + 1] = c
      BY <3>1
    <3>3. ASSUME NEW i \in DOMAIN log', NEW j \in DOMAIN log', log'[i] = log'[j]
          PROVE  i = j
      <4>1. /\ i \in 1..Len(log) \/ i = Len(log) + 1
            /\ j \in 1..Len(log) \/ j = Len(log) + 1
        <5>1. Len(log) \in Nat
          OBVIOUS
        <5> HIDE DEF IndInv
        <5> QED BY <3>2, <5>1
      <4>2. CASE i \in 1..Len(log) /\ j \in 1..Len(log)
        <5>1. log[i] = log[j] /\ i \in DOMAIN log /\ j \in DOMAIN log
          BY <3>2, <3>3, <4>2
        <5> QED BY <5>1
      <4>3. CASE i = Len(log) + 1 \/ j = Len(log) + 1
        BY ONLY <3>2, <3>3, <4>1, <4>3
      <4> QED BY <4>1, <4>2, <4>3
    <3>4. ASSUME NEW d \in Command PROVE Occurs(d)' <=> Occurs(d) \/ d = c
      <4>1. Occurs(d) => Occurs(d)'
        <5>1. \A i \in DOMAIN log : i \in DOMAIN log' /\ log'[i] = log[i]
          BY <3>2
        <5> QED BY <5>1
      <4>2. Occurs(c)'
        <5>1. Len(log) + 1 \in DOMAIN log'
          BY <3>2
        <5> QED BY <3>2, <5>1
      <4>3. ASSUME Occurs(d)', d # c PROVE Occurs(d)
        <5>1. PICK i \in DOMAIN log' : log'[i] = d
          BY <4>3
        <5>2. i \in DOMAIN log /\ log[i] = d
          BY <3>2, <4>3, <5>1
        <5> QED BY <5>2
      <4> QED BY <4>1, <4>2, <4>3
    <3>5. \A d \in Command : status'[d] = "committed" <=> status[d] = "committed" \/ d = c
      BY <3>1
    <3> QED BY <3>3, <3>4, <3>5
  <2>2. CASE DeliverWithoutCommit(c) \/ Activate(c)
    BY <2>2 DEF DeliverWithoutCommit, Activate
  <2>3. CASE ActivateFails(c) \/ CommitFails(c)
    <3>1. /\ log' = log
          /\ \A d \in Command : status'[d] = "committed" <=> status[d] = "committed"
      <4>1. CASE ActivateFails(c)
        <5>1. wpc[c] = "completed" => status[c] = "running"
          BY DEF InFlightIsRunning
        <5> QED BY <4>1, <5>1 DEF ActivateFails, MarkFailed
      <4>2. CASE CommitFails(c)
        BY <4>2 DEF CommitFails, MarkFailed
      <4> QED BY <2>3, <4>1, <4>2
    <3> QED BY <3>1
  <2> QED BY <1>2, <2>1, <2>2, <2>3 DEF Delivery
<1>3. ASSUME NEW c \in Command, UserStep(c) PROVE AppliedAtMostOnce'
  <2>1. ASSUME NEW e \in Entity, NEW b \in Basis, Submit(c, e, b) PROVE AppliedAtMostOnce'
    BY <2>1 DEF Submit, FreshKey
  <2>2. CASE Replay(c) \/ Cancel(c)
    BY <2>2 DEF Replay, Cancel
  <2> QED BY <1>3, <2>1, <2>2 DEF UserStep
<1>4. CASE Close \/ Restart \/ UNCHANGED vars
  BY <1>4 DEF Close, Restart, vars
<1> QED BY <1>1, <1>2, <1>3, <1>4 DEF Next

(* A handle finishes with what the database holds at that moment, and a     *)
(* committed row is never rewritten.                                        *)
LEMMA OutcomeStep == IndInv /\ [Next]_vars => OutcomeIsTruthful'
<1> SUFFICES ASSUME IndInv, [Next]_vars PROVE OutcomeIsTruthful'
  OBVIOUS
<1> USE DEF IndInv, TypeOK, DatabaseTypeOK, MemoryTypeOK, OutcomeIsTruthful, database
<1>1. ASSUME NEW c \in Command, WorkerStep(c) PROVE OutcomeIsTruthful'
  BY <1>1 DEF WorkerStep, StartWorker, Backup, CheckCancelled, RetirePrevious,
              DemoteCurrent, PromoteStaging, DropRetired, WorkerFault, mainSide
<1>2. ASSUME NEW c \in Command, Delivery(c) PROVE OutcomeIsTruthful'
  <2>1. CASE DeliverWithoutCommit(c)
    <3>1. status[c] = "running"
      BY <2>1 DEF DeliverWithoutCommit, At, InFlightIsRunning
    <3> QED BY <2>1, <3>1 DEF DeliverWithoutCommit, Finish
  <2>2. CASE Activate(c)
    BY <2>2 DEF Activate
  <2>3. CASE ActivateFails(c)
    BY <2>3 DEF ActivateFails, Finish, MarkFailed
  <2>4. CASE Commit(c)
    BY <2>4 DEF Commit, Finish
  <2>5. CASE CommitFails(c)
    BY <2>5 DEF CommitFails, Finish, MarkFailed
  <2> QED BY <1>2, <2>1, <2>2, <2>3, <2>4, <2>5 DEF Delivery
<1>3. ASSUME NEW c \in Command, UserStep(c) PROVE OutcomeIsTruthful'
  <2>1. ASSUME NEW e \in Entity, NEW b \in Basis, Submit(c, e, b) PROVE OutcomeIsTruthful'
    BY <2>1 DEF Submit
  <2>2. CASE Replay(c) \/ Cancel(c)
    BY <2>2 DEF Replay, Cancel
  <2> QED BY <1>3, <2>1, <2>2 DEF UserStep
<1>4. CASE Close \/ Restart \/ UNCHANGED vars
  BY <1>4 DEF Close, Restart, vars, memory
<1> QED BY <1>1, <1>2, <1>3, <1>4 DEF Next

(* Only Commit makes a row committed, and only under a registered point;    *)
(* a registered point is never withdrawn.                                   *)
LEMMA RecoveryPointStep == IndInv /\ [Next]_vars => CommittedHasRecoveryPoint'
<1> SUFFICES ASSUME IndInv, [Next]_vars PROVE CommittedHasRecoveryPoint'
  OBVIOUS
<1> USE DEF IndInv, TypeOK, DatabaseTypeOK, CommittedHasRecoveryPoint, database
<1>1. ASSUME NEW c \in Command, WorkerStep(c) PROVE CommittedHasRecoveryPoint'
  BY <1>1 DEF WorkerStep, StartWorker, Backup, CheckCancelled, RetirePrevious,
              DemoteCurrent, PromoteStaging, DropRetired, WorkerFault, mainSide
<1>2. ASSUME NEW c \in Command, Delivery(c) PROVE CommittedHasRecoveryPoint'
  <2>1. CASE Activate(c)
    <3>1. job[c].gen # 0
      BY <2>1 DEF Activate, At, InFlightIsRunning
    <3> QED BY <2>1, <3>1 DEF Activate
  <2>2. CASE ActivateFails(c) \/ CommitFails(c)
    BY <2>2 DEF ActivateFails, CommitFails, MarkFailed
  <2>3. CASE DeliverWithoutCommit(c) \/ Commit(c)
    BY <2>3 DEF DeliverWithoutCommit, Commit
  <2> QED BY <1>2, <2>1, <2>2, <2>3 DEF Delivery
<1>3. ASSUME NEW c \in Command, UserStep(c) PROVE CommittedHasRecoveryPoint'
  BY <1>3 DEF UserStep, Submit, Replay, Cancel
<1>4. CASE Close \/ Restart \/ UNCHANGED vars
  BY <1>4 DEF Close, Restart, vars
<1> QED BY <1>1, <1>2, <1>3, <1>4 DEF Next

(* Only Activate rewrites the slots and the points' states, and it rewrites *)
(* both.                                                                    *)
LEMMA SlotsStep == IndInv /\ [Next]_vars => SlotsMatchPoints'
<1> SUFFICES ASSUME IndInv, [Next]_vars PROVE SlotsMatchPoints'
  OBVIOUS
<1> USE DEF IndInv, TypeOK, DatabaseTypeOK, SlotsMatchPoints, database
<1>1. ASSUME UNCHANGED <<pointGen, pointState, slot>> PROVE SlotsMatchPoints'
  BY <1>1
<1>2. ASSUME NEW c \in Command, Activate(c) PROVE SlotsMatchPoints'
  <2>1. /\ slot'["current"] = c /\ slot'["previous"] = slot["current"]
        /\ pointGen' = [pointGen EXCEPT ![c] = job[c].gen] /\ pointGen[c] = 0
        /\ job[c].gen # 0
    BY <1>2 DEF Activate, At, InFlightIsRunning
  <2>2. c # slot["current"] /\ c # slot["previous"]
    BY <2>1
  <2>3. ASSUME NEW d \in Command
        PROVE  /\ pointState'[d] = "active_current" <=> slot'["current"] = d
               /\ pointState'[d] = "active_previous" <=> slot'["previous"] = d
               /\ pointState'[d] = "none" <=> pointGen'[d] = 0
    <3>1. pointState'[d] =
            CASE d = c                -> "active_current"
              [] d = slot["current"]  -> "active_previous"
              [] d = slot["previous"] -> "superseded"
              [] OTHER                -> pointState[d]
      BY <1>2 DEF Activate
    <3>2. CASE d = c
      BY <2>1, <2>2, <3>1, <3>2
    <3>3. CASE d = slot["current"]
      BY <2>1, <2>2, <3>1, <3>3
    <3>4. CASE d # c /\ d # slot["current"] /\ d = slot["previous"]
      BY <2>1, <2>2, <3>1, <3>4
    <3>5. CASE d # c /\ d # slot["current"] /\ d # slot["previous"]
      BY <2>1, <2>2, <3>1, <3>5
    <3> QED BY <3>2, <3>3, <3>4, <3>5
  <2>4. slot'["current"] # Null
    BY <2>1
  <2> QED BY <2>3, <2>4
<1>3. ASSUME NEW c \in Command, WorkerStep(c) PROVE UNCHANGED <<pointGen, pointState, slot>>
  BY <1>3 DEF WorkerStep, StartWorker, Backup, CheckCancelled, RetirePrevious,
              DemoteCurrent, PromoteStaging, DropRetired, WorkerFault, mainSide
<1>4. ASSUME NEW c \in Command, Delivery(c), ~Activate(c)
      PROVE  UNCHANGED <<pointGen, pointState, slot>>
  BY <1>4 DEF Delivery, DeliverWithoutCommit, ActivateFails, Commit, CommitFails
<1>5. ASSUME NEW c \in Command, UserStep(c) PROVE UNCHANGED <<pointGen, pointState, slot>>
  BY <1>5 DEF UserStep, Submit, Replay, Cancel
<1>6. CASE Close \/ Restart \/ UNCHANGED vars
  BY <1>1, <1>6 DEF Close, Restart, vars
<1> QED BY <1>1, <1>2, <1>3, <1>4, <1>5, <1>6 DEF Next

(* What is in a directory after a step was in some directory before it, or  *)
(* is no image, or is the copy a worker just verified.                      *)
LEMMA DiskStep ==
    ASSUME IndInv, [Next]_vars, NEW d \in Disk'
    PROVE  \/ d \in Disk
           \/ ~IsImage(d)
           \/ \E c \in Command : Backup(c) /\ d = Image(c, job[c].gen, Len(log))
<1> DEFINE Carried == d \in Disk \/ ~IsImage(d)
<1>a. \/ d = current' \/ d = previous'
      \/ \E x \in Command : d = staging'[x]
      \/ \E x \in Command : d = retired'[x]
  BY DEF Disk
<1>b. /\ current \in Disk /\ previous \in Disk
      /\ \A x \in Command : staging[x] \in Disk /\ retired[x] \in Disk
  BY DEF Disk
<1>c. staging \in [Command -> Directory] /\ retired \in [Command -> Directory]
  BY DEF IndInv, TypeOK, DiskTypeOK
<1>d. ~IsImage(Absent) /\ ~IsImage(Unverified)
  BY Constants
<1> USE <1>a, <1>b, <1>c, <1>d DEF files
<1>1. ASSUME NEW c \in Command, WorkerStep(c)
      PROVE  Carried \/ (Backup(c) /\ d = Image(c, job[c].gen, Len(log)))
  <2>1. CASE StartWorker(c)
    BY <2>1 DEF StartWorker
  <2>2. CASE Backup(c)
    BY <2>2 DEF Backup
  <2>3. CASE CheckCancelled(c)
    BY <2>3 DEF CheckCancelled
  <2>4. CASE RetirePrevious(c)
    BY <2>4 DEF RetirePrevious
  <2>5. CASE DemoteCurrent(c)
    BY <2>5 DEF DemoteCurrent
  <2>6. CASE PromoteStaging(c)
    BY <2>6 DEF PromoteStaging
  <2>7. CASE DropRetired(c)
    BY <2>7 DEF DropRetired
  <2>8. CASE WorkerFault(c)
    BY <2>8 DEF WorkerFault
  <2> QED BY <1>1, <2>1, <2>2, <2>3, <2>4, <2>5, <2>6, <2>7, <2>8 DEF WorkerStep
<1>2. ASSUME NEW c \in Command, Delivery(c) \/ UserStep(c) PROVE Carried
  BY <1>2 DEF Delivery, DeliverWithoutCommit, Activate, ActivateFails, Commit, CommitFails,
              UserStep, Submit, Replay, Cancel
<1>3. CASE Restart
  BY <1>3 DEF Restart, Layout
<1>4. CASE Close \/ UNCHANGED vars
  BY <1>4 DEF Close, vars
<1> QED BY <1>1, <1>2, <1>3, <1>4 DEF Next

(* The log changes only by Commit.                                          *)
LEMMA LogStep ==
    ASSUME IndInv, [Next]_vars
    PROVE  UNCHANGED log \/ \E c \in Command : Commit(c)
<1>1. ASSUME NEW c \in Command, WorkerStep(c) PROVE UNCHANGED log
  BY <1>1 DEF WorkerStep, StartWorker, Backup, CheckCancelled, RetirePrevious,
              DemoteCurrent, PromoteStaging, DropRetired, WorkerFault, mainSide, database
<1>2. ASSUME NEW c \in Command, Delivery(c) PROVE UNCHANGED log \/ Commit(c)
  BY <1>2 DEF Delivery, DeliverWithoutCommit, Activate, ActivateFails, CommitFails, database
<1>3. ASSUME NEW c \in Command, UserStep(c) PROVE UNCHANGED log
  BY <1>3 DEF UserStep, Submit, Replay, Cancel, database
<1>4. CASE Close \/ Restart \/ UNCHANGED vars
  BY <1>4 DEF Close, Restart, vars, database
<1> QED BY <1>1, <1>2, <1>3, <1>4 DEF Next

LEMMA ImagesAreOldStep == IndInv /\ [Next]_vars => ImagesAreOld'
<1> SUFFICES ASSUME IndInv, [Next]_vars, NEW d \in Disk', IsImage(d)
             PROVE  /\ d.upTo <= Len(log')
                    /\ \A i \in DOMAIN log' : log'[i] = d.owner => d.upTo < i
  BY DEF ImagesAreOld
<1>1. log \in Seq(Command) /\ DOMAIN log = 1..Len(log) /\ Len(log) \in Nat
  BY DEF IndInv, TypeOK, DatabaseTypeOK
<1>2. CASE d \in Disk
  <2>1. d.upTo <= Len(log) /\ \A i \in DOMAIN log : log[i] = d.owner => d.upTo < i
    BY <1>2 DEF IndInv, ImagesAreOld
  <2>2. d.upTo \in Nat
    BY <1>2, Constants DEF IndInv, TypeOK, DiskTypeOK, Disk, Directory, Images, IsImage
  <2>3. CASE UNCHANGED log
    BY <2>1, <2>3
  <2>4. ASSUME NEW c \in Command, Commit(c)
        PROVE  /\ Len(log') = Len(log) + 1 /\ DOMAIN log' = 1..(Len(log) + 1)
               /\ \A i \in 1..Len(log) : log'[i] = log[i]
    BY <1>1, <2>4 DEF Commit
  <2> QED BY <1>1, <2>1, <2>2, <2>3, <2>4, LogStep
<1>3. ASSUME NEW c \in Command, Backup(c), d = Image(c, job[c].gen, Len(log))
      PROVE  d.upTo = Len(log) /\ log' = log /\ \A i \in DOMAIN log : log[i] # d.owner
  <2>1. d.upTo = Len(log) /\ d.owner = c
    BY <1>3 DEF Image
  <2>2. status[c] # "committed"
    BY <1>3 DEF Backup, At, IndInv, InFlightIsRunning
  <2>3. ~Occurs(c)
    BY <2>2 DEF IndInv, AppliedAtMostOnce
  <2>4. UNCHANGED log
    BY <1>3 DEF Backup, mainSide, database
  <2> QED BY <2>1, <2>3, <2>4 DEF Occurs
<1> QED BY <1>1, <1>2, <1>3, DiskStep

(* A worker's staging and retired directories are written by that worker    *)
(* alone.                                                                   *)
LEMMA RotationStep == IndInv /\ [Next]_vars => RotationIsPrepared'
<1> SUFFICES ASSUME IndInv, [Next]_vars PROVE RotationIsPrepared'
  OBVIOUS
<1>a. /\ staging \in [Command -> Directory] /\ retired \in [Command -> Directory]
      /\ wpc \in [Command -> {"none"} \cup WorkerSteps \cup Terminals]
      /\ status \in [Command -> {"absent", "running", "failed", "committed"}]
  BY DEF IndInv, TypeOK, DiskTypeOK, MemoryTypeOK, DatabaseTypeOK
<1>b. RotationIsPrepared /\ \A c \in Command : wpc[c] # "none" => status[c] = "running"
  BY DEF IndInv, InFlightIsRunning
<1> USE <1>a, <1>b DEF RotationIsPrepared, At, Goto, mainSide, database, files
<1>1. ASSUME NEW c \in Command, WorkerStep(c) PROVE RotationIsPrepared'
  <2>1. CASE StartWorker(c)
    BY <2>1 DEF StartWorker
  <2>2. CASE Backup(c)
    <3>1. IsImage(Image(c, job[c].gen, Len(log)))
      BY DEF Image, IsImage
    <3> QED BY <2>2, <3>1 DEF Backup
  <2>3. CASE CheckCancelled(c)
    BY <2>3 DEF CheckCancelled
  <2>4. CASE RetirePrevious(c)
    BY <2>4 DEF RetirePrevious
  <2>5. CASE DemoteCurrent(c)
    BY <2>5 DEF DemoteCurrent
  <2>6. CASE PromoteStaging(c)
    BY <2>6 DEF PromoteStaging
  <2>7. CASE DropRetired(c)
    BY <2>7 DEF DropRetired
  <2>8. CASE WorkerFault(c)
    BY <2>8 DEF WorkerFault
  <2> QED BY <1>1, <2>1, <2>2, <2>3, <2>4, <2>5, <2>6, <2>7, <2>8 DEF WorkerStep
<1>2. ASSUME NEW c \in Command, Delivery(c) PROVE RotationIsPrepared'
  BY <1>2 DEF Delivery, DeliverWithoutCommit, Activate, ActivateFails, Commit, CommitFails,
              Finish, MarkFailed
<1>3. ASSUME NEW c \in Command, UserStep(c) PROVE RotationIsPrepared'
  BY <1>3 DEF UserStep, Submit, Replay, Cancel, FreshKey
<1>4. CASE Close \/ Restart \/ UNCHANGED vars
  BY <1>4 DEF Close, Restart, vars, memory
<1> QED BY <1>1, <1>2, <1>3, <1>4 DEF Next

(* No rename and no removal destroys the last image that is kept.           *)
LEMMA ImageIsKeptStep == IndInv /\ [Next]_vars => ImageIsKept'
<1> SUFFICES ASSUME IndInv, [Next]_vars PROVE ImageIsKept'
  OBVIOUS
<1>a. /\ staging \in [Command -> Directory] /\ retired \in [Command -> Directory]
      /\ wpc \in [Command -> {"none"} \cup WorkerSteps \cup Terminals]
      /\ slot \in [{"current", "previous"} -> Command \cup {Null}]
  BY DEF IndInv, TypeOK, DiskTypeOK, MemoryTypeOK, DatabaseTypeOK
<1>b. RotationIsPrepared /\ ImageIsKept
  BY DEF IndInv
<1>c. ~IsImage(Absent) /\ ~IsImage(Unverified)
  BY Constants
<1> USE <1>a, <1>b, <1>c DEF ImageIsKept, HasKeptImage, At, Goto, mainSide, database, files
<1>1. ASSUME NEW c \in Command, WorkerStep(c) PROVE ImageIsKept'
  <2>1. CASE StartWorker(c)
    BY <2>1 DEF StartWorker
  <2>2. CASE Backup(c) \/ CheckCancelled(c)
    BY <2>2 DEF Backup, CheckCancelled
  <2>3. CASE RetirePrevious(c)
    BY <2>3 DEF RetirePrevious, RotationIsPrepared
  <2>4. CASE DemoteCurrent(c)
    BY <2>4 DEF DemoteCurrent, CanRenameOnto
  <2>5. CASE PromoteStaging(c)
    BY <2>5 DEF PromoteStaging, RotationIsPrepared
  <2>6. CASE DropRetired(c)
    BY <2>6 DEF DropRetired
  <2>7. CASE WorkerFault(c)
    BY <2>7 DEF WorkerFault
  <2> QED BY <1>1, <2>1, <2>2, <2>3, <2>4, <2>5, <2>6, <2>7 DEF WorkerStep
<1>2. ASSUME NEW c \in Command, Delivery(c) PROVE ImageIsKept'
  BY <1>2 DEF Delivery, DeliverWithoutCommit, Activate, ActivateFails, Commit, CommitFails, Finish
<1>3. ASSUME NEW c \in Command, UserStep(c) PROVE ImageIsKept'
  BY <1>3 DEF UserStep, Submit, Replay, Cancel
<1>4. CASE Close \/ UNCHANGED vars
  BY <1>4 DEF Close, vars, memory
<1>5. CASE Restart
  BY <1>5 DEF Restart, Layout
<1> QED BY <1>1, <1>2, <1>3, <1>4, <1>5 DEF Next

LEMMA IndStep == IndInv /\ [Next]_vars => IndInv'
<1> SUFFICES ASSUME IndInv, [Next]_vars PROVE IndInv'
  OBVIOUS
<1>1. TypeOK'
  BY TypeStep DEF IndInv
<1>2. InFlightIsRunning' /\ AppliedAtMostOnce' /\ OutcomeIsTruthful'
  BY InFlightStep, AppliedStep, OutcomeStep
<1>3. CommittedHasRecoveryPoint' /\ SlotsMatchPoints'
  BY RecoveryPointStep, SlotsStep
<1>4. ImagesAreOld' /\ RotationIsPrepared' /\ ImageIsKept'
  BY ImagesAreOldStep, RotationStep, ImageIsKeptStep
<1> QED BY <1>1, <1>2, <1>3, <1>4 DEF IndInv

(* The inductive invariant holds in every reachable state.                  *)
THEOREM Inductive == Spec => []IndInv
  BY IndInit, IndStep, PTL DEF Spec

-----------------------------------------------------------------------------
(* The properties the invariant implies.                                    *)

(* A key changes the domain at most once, and exactly when its row says     *)
(* committed.                                                               *)
THEOREM AtMostOnce == Spec => []AppliedAtMostOnce
<1>1. IndInv => AppliedAtMostOnce
  BY DEF IndInv
<1> QED BY Inductive, <1>1, PTL

(* What a handle told the user is true of the database.                     *)
THEOREM Truthful == Spec => []OutcomeIsTruthful
<1>1. IndInv => OutcomeIsTruthful
  BY DEF IndInv
<1> QED BY Inductive, <1>1, PTL

(* No domain row changes without a recovery point of the same command.      *)
THEOREM Protected == Spec => []CommittedHasRecoveryPoint
<1>1. IndInv => CommittedHasRecoveryPoint
  BY DEF IndInv
<1> QED BY Inductive, <1>1, PTL

(* recovery_slots and recovery_points.physical_state agree.                 *)
THEOREM SlotsAgree == Spec => []SlotsMatchPoints
<1>1. IndInv => SlotsMatchPoints
  BY DEF IndInv
<1> QED BY Inductive, <1>1, PTL

(* No image on disk contains the change of the command it protects.         *)
THEOREM ImagesPredate == Spec => []ImagePredatesOwner
<1>1. IndInv => ImagePredatesOwner
  BY DEF IndInv, ImagesAreOld, ImagePredatesOwner
<1> QED BY Inductive, <1>1, PTL

(* Once a recovery point was registered, an image is always on disk.        *)
THEOREM ImageSurvives == Spec => []SomeImageSurvives
<1>1. IndInv => SomeImageSurvives
  BY DEF IndInv, ImageIsKept, HasKeptImage, SomeImageSurvives, Disk
<1> QED BY Inductive, <1>1, PTL

-----------------------------------------------------------------------------
(* The pipeline implements the ledger.                                      *)

(* A step that leaves the log and what the rows amount to alone stutters.   *)
LEMMA Stutter ==
    ASSUME UNCHANGED <<log, status>>
    PROVE  UNCHANGED Ledger!vars
  BY DEF Ledger!vars, Outcome

LEMMA RefineInit == Init => Ledger!Init
  BY DEF Init, Ledger!Init, Outcome

(* Giving a running row up is a rejection; leaving it running, or marking a *)
(* row that is no longer running, is nothing.                               *)
LEMMA GiveUp ==
    ASSUME IndInv, NEW c \in Command, status[c] \in {"running", "failed", "committed"},
           MarkFailed(c) \/ UNCHANGED status, UNCHANGED log
    PROVE  Ledger!Reject(c) \/ UNCHANGED Ledger!vars
<1>1. status \in [Command -> {"absent", "running", "failed", "committed"}]
  BY DEF IndInv, TypeOK, DatabaseTypeOK
<1>2. CASE status[c] = "running" /\ MarkFailed(c)
  BY <1>1, <1>2 DEF MarkFailed, Ledger!Reject, Outcome
<1>3. CASE status[c] # "running" \/ UNCHANGED status
  <2>1. UNCHANGED status
    BY <1>1, <1>3 DEF MarkFailed
  <2> QED BY <2>1, Stutter
<1> QED BY <1>2, <1>3

LEMMA RefineStep == IndInv /\ [Next]_vars => [Ledger!Next]_(Ledger!vars)
<1> SUFFICES ASSUME IndInv, [Next]_vars PROVE Ledger!Next \/ UNCHANGED Ledger!vars
  OBVIOUS
<1>a. status \in [Command -> {"absent", "running", "failed", "committed"}]
  BY DEF IndInv, TypeOK, DatabaseTypeOK
<1>b. \A c \in Command : wpc[c] # "none" => status[c] = "running"
  BY DEF IndInv, InFlightIsRunning
<1> USE DEF database
<1>1. ASSUME NEW c \in Command, WorkerStep(c) PROVE UNCHANGED <<log, status>>
  BY <1>1 DEF WorkerStep, StartWorker, Backup, CheckCancelled, RetirePrevious,
              DemoteCurrent, PromoteStaging, DropRetired, WorkerFault, mainSide
<1>2. ASSUME NEW c \in Command, Delivery(c) PROVE Ledger!Next \/ UNCHANGED Ledger!vars
  <2>1. CASE DeliverWithoutCommit(c) \/ Activate(c)
    BY <2>1, Stutter DEF DeliverWithoutCommit, Activate
  <2>2. CASE ActivateFails(c)
    BY <2>2, <1>b, GiveUp DEF ActivateFails, At, Ledger!Next
  <2>3. CASE Commit(c)
    <3>1. Ledger!Apply(c)
      BY <1>a, <2>3 DEF Commit, Ledger!Apply, Outcome
    <3> QED BY <3>1 DEF Ledger!Next
  <2>4. CASE CommitFails(c)
    <3>1. status[c] = "running"
      BY <1>b, <2>4, NullAssumption DEF CommitFails, IndInv, InFlightIsRunning
    <3> QED BY <2>4, <3>1, GiveUp DEF CommitFails, Ledger!Next
  <2> QED BY <1>2, <2>1, <2>2, <2>3, <2>4 DEF Delivery
<1>3. ASSUME NEW c \in Command, UserStep(c) PROVE Ledger!Next \/ UNCHANGED Ledger!vars
  <2>1. ASSUME NEW e \in Entity, NEW b \in Basis, Submit(c, e, b) PROVE Ledger!Accept(c)
    BY <1>a, <2>1 DEF Submit, FreshKey, Ledger!Accept, Outcome
  <2>2. CASE Replay(c) \/ Cancel(c)
    BY <2>2, Stutter DEF Replay, Cancel
  <2> QED BY <1>3, <2>1, <2>2 DEF UserStep, Ledger!Next
<1>4. CASE Close \/ Restart \/ UNCHANGED vars
  BY <1>4, Stutter DEF Close, Restart, vars
<1> QED BY <1>1, <1>2, <1>3, <1>4, Stutter DEF Next

(* Whatever fails, is cancelled, races or restarts, the pipeline behaves    *)
(* like the ledger: every accepted key is applied at most once, together    *)
(* with its final outcome.                                                  *)
THEOREM Refinement == Spec => ImplementsLedger
<1>1. Spec => Ledger!Spec
  BY Inductive, RefineInit, RefineStep, PTL DEF Spec, Ledger!Spec
<1> QED BY <1>1 DEF ImplementsLedger

-----------------------------------------------------------------------------
(* Progress: the safety half of HandleFinishes.                             *)

(* A handle the user sees running is one somebody still works for: its      *)
(* worker runs, its terminal signal is queued, or the main thread persists  *)
(* it (start, _finish).                                                     *)
RunningHandleIsInFlight ==
    \A c \in Command : handle[c] = "running" <=> wpc[c] # "none"

(* How many steps of its own a command has left at most: those of           *)
(* OperationWorker.run, then the two transactions of its completion.        *)
StepsLeft(c) ==
    IF main = c THEN 1
    ELSE CASE wpc[c] = "none"     -> 0
           [] wpc[c] = "queued"   -> 9
           [] wpc[c] = "copying"  -> 8
           [] wpc[c] = "verified" -> 7
           [] wpc[c] = "retire"   -> 6
           [] wpc[c] = "demote"   -> 5
           [] wpc[c] = "promote"  -> 4
           [] wpc[c] = "drop"     -> 3
           [] OTHER               -> 2

(* No step of anybody takes a command in flight further from its end, and   *)
(* every step of its own worker, or of the main thread for it, takes it     *)
(* nearer: there is no retry and no wait that could go round in a circle    *)
(* (OperationWorker.run, _completed, _finish).                              *)
PipelineAdvances ==
    [][\A c \in Command : wpc[c] # "none" =>
          /\ StepsLeft(c)' <= StepsLeft(c)
          /\ WorkerStep(c) \/ Delivery(c) => StepsLeft(c)' < StepsLeft(c)]_vars

LEMMA StepsAreBounded ==
    \A c \in Command : StepsLeft(c) \in 0..9 /\ StepsLeft(c)' \in 0..9
  BY DEF StepsLeft

LEMMA InFlightHandleStep ==
    IndInv /\ RunningHandleIsInFlight /\ [Next]_vars => RunningHandleIsInFlight'
<1> SUFFICES ASSUME IndInv, RunningHandleIsInFlight, [Next]_vars
             PROVE  RunningHandleIsInFlight'
  OBVIOUS
<1> USE DEF IndInv, TypeOK, MemoryTypeOK, RunningHandleIsInFlight, memory, Goto, At
<1>1. ASSUME NEW c \in Command, WorkerStep(c) PROVE RunningHandleIsInFlight'
  BY <1>1 DEF WorkerStep, StartWorker, Backup, CheckCancelled, RetirePrevious,
              DemoteCurrent, PromoteStaging, DropRetired, WorkerFault, mainSide, WorkerSteps
<1>2. ASSUME NEW c \in Command, Delivery(c) PROVE RunningHandleIsInFlight'
  BY <1>2 DEF Delivery, DeliverWithoutCommit, Activate, ActivateFails,
              Commit, CommitFails, Finish
<1>3. ASSUME NEW c \in Command, UserStep(c) PROVE RunningHandleIsInFlight'
  BY <1>3 DEF UserStep, Submit, Replay, Cancel
<1>4. CASE Close \/ Restart \/ UNCHANGED vars
  BY <1>4 DEF Close, Restart, vars
<1> QED BY <1>1, <1>2, <1>3, <1>4 DEF Next

(* A step of the worker of c, and what it leaves to the main thread.        *)
LEMMA WorkerAdvances ==
    ASSUME IndInv, NEW c \in Command, WorkerStep(c)
    PROVE  /\ StepsLeft(c)' < StepsLeft(c)
           /\ \A d \in Command \ {c} : StepsLeft(d)' = StepsLeft(d)
<1> USE DEF IndInv, TypeOK, MemoryTypeOK, InFlightIsRunning, Goto, At
<1>1. main' = main /\ main # c
  <2>1. wpc[c] # "completed"
    BY DEF WorkerStep, StartWorker, Backup, CheckCancelled, RetirePrevious,
           DemoteCurrent, PromoteStaging, DropRetired, WorkerFault, WorkerSteps
  <2>2. main' = main
    BY DEF WorkerStep, StartWorker, Backup, CheckCancelled, RetirePrevious,
           DemoteCurrent, PromoteStaging, DropRetired, WorkerFault, mainSide
  <2> QED BY <2>1, <2>2
<1>2. \A d \in Command \ {c} : wpc'[d] = wpc[d]
  BY DEF WorkerStep, StartWorker, Backup, CheckCancelled, RetirePrevious,
         DemoteCurrent, PromoteStaging, DropRetired, WorkerFault
<1>3. \/ wpc[c] = "queued" /\ wpc'[c] \in {"copying", "completed", "failed", "cancelled"}
      \/ wpc[c] = "copying" /\ wpc'[c] \in {"verified", "failed"}
      \/ wpc[c] = "verified" /\ wpc'[c] \in {"retire", "failed"}
      \/ wpc[c] = "retire" /\ wpc'[c] \in {"demote", "failed"}
      \/ wpc[c] = "demote" /\ wpc'[c] \in {"promote", "failed"}
      \/ wpc[c] = "promote" /\ wpc'[c] \in {"drop", "failed"}
      \/ wpc[c] = "drop" /\ wpc'[c] \in {"completed", "failed", "cancelled"}
  BY DEF WorkerStep, StartWorker, Backup, CheckCancelled, RetirePrevious,
         DemoteCurrent, PromoteStaging, DropRetired, WorkerFault, WorkerSteps
<1> QED BY <1>1, <1>2, <1>3 DEF StepsLeft

(* A step of the main thread for c.                                         *)
LEMMA DeliveryAdvances ==
    ASSUME IndInv, NEW c \in Command, Delivery(c)
    PROVE  /\ StepsLeft(c)' < StepsLeft(c)
           /\ \A d \in Command \ {c} : StepsLeft(d)' = StepsLeft(d)
<1> USE DEF IndInv, TypeOK, MemoryTypeOK, InFlightIsRunning, Goto, At, MainIdle
<1>1. CASE Activate(c)
  <2>1. main = Null /\ main' = c /\ wpc' = wpc /\ wpc[c] = "completed"
    BY <1>1 DEF Activate
  <2> QED BY <2>1 DEF StepsLeft
<1>2. CASE ~Activate(c)
  <2>1. /\ main \in {Null, c} /\ main' = Null
        /\ wpc' = [wpc EXCEPT ![c] = "none"]
        /\ wpc[c] \in Terminals
    BY <1>2 DEF Delivery, DeliverWithoutCommit, ActivateFails, Commit, CommitFails,
                Finish, Terminals
  <2>2. wpc'[c] = "none" /\ \A d \in Command \ {c} : wpc'[d] = wpc[d]
    BY <2>1
  <2> QED BY <2>1, <2>2 DEF StepsLeft, Terminals
<1> QED BY <1>1, <1>2

(* The user and the machine leave a command in flight where it is, or end   *)
(* it with the process.                                                     *)
LEMMA OthersDoNotDelay ==
    ASSUME IndInv,
           (\E d \in Command : UserStep(d)) \/ Close \/ Restart \/ UNCHANGED vars,
           NEW c \in Command, wpc[c] # "none"
    PROVE  StepsLeft(c)' <= StepsLeft(c)
<1> USE DEF IndInv, TypeOK, MemoryTypeOK, memory
<1>1. CASE Restart
  <2>1. wpc'[c] = "none" /\ main' = Null
    BY <1>1 DEF Restart
  <2>2. StepsLeft(c)' = 0
    BY <2>1 DEF StepsLeft
  <2> QED BY <2>2, StepsAreBounded
<1>2. CASE ~Restart
  <2>1. wpc'[c] = wpc[c] /\ main' = main
    BY <1>2 DEF UserStep, Submit, Replay, Cancel, Close, vars
  <2>2. StepsLeft(c)' = StepsLeft(c)
    BY <2>1 DEF StepsLeft
  <2> QED BY <2>2, StepsAreBounded
<1> QED BY <1>1, <1>2

(* A running handle always has a command in flight behind it, which is at   *)
(* most nine steps of its own from its end and never moves away from it,    *)
(* whatever the user, the machine and the other commands do.                *)
THEOREM Advances == Spec => []RunningHandleIsInFlight /\ PipelineAdvances
<1>1. Init => RunningHandleIsInFlight
  BY DEF Init, RunningHandleIsInFlight
<1>2. ASSUME IndInv, [Next]_vars, NEW c \in Command, wpc[c] # "none"
      PROVE  /\ StepsLeft(c)' <= StepsLeft(c)
             /\ WorkerStep(c) \/ Delivery(c) => StepsLeft(c)' < StepsLeft(c)
  <2>1. WorkerStep(c) \/ Delivery(c) => StepsLeft(c)' < StepsLeft(c)
    BY <1>2, WorkerAdvances, DeliveryAdvances
  <2>2. CASE \E d \in Command : WorkerStep(d) \/ Delivery(d)
    <3>1. PICK d \in Command : WorkerStep(d) \/ Delivery(d)
      BY <2>2
    <3>2. StepsLeft(c)' < StepsLeft(c) \/ StepsLeft(c)' = StepsLeft(c)
      BY <1>2, <3>1, WorkerAdvances, DeliveryAdvances
    <3> QED BY <2>1, <3>2, StepsAreBounded
  <2>3. CASE (\E d \in Command : UserStep(d)) \/ Close \/ Restart \/ UNCHANGED vars
    BY <1>2, <2>1, <2>3, OthersDoNotDelay
  <2> QED BY <1>2, <2>2, <2>3 DEF Next
<1>3. IndInv /\ [Next]_vars =>
        [\A c \in Command : wpc[c] # "none" =>
          /\ StepsLeft(c)' <= StepsLeft(c)
          /\ WorkerStep(c) \/ Delivery(c) => StepsLeft(c)' < StepsLeft(c)]_vars
  BY <1>2
<1> QED BY <1>1, <1>3, InFlightHandleStep, Inductive, PTL DEF Spec, PipelineAdvances

-----------------------------------------------------------------------------
(* Overlapping commands.  Lemmas with OneInFlight among their assumptions   *)
(* are about a step of, or beside, a command that nobody overlaps; those    *)
(* with OneInFlight' about a step that lets nobody overlap.                 *)

LEMMA StateTypes ==
    ASSUME IndInv
    PROVE  /\ status \in [Command -> {"absent", "running", "failed", "committed"}]
           /\ pointGen \in [Command -> Nat]
           /\ slot \in [{"current", "previous"} -> Command \cup {Null}]
           /\ log \in Seq(Command) /\ Len(log) \in Nat
           /\ current \in Directory /\ previous \in Directory
           /\ staging \in [Command -> Directory] /\ retired \in [Command -> Directory]
           /\ wpc \in [Command -> {"none"} \cup WorkerSteps \cup Terminals]
           /\ job \in [Command -> Job] /\ \A c \in Command : job[c].gen \in Nat
           /\ main \in Command \cup {Null}
<1> USE DEF IndInv, TypeOK, DatabaseTypeOK, DiskTypeOK, MemoryTypeOK
<1>1. \A c \in Command : job[c].gen \in Nat
  BY JobFields
<1> QED BY <1>1

(* Whoever is in flight is running, and the main thread waits for nobody    *)
(* while a worker works.                                                    *)
LEMMA Alone ==
    ASSUME IndInv, OneInFlight, NEW c \in Command, wpc[c] # "none"
    PROVE  /\ status[c] = "running" /\ job[c].gen # 0
           /\ \A d \in Command : d # c => wpc[d] = "none"
           /\ wpc[c] # "completed" => main = Null
           /\ main \in {Null, c}
<1>1. main # Null => main \in Command /\ wpc[main] = "completed"
  BY StateTypes DEF IndInv, InFlightIsRunning
<1> QED BY <1>1 DEF IndInv, InFlightIsRunning, OneInFlight

(* Nobody is in flight when a command is submitted that will be alone.      *)
LEMMA AloneAtSubmit ==
    ASSUME IndInv, OneInFlight',
           NEW c \in Command, NEW e \in Entity, NEW b \in Basis, Submit(c, e, b)
    PROVE  \A d \in Command : wpc[d] = "none"
<1> SUFFICES ASSUME NEW d \in Command, wpc[d] # "none" PROVE FALSE
  OBVIOUS
<1>1. wpc[c] = "none" /\ wpc' = [wpc EXCEPT ![c] = "queued"]
  BY DEF Submit
<1>2. d # c /\ wpc'[c] # "none" /\ wpc'[d] # "none"
  BY <1>1, StateTypes
<1> QED BY <1>2 DEF OneInFlight

(* How a command gets into flight, and what it keeps there.                 *)
LEMMA FlightStep ==
    ASSUME IndInv, [Next]_vars, NEW c \in Command, wpc'[c] # "none"
    PROVE  \/ \E e \in Entity, b \in Basis : Submit(c, e, b)
           \/ wpc[c] # "none" /\ job'[c] = job[c]
<1> USE StateTypes DEF Goto, At
<1>1. ASSUME NEW x \in Command, WorkerStep(x) PROVE wpc[c] # "none" /\ job' = job
  BY <1>1 DEF WorkerStep, StartWorker, Backup, CheckCancelled, RetirePrevious,
              DemoteCurrent, PromoteStaging, DropRetired, WorkerFault, mainSide, WorkerSteps
<1>2. ASSUME NEW x \in Command, Delivery(x) PROVE wpc[c] # "none" /\ job'[c] = job[c]
  BY <1>2 DEF Delivery, DeliverWithoutCommit, Activate, ActivateFails, Commit, CommitFails, Finish
<1>3. ASSUME NEW x \in Command, UserStep(x)
      PROVE  (\E e \in Entity, b \in Basis : Submit(c, e, b)) \/ (wpc[c] # "none" /\ job'[c] = job[c])
  <2>1. ASSUME NEW e \in Entity, NEW b \in Basis, Submit(x, e, b), x # c
        PROVE  wpc[c] # "none" /\ job'[c] = job[c]
    BY <2>1 DEF Submit
  <2> QED BY <1>3, <2>1 DEF UserStep, Replay, Cancel
<1>4. CASE Close \/ Restart \/ UNCHANGED vars
  BY <1>4 DEF Close, Restart, vars, memory
<1> QED BY <1>1, <1>2, <1>3, <1>4 DEF Next

(* Registered generations only grow, and only Activate registers one; the   *)
(* main thread lets go of a command only when the pipeline does.            *)
LEMMA PointStep ==
    ASSUME IndInv, [Next]_vars
    PROVE  \/ /\ UNCHANGED <<pointGen, slot>>
              /\ main' = main \/ (main' = Null /\ main \in Command /\ wpc'[main] = "none")
           \/ \E c \in Command : Activate(c)
<1> USE StateTypes
<1>1. ASSUME NEW c \in Command, WorkerStep(c) PROVE UNCHANGED <<pointGen, slot, main>>
  BY <1>1 DEF WorkerStep, StartWorker, Backup, CheckCancelled, RetirePrevious,
              DemoteCurrent, PromoteStaging, DropRetired, WorkerFault, mainSide, database
<1>2. ASSUME NEW c \in Command, Commit(c) \/ CommitFails(c)
      PROVE  UNCHANGED <<pointGen, slot>> /\ main' = Null /\ main = c /\ wpc'[c] = "none"
  BY <1>2 DEF Commit, CommitFails, Finish, Goto
<1>3. ASSUME NEW c \in Command, DeliverWithoutCommit(c) \/ ActivateFails(c)
      PROVE  UNCHANGED <<pointGen, slot, main>>
  BY <1>3 DEF DeliverWithoutCommit, ActivateFails, database
<1>4. ASSUME NEW c \in Command, UserStep(c) PROVE UNCHANGED <<pointGen, slot, main>>
  BY <1>4 DEF UserStep, Submit, Replay, Cancel, database
<1>5. CASE Close \/ UNCHANGED vars
  BY <1>5 DEF Close, vars, database, memory
<1>6. CASE Restart
  BY <1>6 DEF Restart, database
<1> QED BY <1>1, <1>2, <1>3, <1>4, <1>5, <1>6 DEF Next, Delivery

LEMMA PointsGrow ==
    ASSUME IndInv, [Next]_vars, NEW d \in Command
    PROVE  pointGen[d] \in Nat /\ pointGen'[d] \in Nat /\ pointGen[d] <= pointGen'[d]
<1> USE StateTypes
<1>1. ASSUME NEW c \in Command, Activate(c) PROVE pointGen'[d] \in Nat /\ pointGen[d] <= pointGen'[d]
  <2>1. pointGen[c] = 0 /\ pointGen' = [pointGen EXCEPT ![c] = job[c].gen] /\ job[c].gen \in Nat
    BY <1>1 DEF Activate
  <2> QED BY <2>1
<1> QED BY <1>1, PointStep

LEMMA StillFollows ==
    ASSUME IndInv, [Next]_vars, NEW g \in Nat, Follows(g)
    PROVE  g = 1 \/ \E c \in Command : pointGen'[c] + 1 >= g
<1>1. ASSUME NEW c \in Command, pointGen[c] + 1 >= g PROVE pointGen'[c] + 1 >= g
  BY <1>1, PointsGrow
<1> QED BY <1>1 DEF Follows

(* What Activate does to the generations, when nobody else is in flight.    *)
LEMMA Activation ==
    ASSUME IndInv, OneInFlight, GenerationIsFresh, NEW c \in Command, Activate(c)
    PROVE  /\ wpc[c] = "completed" /\ main = Null /\ main' = c
           /\ Unregistered(job[c].gen) /\ job[c].gen # 0
           /\ pointGen' = [pointGen EXCEPT ![c] = job[c].gen]
           /\ pointGen'[c] = job[c].gen
           /\ \A d \in Command : d # c => pointGen'[d] = pointGen[d] /\ wpc[d] = "none"
           /\ \A d \in Command : pointGen[d] <= pointGen'[d]
           /\ slot'["current"] = c /\ slot'["previous"] = slot["current"]
           /\ slot["current"] # c
           /\ UNCHANGED <<status, log, files, wpc, job>>
<1> USE StateTypes
<1>1. wpc[c] = "completed" /\ main = Null /\ main' = c /\ pointGen[c] = 0
  BY NullAssumption DEF Activate, At, MainIdle
<1>2. Unregistered(job[c].gen) /\ job[c].gen # 0
  BY <1>1, Alone, NullAssumption DEF GenerationIsFresh
<1>3. /\ pointGen' = [pointGen EXCEPT ![c] = job[c].gen]
      /\ slot'["current"] = c /\ slot'["previous"] = slot["current"]
      /\ UNCHANGED <<status, log, files, wpc, job>>
  BY DEF Activate
<1>4. slot["current"] # c
  BY <1>1 DEF IndInv, SlotsMatchPoints
<1>5. \A d \in Command : d # c => wpc[d] = "none"
  BY <1>1, Alone
<1> QED BY <1>1, <1>2, <1>3, <1>4, <1>5 DEF Unregistered

(* An own image, field by field.                                            *)
LEMMA OwnFields ==
    ASSUME NEW c \in Command
    PROVE  /\ IsImage(OwnImage(c)) /\ OwnImage(c) # Absent /\ OwnImage(c) # Unverified
           /\ OwnImage(c).owner = c /\ OwnImage(c).gen = job[c].gen
           /\ OwnImage(c).upTo = Len(log)
  BY DEF OwnImage, Image, IsImage, Absent, Unverified

(* A staging directory is written once, by the copy of its own command.     *)
LEMMA StagedStep ==
    ASSUME IndInv, [Next]_vars, NEW c \in Command, IsImage(staging'[c])
    PROVE  \/ staging'[c] = staging[c]
           \/ Backup(c) /\ staging'[c] = OwnImage(c)
<1> USE StateTypes, Constants
<1>1. ASSUME NEW x \in Command, WorkerStep(x)
      PROVE  staging'[c] = staging[c] \/ (Backup(c) /\ staging'[c] = OwnImage(c))
  <2>1. CASE StartWorker(x)
    BY <2>1 DEF StartWorker
  <2>2. CASE Backup(x)
    BY <2>2 DEF Backup, OwnImage
  <2>3. CASE CheckCancelled(x) \/ RetirePrevious(x) \/ DemoteCurrent(x)
    BY <2>3 DEF CheckCancelled, RetirePrevious, DemoteCurrent
  <2>4. CASE PromoteStaging(x) \/ DropRetired(x) \/ WorkerFault(x)
    BY <2>4 DEF PromoteStaging, DropRetired, WorkerFault
  <2> QED BY <1>1, <2>1, <2>2, <2>3, <2>4 DEF WorkerStep
<1>2. ASSUME NEW x \in Command, Delivery(x) \/ UserStep(x) PROVE UNCHANGED staging
  BY <1>2 DEF Delivery, DeliverWithoutCommit, Activate, ActivateFails, Commit, CommitFails,
              UserStep, Submit, Replay, Cancel, files
<1>3. CASE Close \/ Restart \/ UNCHANGED vars
  BY <1>3 DEF Close, Restart, vars, files
<1> QED BY <1>1, <1>2, <1>3 DEF Next

LEMMA StagedGeneration ==
    ASSUME IndInv, NEW c \in Command, IsImage(staging[c])
    PROVE  staging[c] \in Images /\ staging[c].gen \in Nat
<1>1. staging[c] \in Images
  BY StateTypes, Constants DEF Directory, IsImage, Absent, Unverified
<1> QED BY <1>1 DEF Images

(* What follows a registered generation is not beyond an unregistered one.  *)
LEMMA NotBeyond ==
    ASSUME IndInv, NEW g \in Nat, NEW h \in Nat, Follows(g), Unregistered(h), h # 0
    PROVE  g <= h
  BY StateTypes DEF Follows, Unregistered

(* A generation in use is never ahead of the registered ones by more than   *)
(* one, however many commands are in flight.                                *)
LEMMA FollowStep ==
    ASSUME IndInv, GenerationsFollow, [Next]_vars
    PROVE  GenerationsFollow'
<1> USE StateTypes
<1>1. ASSUME NEW c \in Command, wpc'[c] # "none" PROVE Follows(job[c].gen)'
  <2>1. ASSUME NEW e \in Entity, NEW b \in Basis, Submit(c, e, b) PROVE Follows(job[c].gen)'
    <3>1. PICK g \in 1..MaxGeneration :
            /\ IsNextGeneration(g)
            /\ job' = [job EXCEPT ![c] = [gen |-> g, expected |-> version[e], basis |-> b]]
      BY <2>1 DEF Submit
    <3>2. job'[c].gen = g /\ g \in Nat /\ pointGen' = pointGen
      BY <2>1, <3>1 DEF Submit
    <3>3. Follows(g)
      BY <3>1, <3>2 DEF IsNextGeneration, Follows
    <3> QED BY <3>2, <3>3 DEF Follows
  <2>2. ASSUME wpc[c] # "none", job'[c] = job[c] PROVE Follows(job[c].gen)'
    <3>1. job[c].gen \in Nat /\ Follows(job[c].gen) /\ job'[c].gen = job[c].gen
      BY <2>2 DEF GenerationsFollow
    <3>2. job[c].gen = 1 \/ \E d \in Command : pointGen'[d] + 1 >= job[c].gen
      BY <3>1, StillFollows
    <3> QED BY <3>1, <3>2 DEF Follows
  <2> QED BY <1>1, <2>1, <2>2, FlightStep
<1>2. ASSUME NEW c \in Command, IsImage(staging'[c]) PROVE Follows(staging[c].gen)'
  <2> DEFINE g == staging'[c].gen
  <2>1. g \in Nat /\ Follows(g)
    <3>1. CASE staging'[c] = staging[c]
      BY <1>2, <3>1, StagedGeneration DEF GenerationsFollow
    <3>2. CASE Backup(c) /\ staging'[c] = OwnImage(c)
      BY <3>2, OwnFields DEF GenerationsFollow, Backup, At
    <3> QED BY <1>2, <3>1, <3>2, StagedStep
  <2> HIDE DEF g
  <2>2. g = 1 \/ \E d \in Command : pointGen'[d] + 1 >= g
    BY <2>1, StillFollows
  <2> QED BY <2>2 DEF g, Follows
<1> QED BY <1>1, <1>2 DEF GenerationsFollow

(* The generation of a command that is alone stays nobody else's until it   *)
(* registers it, and is the newest from then on.                            *)
LEMMA GenerationStep ==
    ASSUME IndInv, OneInFlight, GenerationsFollow, GenerationIsFresh, [Next]_vars
    PROVE  GenerationIsFresh'
<1> USE StateTypes
<1> SUFFICES ASSUME NEW c \in Command, wpc'[c] # "none"
             PROVE  /\ main' = c => IsNewestPoint(c)'
                    /\ main' # c => Unregistered(job[c].gen)'
  BY DEF GenerationIsFresh
<1>1. ASSUME NEW e \in Entity, NEW b \in Basis, Submit(c, e, b)
      PROVE  Unregistered(job[c].gen)' /\ main' # c
  <2>1. PICK g \in 1..MaxGeneration :
          /\ IsNextGeneration(g)
          /\ job' = [job EXCEPT ![c] = [gen |-> g, expected |-> version[e], basis |-> b]]
    BY <1>1 DEF Submit
  <2>2. job'[c].gen = g /\ g \in Nat /\ pointGen' = pointGen /\ main' = Null
    BY <1>1, <2>1 DEF Submit, MainIdle
  <2>3. Unregistered(g)
    BY <2>1, <2>2 DEF IsNextGeneration, Unregistered
  <2> QED BY <2>2, <2>3, NullAssumption DEF Unregistered
<1>2. CASE wpc[c] # "none" /\ job'[c] = job[c]
  <2>1. main = c => wpc[c] = "completed"
    BY NullAssumption DEF IndInv, InFlightIsRunning
  <2>2. CASE main = c /\ main' = c
    <3>1. IsNewestPoint(c) /\ wpc[c] = "completed"
      BY <1>2, <2>1, <2>2 DEF GenerationIsFresh
    <3>2. UNCHANGED <<pointGen, slot>>
      BY <2>2, PointStep, NullAssumption DEF Activate, MainIdle
    <3>3. ASSUME NEW d \in Command, IsImage(staging'[d]) PROVE staging'[d].gen <= job[c].gen
      <4>1. ~Backup(d)
        BY <3>1, Alone DEF Backup, At
      <4>2. staging'[d] = staging[d]
        BY <3>3, <4>1, StagedStep
      <4> QED BY <3>1, <3>3, <4>2 DEF IsNewestPoint
    <3>4. /\ pointGen'[c] = job'[c].gen /\ slot'["current"] = c
          /\ \A d \in Command : d # c => pointGen'[d] < job'[c].gen
      BY <1>2, <3>1, <3>2 DEF IsNewestPoint
    <3>5. \A d \in Command : IsImage(staging'[d]) => staging'[d].gen <= job'[c].gen
      BY <1>2, <3>3
    <3>6. IsNewestPoint(c)'
      BY ONLY <3>4, <3>5 DEF IsNewestPoint
    <3> QED BY <2>2, <3>6
  <2>3. CASE UNCHANGED <<pointGen, slot>> /\ main' = main /\ main # c
    <3>1. Unregistered(job[c].gen)
      BY <1>2, <2>3 DEF GenerationIsFresh
    <3> QED BY <1>2, <2>3, <3>1 DEF Unregistered
  <2>4. CASE main' = Null /\ main \in Command /\ wpc'[main] = "none"
    <3>1. main = c
      BY <1>2, <2>4, Alone
    <3> QED BY <2>4, <3>1
  <2>5. ASSUME NEW x \in Command, Activate(x) PROVE main' = c /\ IsNewestPoint(c)'
    <3>1. x = c
      BY <1>2, <2>5, Activation
    <3>2. /\ main' = c /\ pointGen'[c] = job[c].gen /\ Unregistered(job[c].gen)
          /\ \A d \in Command : d # c => pointGen'[d] = pointGen[d]
          /\ slot'["current"] = c /\ staging' = staging /\ job[c].gen # 0
      BY <2>5, <3>1, Activation DEF files
    <3>3. ASSUME NEW d \in Command, IsImage(staging'[d]) PROVE staging'[d].gen <= job[c].gen
      <4>1. Follows(staging[d].gen) /\ staging[d].gen \in Nat
        BY <3>2, <3>3, StagedGeneration DEF GenerationsFollow
      <4> QED BY <3>2, <4>1, NotBeyond
    <3>4. /\ pointGen'[c] = job'[c].gen /\ slot'["current"] = c
          /\ \A d \in Command : d # c => pointGen'[d] < job'[c].gen
      BY <1>2, <3>2 DEF Unregistered
    <3>5. \A d \in Command : IsImage(staging'[d]) => staging'[d].gen <= job'[c].gen
      BY <1>2, <3>3
    <3>6. IsNewestPoint(c)'
      BY ONLY <3>4, <3>5 DEF IsNewestPoint
    <3> QED BY <3>2, <3>6
  <2> QED BY <2>2, <2>3, <2>4, <2>5, PointStep
<1> QED BY <1>1, <1>2, FlightStep

(* Whoever has no image yet had none before the step, and took no copy.     *)
LEMMA UnbornStep ==
    ASSUME IndInv, [Next]_vars, NEW c \in Command,
           status'[c] = "absent" \/ wpc'[c] \in {"queued", "copying"}
    PROVE  /\ status[c] = "absent" \/ wpc[c] \in {"queued", "copying"}
           /\ ~Backup(c)
<1> USE StateTypes DEF Goto, At
<1> DEFINE Unborn == status[c] = "absent" \/ wpc[c] \in {"queued", "copying"}
<1>1. ASSUME NEW x \in Command, WorkerStep(x) PROVE Unborn
  BY <1>1 DEF WorkerStep, StartWorker, Backup, CheckCancelled, RetirePrevious,
              DemoteCurrent, PromoteStaging, DropRetired, WorkerFault, mainSide, database
<1>2. ASSUME NEW x \in Command, Delivery(x) PROVE Unborn
  BY <1>2 DEF Delivery, DeliverWithoutCommit, Activate, ActivateFails, Commit, CommitFails,
              Finish, MarkFailed, database
<1>3. ASSUME NEW x \in Command, UserStep(x) PROVE Unborn
  BY <1>3 DEF UserStep, Submit, Replay, Cancel, FreshKey, database
<1>4. ASSUME Close \/ Restart \/ UNCHANGED vars PROVE Unborn
  BY <1>4 DEF Close, Restart, vars, memory, database
<1>5. ~Backup(c)
  BY DEF Backup, mainSide, database, IndInv, InFlightIsRunning
<1>6. Unborn
  <2> HIDE DEF Unborn
  <2> QED BY <1>1, <1>2, <1>3, <1>4 DEF Next
<1> QED BY <1>5, <1>6

LEMMA NoImageYetStep ==
    ASSUME IndInv, NoImageYet, [Next]_vars
    PROVE  NoImageYet'
<1> SUFFICES ASSUME NEW c \in Command, status'[c] = "absent" \/ wpc'[c] \in {"queued", "copying"},
                    NEW d \in Disk', IsImage(d)
             PROVE  d.owner # c
  BY DEF NoImageYet
<1>1. CASE d \in Disk
  BY <1>1, UnbornStep DEF NoImageYet
<1>2. ASSUME NEW x \in Command, Backup(x), d = Image(x, job[x].gen, Len(log))
      PROVE  d.owner # c
  <2>1. d.owner = x
    BY <1>2 DEF Image
  <2> QED BY <1>2, <2>1, UnbornStep
<1> QED BY <1>1, <1>2, DiskStep

LEMMA RotationAloneStep ==
    ASSUME IndInv, OneInFlight, OneInFlight', NoImageYet, RotationIsAlone, [Next]_vars
    PROVE  RotationIsAlone'
<1> USE StateTypes, Constants DEF Goto, At
<1>1. ASSUME NEW c \in Command, WorkerStep(c) PROVE RotationIsAlone'
  <2>1. /\ UNCHANGED <<log, job>>
        /\ \A d \in Command : d # c => wpc'[d] = "none"
    <3>1. wpc[c] # "none"
      BY <1>1 DEF WorkerStep, StartWorker, Backup, CheckCancelled, RetirePrevious,
              DemoteCurrent, PromoteStaging, DropRetired, WorkerFault, WorkerSteps
    <3>2. \A d \in Command : d # c => wpc[d] = "none"
      BY <3>1, Alone
    <3> QED BY <1>1, <3>2 DEF WorkerStep, StartWorker, Backup, CheckCancelled, RetirePrevious,
              DemoteCurrent, PromoteStaging, DropRetired, WorkerFault, mainSide, database
  <2>2. SUFFICES
           /\ wpc'[c] \in {"copying", "verified", "retire", "demote"} => OlderThan(c, current)'
           /\ wpc'[c] \in {"verified", "retire", "demote", "promote"} => staging'[c] = OwnImage(c)
           /\ wpc'[c] = "demote" => previous' = Absent
           /\ wpc'[c] = "promote" => current' = Absent
           /\ wpc'[c] \in {"drop", "completed"} => current' = OwnImage(c)
           /\ wpc'[c] \in {"promote", "drop", "completed"} => OlderThan(c, previous)'
    BY <2>1 DEF RotationIsAlone, OwnImage, OlderThan
  <2>3. CASE StartWorker(c)
    <3>1. IsImage(current) => current.owner # c
      BY <2>3 DEF StartWorker, NoImageYet, Disk
    <3> QED BY <2>1, <2>3, <3>1 DEF StartWorker, OlderThan
  <2>4. CASE Backup(c)
    BY <2>1, <2>4 DEF Backup, OlderThan, OwnImage, RotationIsAlone
  <2>5. CASE CheckCancelled(c)
    BY <2>1, <2>5 DEF CheckCancelled, OlderThan, RotationIsAlone
  <2>6. CASE RetirePrevious(c)
    BY <2>1, <2>6 DEF RetirePrevious, OlderThan, RotationIsAlone
  <2>7. CASE DemoteCurrent(c)
    BY <2>1, <2>7 DEF DemoteCurrent, OlderThan, RotationIsAlone
  <2>8. CASE PromoteStaging(c)
    BY <2>1, <2>8 DEF PromoteStaging, OlderThan, RotationIsAlone
  <2>9. CASE DropRetired(c)
    BY <2>1, <2>9 DEF DropRetired, OlderThan, RotationIsAlone
  <2>10. CASE WorkerFault(c)
    BY <2>1, <2>10 DEF WorkerFault, OlderThan, RotationIsAlone
  <2> QED BY <1>1, <2>3, <2>4, <2>5, <2>6, <2>7, <2>8, <2>9, <2>10 DEF WorkerStep
<1>2. ASSUME NEW c \in Command, Activate(c) PROVE RotationIsAlone'
  BY <1>2 DEF Activate, RotationIsAlone, OwnImage, OlderThan, files
<1>3. ASSUME NEW c \in Command, Delivery(c), ~Activate(c) PROVE RotationIsAlone'
  <2>1. wpc[c] # "none" /\ wpc' = [wpc EXCEPT ![c] = "none"]
    <3>1. main = c => wpc[c] = "completed"
      BY DEF IndInv, InFlightIsRunning
    <3> QED BY <1>3, <3>1 DEF Delivery, DeliverWithoutCommit, ActivateFails, Commit, CommitFails, Finish
  <2>2. \A d \in Command : wpc'[d] = "none"
    BY <2>1, Alone
  <2> QED BY <2>2 DEF RotationIsAlone
<1>4. ASSUME NEW c \in Command, NEW e \in Entity, NEW b \in Basis, Submit(c, e, b)
      PROVE  RotationIsAlone'
  <2>1. \A d \in Command : wpc'[d] \in {"none", "queued"}
    BY <1>4, AloneAtSubmit DEF Submit
  <2> QED BY <2>1 DEF RotationIsAlone
<1>5. ASSUME NEW c \in Command, Replay(c) \/ Cancel(c)
      PROVE  RotationIsAlone'
  BY <1>5 DEF Replay, Cancel, database, files, RotationIsAlone, OwnImage, OlderThan
<1>6. CASE Restart
  BY <1>6 DEF Restart, RotationIsAlone
<1>7. CASE Close \/ UNCHANGED vars
  BY <1>7 DEF Close, vars, database, memory, files, RotationIsAlone, OwnImage, OlderThan
<1> QED BY <1>1, <1>2, <1>3, <1>4, <1>5, <1>6, <1>7 DEF Next, UserStep

(* Only these steps touch the two directories, and only these the log.      *)
LEMMA DirectoryStep ==
    ASSUME [Next]_vars
    PROVE  \/ UNCHANGED <<current, previous>>
           \/ \E c \in Command : RetirePrevious(c) \/ DemoteCurrent(c) \/ PromoteStaging(c)
           \/ Restart
<1>1. ASSUME NEW c \in Command, WorkerStep(c)
      PROVE  \/ UNCHANGED <<current, previous>>
             \/ RetirePrevious(c) \/ DemoteCurrent(c) \/ PromoteStaging(c)
  BY <1>1 DEF WorkerStep, StartWorker, Backup, CheckCancelled, DropRetired, WorkerFault
<1>2. ASSUME NEW c \in Command, Delivery(c) \/ UserStep(c) PROVE UNCHANGED <<current, previous>>
  BY <1>2 DEF Delivery, DeliverWithoutCommit, Activate, ActivateFails, Commit, CommitFails,
              UserStep, Submit, Replay, Cancel, files
<1>3. CASE Close \/ UNCHANGED vars
  BY <1>3 DEF Close, vars, files
<1> QED BY <1>1, <1>2, <1>3 DEF Next

(* What the renames of a worker that is alone do.                           *)
LEMMA Renames ==
    ASSUME IndInv, OneInFlight, GenerationIsFresh, RotationIsAlone, NEW c \in Command
    PROVE  /\ RetirePrevious(c) =>
                /\ current' = current /\ previous' = Absent /\ UNCHANGED <<database, main, job>>
                /\ wpc[c] = "retire"
           /\ DemoteCurrent(c) =>
                /\ current' = Absent /\ previous' = current /\ UNCHANGED <<database, main, job>>
                /\ wpc[c] = "demote" /\ OlderThan(c, current)
           /\ PromoteStaging(c) =>
                /\ current' = OwnImage(c) /\ previous' = previous /\ UNCHANGED <<database, main, job>>
                /\ OlderThan(c, previous) /\ Unregistered(job[c].gen)
                /\ wpc[c] = "promote" /\ main = Null
<1>1. RetirePrevious(c) =>
          /\ current' = current /\ previous' = Absent /\ UNCHANGED <<database, main, job>>
          /\ wpc[c] = "retire"
  BY DEF RetirePrevious, mainSide, At
<1>2. ASSUME DemoteCurrent(c)
      PROVE  /\ current' = Absent /\ previous' = current /\ UNCHANGED <<database, main, job>>
             /\ wpc[c] = "demote" /\ OlderThan(c, current)
  BY <1>2 DEF DemoteCurrent, mainSide, At, RotationIsAlone
<1>3. ASSUME PromoteStaging(c)
      PROVE  /\ current' = OwnImage(c) /\ previous' = previous /\ UNCHANGED <<database, main, job>>
             /\ OlderThan(c, previous) /\ Unregistered(job[c].gen)
             /\ wpc[c] = "promote" /\ main = Null
  <2>1. wpc[c] = "promote"
    BY <1>3 DEF PromoteStaging, At
  <2>2. main = Null
    BY <2>1, Alone
  <2> QED BY <1>3, <2>1, <2>2 DEF PromoteStaging, mainSide, RotationIsAlone, GenerationIsFresh
<1> QED BY <1>1, <1>2, <1>3

LEMMA LayoutKeeps ==
    ASSUME Restart
    PROVE  /\ IsImage(current') <=> IsImage(current)
           /\ IsImage(current) => current' = current
           /\ IsImage(previous') <=> IsImage(previous)
           /\ IsImage(previous) => previous' = previous
           /\ current' # Absent
           /\ UNCHANGED <<database, staging, retired>> /\ main' = Null
           /\ wpc' = [c \in Command |-> "none"]
  BY Constants DEF Restart, Layout, Absent, Unverified, IsImage

LEMMA GenerationsStep ==
    ASSUME IndInv, OneInFlight, GenerationIsFresh, RotationIsAlone, GenerationsIncrease, [Next]_vars
    PROVE  GenerationsIncrease'
<1> USE StateTypes
<1>1. slot'["previous"] # Null => pointGen'[slot'["previous"]] < pointGen'[slot'["current"]]
  <2>1. ASSUME NEW c \in Command, Activate(c), slot["current"] # Null
        PROVE  pointGen'[slot["current"]] < pointGen'[c]
    <3>1. slot["current"] \in Command /\ slot["current"] # c
      BY <2>1, Activation
    <3> QED BY <2>1, <3>1, Activation DEF Unregistered
  <2>2. ASSUME NEW c \in Command, Activate(c)
        PROVE  slot'["previous"] = slot["current"] /\ slot'["current"] = c
    BY <2>2, Activation
  <2> QED BY <2>1, <2>2, PointStep DEF GenerationsIncrease
<1>2. IsImage(current') /\ IsImage(previous') => previous'.gen < current'.gen
  <2>1. CASE UNCHANGED <<current, previous>>
    BY <2>1 DEF GenerationsIncrease
  <2>2. ASSUME NEW c \in Command, RetirePrevious(c) \/ DemoteCurrent(c)
        PROVE  ~(IsImage(current') /\ IsImage(previous'))
    BY <2>2, Renames DEF Absent, IsImage
  <2>3. ASSUME NEW c \in Command, PromoteStaging(c), IsImage(previous')
        PROVE  previous'.gen < current'.gen
    BY <2>3, Renames, OwnFields DEF OlderThan
  <2>4. ASSUME Restart, IsImage(current'), IsImage(previous') PROVE previous'.gen < current'.gen
    BY <2>4, LayoutKeeps DEF GenerationsIncrease
  <2> QED BY <2>1, <2>2, <2>3, <2>4, DirectoryStep
<1> QED BY <1>1, <1>2 DEF GenerationsIncrease

(* A change goes over the own image of its command, and makes it the latest.*)
LEMMA CommitOverImage ==
    ASSUME IndInv, OneInFlight, RotationIsAlone, NEW c \in Command, Commit(c)
    PROVE  /\ current = OwnImage(c) /\ current' = current /\ previous' = previous
           /\ log' = Append(log, c) /\ log' # << >> /\ log'[Len(log')] = c
           /\ main = c /\ main' = Null /\ UNCHANGED <<pointGen, slot, staging>>
<1> USE StateTypes
<1>1. main = c /\ wpc[c] = "completed"
  BY DEF Commit, IndInv, InFlightIsRunning
<1>2. log' = Append(log, c) /\ main' = Null /\ UNCHANGED <<pointGen, slot, files>>
  BY DEF Commit
<1>3. log' # << >> /\ log'[Len(log')] = c
  <2>1. log \in Seq(Command) /\ Len(log) \in Nat
    OBVIOUS
  <2>2. Len(Append(log, c)) = Len(log) + 1 /\ Append(log, c)[Len(log) + 1] = c
    BY ONLY <2>1, c \in Command
  <2>3. Len(<< >>) = 0
    BY ONLY TRUE
  <2>4. Append(log, c) # << >>
    BY ONLY <2>1, <2>2, <2>3
  <2>5. log' = Append(log, c) /\ Len(log') = Len(log) + 1
    BY ONLY <1>2, <2>2
  <2> QED BY ONLY <2>2, <2>4, <2>5
<1> QED BY <1>1, <1>2, <1>3 DEF RotationIsAlone, files

(* Only the second transaction of _completed makes a row committed.         *)
LEMMA CommittedByCommit ==
    ASSUME IndInv, [Next]_vars, NEW c \in Command,
           status[c] # "committed", status'[c] = "committed"
    PROVE  Commit(c)
<1> USE StateTypes
<1>1. ASSUME NEW x \in Command, WorkerStep(x) PROVE UNCHANGED status
  BY <1>1 DEF WorkerStep, StartWorker, Backup, CheckCancelled, RetirePrevious,
              DemoteCurrent, PromoteStaging, DropRetired, WorkerFault, mainSide, database
<1>2. ASSUME NEW x \in Command, Delivery(x) PROVE Commit(c)
  BY <1>2 DEF Delivery, DeliverWithoutCommit, Activate, ActivateFails, Commit, CommitFails,
              MarkFailed, database
<1>3. ASSUME NEW x \in Command, UserStep(x) PROVE FALSE
  BY <1>3 DEF UserStep, Submit, Replay, Cancel, database
<1>4. ASSUME Close \/ Restart \/ UNCHANGED vars PROVE UNCHANGED status
  BY <1>4 DEF Close, Restart, vars, database
<1> QED BY <1>1, <1>2, <1>3, <1>4 DEF Next

LEMMA NewestStep ==
    ASSUME IndInv, OneInFlight, GenerationIsFresh, RotationIsAlone, NewestIsLatest, [Next]_vars
    PROVE  NewestIsLatest'
<1> USE StateTypes
<1>1. ASSUME NEW c \in Command, Commit(c) PROVE NewestIsLatest'
  <2>1. current' = OwnImage(c) /\ IsImage(current) /\ current' # Absent /\ current'.owner = c
        /\ current' = current /\ log' # << >> /\ log'[Len(log')] = c /\ pointGen' = pointGen
    BY <1>1, CommitOverImage, OwnFields
  <2> QED BY <2>1 DEF NewestIsLatest, Latest, Unregistered
<1>2. ASSUME NEW c \in Command, Activate(c) PROVE NewestIsLatest'
  <2>1. /\ current' = OwnImage(c) /\ current = OwnImage(c) /\ log' = log /\ IsImage(current)
        /\ current # Absent /\ current.gen = job[c].gen /\ current.upTo = Len(log)
    BY <1>2, Activation, OwnFields DEF RotationIsAlone, files
  <2>2. \A d \in Command : pointGen'[d] < job[c].gen + 1
    <3> SUFFICES ASSUME NEW d \in Command PROVE pointGen'[d] < job[c].gen + 1
      OBVIOUS
    <3>1. job[c].gen \in Nat /\ pointGen[d] \in Nat
      OBVIOUS
    <3>2. pointGen'[c] = job[c].gen /\ (d # c => pointGen'[d] = pointGen[d]) /\ pointGen[d] < job[c].gen
      BY <1>2, Activation DEF Unregistered
    <3> QED BY <3>1, <3>2
  <2> QED BY <2>1, <2>2 DEF NewestIsLatest, Latest, Unregistered
<1>3. ASSUME UNCHANGED <<log, pointGen>> PROVE NewestIsLatest'
  <2>3. CASE UNCHANGED <<current, previous>>
    BY <1>3, <2>3 DEF NewestIsLatest, Latest, Unregistered
  <2>4. ASSUME NEW c \in Command, RetirePrevious(c) PROVE NewestIsLatest'
    BY <1>3, <2>4, Renames, Constants DEF NewestIsLatest, Latest, Unregistered
  <2>5. ASSUME NEW c \in Command, DemoteCurrent(c) PROVE NewestIsLatest'
    BY <1>3, <2>5, Renames, Constants DEF NewestIsLatest, Latest, Unregistered
  <2>6. ASSUME NEW c \in Command, PromoteStaging(c) PROVE NewestIsLatest'
    <3>1. /\ current' = OwnImage(c) /\ current' # Absent /\ current'.upTo = Len(log)
          /\ current'.gen = job[c].gen /\ Unregistered(job[c].gen)
      BY <2>6, Renames, OwnFields
    <3>2. \A d \in Command : pointGen[d] < job[c].gen + 1
      BY <3>1 DEF Unregistered
    <3> QED BY <1>3, <3>1, <3>2 DEF NewestIsLatest, Latest, Unregistered
  <2>7. CASE Restart
    BY <1>3, <2>7, LayoutKeeps DEF NewestIsLatest, Latest, Unregistered
  <2> QED BY <2>3, <2>4, <2>5, <2>6, <2>7, DirectoryStep
<1> QED BY <1>1, <1>2, <1>3, LogStep, PointStep

LEMMA StagingStep ==
    ASSUME IndInv, OneInFlight, GenerationsFollow, GenerationIsFresh, StagingIsOrdered, [Next]_vars
    PROVE  StagingIsOrdered'
<1> USE StateTypes
<1> SUFFICES ASSUME NEW c \in Command, IsImage(staging'[c])
             PROVE  Unregistered(staging[c].gen)' => main' = Null /\ staging'[c].upTo = Len(log')
  BY DEF StagingIsOrdered
<1>1. CASE Backup(c)
  <2>1. staging'[c].upTo = Len(log)
    BY <1>1, OwnFields DEF Backup, OwnImage
  <2>2. wpc[c] = "copying" /\ UNCHANGED <<log, main>>
    BY <1>1 DEF Backup, At, mainSide, database
  <2>3. main = Null
    BY <2>2, Alone
  <2> QED BY <2>1, <2>2, <2>3
<1>2. CASE staging'[c] = staging[c]
  <2> DEFINE g == staging[c].gen
  <2>1. /\ g \in Nat /\ Follows(g)
        /\ Unregistered(g) => main = Null /\ staging[c].upTo = Len(log)
    BY <1>2, StagedGeneration DEF StagingIsOrdered, GenerationsFollow
  <2>2. ASSUME UNCHANGED pointGen, main' \in {main, Null}
        PROVE  Unregistered(g)' => main' = Null /\ staging'[c].upTo = Len(log')
    <3>1. Unregistered(staging[c].gen)' => Unregistered(g)
      BY <1>2, <2>2 DEF Unregistered
    <3>2. ASSUME main = Null PROVE UNCHANGED log
      BY <3>2, LogStep, NullAssumption DEF Commit
    <3> QED BY <1>2, <2>1, <2>2, <3>1, <3>2
  <2>3. ASSUME NEW x \in Command, Activate(x) PROVE ~Unregistered(g)'
    <3>1. Unregistered(job[x].gen) /\ job[x].gen # 0 /\ pointGen'[x] = job[x].gen
      BY <2>3, Activation
    <3>2. g <= job[x].gen
      BY <2>1, <3>1, NotBeyond
    <3>3. staging'[c].gen = g
      BY <1>2
    <3> QED BY <2>1, <3>1, <3>2, <3>3 DEF Unregistered
  <2> QED BY <1>2, <2>2, <2>3, PointStep
<1> QED BY <1>1, <1>2, StagedStep

(* Only a rename and the two transactions of _completed move current, the   *)
(* slots or the log; each leaves the image in current not behind.           *)
LEMMA NotBehindStep ==
    ASSUME IndInv, OneInFlight, GenerationIsFresh, RotationIsAlone, NotBehind, [Next]_vars
    PROVE  NotBehind'
<1> USE StateTypes
<1>1. ASSUME NEW c \in Command, Commit(c) PROVE NotBehind'
  <2>1. current' = OwnImage(c) /\ slot' = slot /\ main = c /\ wpc[c] # "none"
    BY <1>1, CommitOverImage, NullAssumption DEF IndInv, InFlightIsRunning
  <2>2. slot["current"] = c
    BY <2>1 DEF GenerationIsFresh, IsNewestPoint
  <2> QED BY <2>1, <2>2, OwnFields DEF NotBehind
<1>2. ASSUME NEW c \in Command, Activate(c) PROVE NotBehind'
  <2>1. current' = OwnImage(c) /\ slot'["current"] = c
    BY <1>2, Activation DEF RotationIsAlone, files
  <2> QED BY <2>1, OwnFields DEF NotBehind
<1>3. ASSUME UNCHANGED <<log, pointGen, slot>> PROVE NotBehind'
  <2>1. CASE UNCHANGED current
    BY <1>3, <2>1 DEF NotBehind, Unregistered
  <2>2. ASSUME NEW c \in Command, RetirePrevious(c) PROVE NotBehind'
    BY <2>1, <2>2, Renames
  <2>3. ASSUME NEW c \in Command, DemoteCurrent(c) PROVE NotBehind'
    BY <2>3, Renames, Constants DEF NotBehind
  <2>4. ASSUME NEW c \in Command, PromoteStaging(c) PROVE NotBehind'
    <3>1. /\ current'.upTo = Len(log) /\ current'.gen = job[c].gen /\ Unregistered(job[c].gen)
      BY <2>4, Renames, OwnFields
    <3> QED BY <1>3, <3>1 DEF NotBehind, Unregistered
  <2>5. ASSUME Restart PROVE NotBehind'
    <3>1. IsImage(current') => IsImage(current) /\ current' = current
      BY <2>5, LayoutKeeps
    <3> QED BY <1>3, <3>1 DEF NotBehind, Unregistered
  <2> QED BY <2>1, <2>2, <2>3, <2>4, <2>5, DirectoryStep
<1> QED BY <1>1, <1>2, <1>3, LogStep, PointStep

(* Targets change with a submission only, row versions with a commit only.  *)
LEMMA VersionMoves ==
    ASSUME IndInv, [Next]_vars
    PROVE  \/ UNCHANGED <<target, version>>
           \/ \E c \in Command, e \in Entity, b \in Basis : Submit(c, e, b)
           \/ \E c \in Command : Commit(c)
<1>1. ASSUME NEW c \in Command, WorkerStep(c) PROVE UNCHANGED <<target, version>>
  BY <1>1 DEF WorkerStep, StartWorker, Backup, CheckCancelled, RetirePrevious,
              DemoteCurrent, PromoteStaging, DropRetired, WorkerFault, mainSide, database
<1>2. ASSUME NEW c \in Command, Delivery(c), ~Commit(c) PROVE UNCHANGED <<target, version>>
  BY <1>2 DEF Delivery, DeliverWithoutCommit, Activate, ActivateFails, CommitFails, database
<1>3. ASSUME NEW c \in Command, UserStep(c)
      PROVE  UNCHANGED <<target, version>> \/ \E e \in Entity, b \in Basis : Submit(c, e, b)
  BY <1>3 DEF UserStep, Replay, Cancel, database
<1>4. ASSUME Close \/ Restart \/ UNCHANGED vars PROVE UNCHANGED <<target, version>>
  BY <1>4 DEF Close, Restart, vars, database
<1> QED BY <1>1, <1>2, <1>3, <1>4 DEF Next

LEMMA VersionsStep ==
    ASSUME IndInv, OneInFlight, OneInFlight', VersionsHold, [Next]_vars
    PROVE  VersionsHold'
<1> SUFFICES ASSUME NEW c \in Command, wpc'[c] # "none"
             PROVE  version'[target'[c]] = job'[c].expected
  BY DEF VersionsHold
<1>1. ASSUME NEW x \in Command, NEW e \in Entity, NEW b \in Basis, Submit(x, e, b)
      PROVE  version'[target'[c]] = job'[c].expected
  <2>1. x = c
    BY <1>1, AloneAtSubmit, StateTypes DEF Submit
  <2>2. target'[c] = e /\ version' = version
    BY <1>1, <2>1 DEF Submit, IndInv, TypeOK, DatabaseTypeOK
  <2>3. job'[c].expected = version[e]
    BY <1>1, <2>1, StateTypes DEF Submit
  <2> QED BY <2>2, <2>3
<1>2. ASSUME NEW x \in Command, Commit(x) PROVE FALSE
  <2>1. wpc' = [wpc EXCEPT ![x] = "none"]
    BY <1>2 DEF Commit, Finish, Goto
  <2>2. wpc[x] = "completed"
    BY <1>2, NullAssumption DEF Commit, IndInv, InFlightIsRunning
  <2>3. x # c /\ wpc'[c] = wpc[c]
    BY <2>1, StateTypes
  <2> QED BY <2>2, <2>3 DEF OneInFlight
<1>3. ASSUME UNCHANGED <<target, version>>,
             ~ \E x \in Command, e \in Entity, b \in Basis : Submit(x, e, b)
      PROVE  version'[target'[c]] = job'[c].expected
  <2>1. wpc[c] # "none" /\ job'[c] = job[c]
    BY <1>3, FlightStep
  <2> QED BY <1>3, <2>1 DEF VersionsHold
<1> QED BY <1>1, <1>2, <1>3, VersionMoves

(* The change of a command that was alone puts everything in order, whatever*)
(* overlaps left: its point is the newest, its image in current, and what   *)
(* lies in previous or in staging is no newer than it.                      *)
LEMMA CommitHeals ==
    ASSUME IndInv, AloneInv, NEW c \in Command, Commit(c)
    PROVE  OrderInv'
<1> USE StateTypes DEF AloneInv
<1>1. /\ current' = OwnImage(c) /\ current = OwnImage(c) /\ previous' = previous
      /\ log' # << >> /\ log'[Len(log')] = c
      /\ main = c /\ UNCHANGED <<pointGen, slot, staging>>
  BY CommitOverImage
<1>2. wpc[c] = "completed"
  BY <1>1, NullAssumption DEF IndInv, InFlightIsRunning
<1>3. /\ IsImage(current') /\ current' # Absent /\ current'.owner = c
      /\ current'.gen = job[c].gen /\ job[c].gen \in Nat
  BY <1>1, OwnFields
<1>4. /\ pointGen[c] = job[c].gen /\ slot["current"] = c
      /\ \A d \in Command : d # c => pointGen[d] < job[c].gen
      /\ \A d \in Command : IsImage(staging[d]) => staging[d].gen <= job[c].gen
  BY <1>1, <1>2 DEF GenerationIsFresh, IsNewestPoint
<1>5. GenerationsIncrease'
  <2>1. IsImage(previous) => previous.gen < job[c].gen
    BY <1>2 DEF RotationIsAlone, OlderThan
  <2>2. slot["previous"] # Null => slot["previous"] \in Command /\ slot["previous"] # c
    BY <1>4, NullAssumption DEF IndInv, SlotsMatchPoints
  <2> QED BY <1>1, <1>3, <1>4, <2>1, <2>2 DEF GenerationsIncrease
<1>6. NewestIsLatest'
  <2>1. ASSUME NEW d \in Command PROVE pointGen'[d] < current'.gen + 1
    <3>1. pointGen'[d] = pointGen[d] /\ pointGen[d] \in Nat /\ current'.gen = job[c].gen
      BY <1>1, <1>3
    <3>2. job[c].gen \in Nat /\ (d = c => pointGen[d] = job[c].gen)
          /\ (d # c => pointGen[d] < job[c].gen)
      BY <1>3, <1>4
    <3> QED BY ONLY <3>1, <3>2
  <2> QED BY <1>1, <1>3, <2>1 DEF NewestIsLatest, Latest, Unregistered
<1>7. StagingIsOrdered'
  <2> SUFFICES ASSUME NEW d \in Command, IsImage(staging'[d]), \A x \in Command : pointGen'[x] < staging'[d].gen
               PROVE  FALSE
    BY DEF StagingIsOrdered, Unregistered
  <2>1. staging[d].gen \in Nat /\ staging[d].gen <= job[c].gen /\ job[c].gen < staging[d].gen
    BY <1>1, <1>4, StagedGeneration
  <2> QED BY <1>3, <2>1
<1>8. NotBehind'
  BY <1>1, <1>3, <1>4 DEF NotBehind
<1> QED BY <1>5, <1>6, <1>7, <1>8 DEF OrderInv

LEMMA OverlapInvInit == Init /\ OverlapInit => OverlapInv
<1> SUFFICES ASSUME Init, OverlapInit PROVE OverlapInv
  OBVIOUS
<1> USE Constants DEF Init
<1>1. \A c \in Command : wpc[c] = "none" /\ status[c] = "absent" /\ ~IsImage(staging[c])
      /\ ~IsImage(retired[c])
  OBVIOUS
<1>2. ~IsImage(current) /\ ~IsImage(previous) /\ current # Absent /\ slot["current"] = Null
      /\ slot["previous"] = Null /\ main = Null
  BY DEF Absent, Unverified, IsImage
<1>3. AnyTimeInv
  BY <1>1, <1>2 DEF AnyTimeInv, NoImageYet, Disk, GenerationsFollow
<1>4. AloneInv
  BY <1>1 DEF AloneInv, OneInFlight, GenerationIsFresh, RotationIsAlone, VersionsHold
<1>5. OrderInv
  BY <1>1, <1>2 DEF OrderInv, GenerationsIncrease, NewestIsLatest, StagingIsOrdered, NotBehind
<1> QED BY <1>3, <1>4, <1>5 DEF OverlapInv, OverlapInit

(* A pipeline nobody is in has nobody who overlaps.                         *)
LEMMA EmptyIsAlone ==
    ASSUME \A c \in Command : wpc'[c] = "none"
    PROVE  AloneInv'
  BY DEF AloneInv, OneInFlight, GenerationIsFresh, RotationIsAlone, VersionsHold

LEMMA AloneStep ==
    ASSUME IndInv, AnyTimeInv, AloneInv, OneInFlight', [Next]_vars
    PROVE  AloneInv'
  BY GenerationStep, RotationAloneStep, VersionsStep DEF AnyTimeInv, AloneInv

LEMMA OrderStep ==
    ASSUME IndInv, AnyTimeInv, AloneInv, OrderInv, [Next]_vars
    PROVE  OrderInv'
  BY GenerationsStep, NewestStep, StagingStep, NotBehindStep DEF AnyTimeInv, AloneInv, OrderInv

LEMMA OverlapInvStep ==
    ASSUME IndInv, OverlapInv, [OverlapNext]_<<vars, overlap>>
    PROVE  OverlapInv'
<1>1. [Next]_vars
  BY DEF OverlapNext
<1>2. AnyTimeInv'
  BY <1>1, NoImageYetStep, FollowStep DEF OverlapInv, AnyTimeInv
<1>3. CASE UNCHANGED <<vars, overlap>>
  <2>1. UNCHANGED overlap /\ OneInFlight' = OneInFlight
    BY <1>3 DEF vars, memory, OneInFlight
  <2>2. overlap # "now" => AloneInv'
    BY <1>1, <2>1, AloneStep DEF OverlapInv, AloneInv
  <2>3. overlap = "none" => OrderInv'
    BY <1>1, OrderStep DEF OverlapInv
  <2> QED BY <1>2, <2>1, <2>2, <2>3 DEF OverlapInv
<1>4. CASE OverlapStep
  <2>1. overlap' \in {"none", "now", "past"}
    BY <1>4 DEF OverlapStep, OverlapInv
  <2>2. ASSUME overlap' # "now" PROVE AloneInv'
    <3>1. OneInFlight'
      BY <1>4, <2>2 DEF OverlapStep
    <3>2. CASE overlap # "now"
      BY <1>1, <3>1, <3>2, AloneStep DEF OverlapInv
    <3>3. CASE overlap = "now"
      <4>1. InFlight' = {}
        BY <1>4, <2>2, <3>3 DEF OverlapStep
      <4>2. \A c \in Command : wpc'[c] = "none"
        BY <4>1 DEF InFlight
      <4> QED BY <4>2, EmptyIsAlone
    <3> QED BY <3>2, <3>3
  <2>3. ASSUME overlap' = "none" PROVE OrderInv'
    <3>1. overlap = "none" \/ (overlap # "now" /\ log' # log)
      BY <1>4, <2>3 DEF OverlapStep
    <3>2. CASE overlap = "none"
      BY <1>1, <3>2, OrderStep DEF OverlapInv
    <3>3. CASE overlap # "now" /\ log' # log
      <4>1. PICK c \in Command : Commit(c)
        BY <1>1, <3>3, LogStep
      <4> QED BY <3>3, <4>1, CommitHeals DEF OverlapInv
    <3> QED BY <3>1, <3>2, <3>3
  <2> QED BY <1>2, <2>1, <2>2, <2>3 DEF OverlapInv
<1> QED BY <1>3, <1>4 DEF OverlapNext

(* The history variable takes nothing from what is known of the pipeline.   *)
LEMMA OverlapKeepsIndInv == OverlapSpec => []IndInv
<1>1. IndInv /\ [OverlapNext]_<<vars, overlap>> => IndInv'
  BY IndStep DEF OverlapNext
<1> QED BY <1>1, IndInit, PTL DEF OverlapSpec

(* With any number of workers: while a command has been alone since it was  *)
(* submitted, its generation is nobody else's, the directories are as it    *)
(* left them and the row_version it was submitted against stands; and once  *)
(* such a command has committed, generations, newest image and staging      *)
(* directories are in order until two commands overlap again.               *)
THEOREM OverlapInductive == OverlapSpec => []OverlapInv
<1>1. IndInv /\ OverlapInv /\ [OverlapNext]_<<vars, overlap>> => OverlapInv'
  BY OverlapInvStep
<1> QED BY <1>1, OverlapInvInit, OverlapKeepsIndInv, PTL DEF OverlapSpec

(* For any number of workers, faults and restarts: the generations of the   *)
(* slots and of the images on disk increase except as the consequence of an *)
(* overlap, which the next command that commits alone ends.                 *)
THEOREM GenerationsAreOrdered == OverlapSpec => []GenerationsOrdered
<1>1. OverlapInv => GenerationsOrdered
  BY DEF OverlapInv, OrderInv, GenerationsOrdered
<1> QED BY <1>1, OverlapInductive, PTL

(* For any number of workers: a command that met no other one commits over  *)
(* its own image, which holds everything committed before it, also when     *)
(* overlaps, failed rotations and crashes came before.                      *)
THEOREM OwnImageFirst == OverlapSpec => LoneCommitOverItsOwnImage
<1>1. ASSUME IndInv, OverlapInv, [Next]_vars, overlap # "now", NEW c \in Command, Commits(c)
      PROVE  OverItsOwnImage(c)
  <2>1. Commit(c)
    BY <1>1, CommittedByCommit DEF Commits
  <2>2. current = OwnImage(c)
    BY <1>1, <2>1, CommitOverImage DEF OverlapInv, AloneInv
  <2> QED BY <2>2, OwnFields DEF OverItsOwnImage
<1>2. IndInv /\ OverlapInv /\ [OverlapNext]_<<vars, overlap>> =>
        [overlap # "now" =>
          \A c \in Command : Commits(c) => OverItsOwnImage(c)]_<<vars, overlap>>
  BY <1>1 DEF OverlapNext
<1> QED BY <1>2, OverlapKeepsIndInv, OverlapInductive, PTL
        DEF OverlapSpec, LoneCommitOverItsOwnImage

(* For any number of workers: a row is changed over another row_version     *)
(* than its command was submitted against only by an editor that reads the  *)
(* row again, and only if another command was in flight beside it.          *)
THEOREM UpdatesKept == OverlapSpec => LostUpdateNeedsOverlap
<1>1. ASSUME IndInv, OverlapInv, [Next]_vars, NEW c \in Command, Commits(c),
             version[target[c]] # job[c].expected
      PROVE  overlap = "now" /\ job[c].basis = "reread"
  <2>1. Commit(c) /\ wpc[c] = "completed"
    BY <1>1, CommittedByCommit, NullAssumption DEF Commits, Commit, IndInv, InFlightIsRunning
  <2>2. job[c].basis = "reread"
    BY <1>1, <2>1 DEF Commit, MutationVersion
  <2>3. ~VersionsHold
    BY <1>1, <2>1 DEF VersionsHold
  <2> QED BY <1>1, <2>2, <2>3 DEF OverlapInv, AloneInv
<1>2. IndInv /\ OverlapInv /\ [OverlapNext]_<<vars, overlap>> =>
        [\A c \in Command :
          Commits(c) /\ version[target[c]] # job[c].expected =>
              overlap = "now" /\ job[c].basis = "reread"]_<<vars, overlap>>
  BY <1>1 DEF OverlapNext
<1> QED BY <1>2, OverlapKeepsIndInv, OverlapInductive, PTL
        DEF OverlapSpec, LostUpdateNeedsOverlap

(* For any number of workers: but for the consequences of an overlap, the   *)
(* image in recovery/current is that of the current slot, or a newer one of *)
(* the present state whose point is not registered, as a command cancelled  *)
(* after its rotation and a crash before the registration leave it.         *)
THEOREM CurrentKept == OverlapSpec => []CurrentIsNotBehind
<1>1. OverlapInv => CurrentIsNotBehind
  BY DEF OverlapInv, OrderInv, CurrentIsNotBehind
<1> QED BY <1>1, OverlapInductive, PTL

(* Whoever holds the newest generation has everything the log has.          *)
LEMMA UnregisteredBeyond ==
    ASSUME IndInv, NEW g \in Nat, NEW h \in Nat
    PROVE  /\ Unregistered(g + 1) /\ h > g => Unregistered(h)
           /\ Unregistered(g) /\ h >= g => Unregistered(h)
  BY StateTypes DEF Unregistered

(* At the rename of staging into current, that staging directory is one of  *)
(* the newest, and none that is as new has missed a change.                 *)
LEMMA PromotableAtPromote ==
    ASSUME IndInv, AnyTimeInv, AloneInv, OrderInv, NEW c \in Command, wpc[c] = "promote"
    PROVE  /\ current = Absent
           /\ staging[c] \in Promotable
           /\ \A d \in Promotable : IsImage(d) /\ d.upTo = Len(log)
<1> USE StateTypes DEF AnyTimeInv, AloneInv, OrderInv
<1>1. /\ staging[c] = OwnImage(c) /\ current = Absent /\ OlderThan(c, previous) /\ main # c
      /\ Unregistered(job[c].gen) /\ job[c].gen # 0
  BY Alone, NullAssumption DEF RotationIsAlone, GenerationIsFresh
<1>2. ASSUME NEW d \in Verified({staging[x] : x \in Command})
      PROVE  /\ d.gen \in Nat /\ d.gen <= job[c].gen
             /\ Unregistered(d.gen) => d.upTo = Len(log)
             /\ IsImage(d)
  <2>1. PICK x \in Command : d = staging[x] /\ IsImage(d)
    BY DEF Verified
  <2>2. d \in Images
    BY <2>1, Constants DEF Directory, IsImage, Absent, Unverified
  <2>3. Follows(d.gen) /\ (Unregistered(d.gen) => d.upTo = Len(log))
    BY <2>1 DEF StagingIsOrdered, GenerationsFollow
  <2>4. d.gen <= job[c].gen
    BY <1>1, <2>2, <2>3 DEF Follows, Unregistered, Images
  <2> QED BY <2>1, <2>2, <2>3, <2>4 DEF Images
<1>3. staging[c] \in Verified({staging[x] : x \in Command})
  BY <1>1, OwnFields DEF Verified
<1>4. staging[c].gen = job[c].gen
  BY <1>1, OwnFields
<1>5. staging[c] \in Promotable
  BY <1>1, <1>2, <1>3, <1>4 DEF Promotable, Newest, OlderThan
<1>6. ASSUME NEW d \in Promotable PROVE IsImage(d) /\ d.upTo = Len(log)
  <2>1. d \in Verified({staging[x] : x \in Command}) /\ job[c].gen <= d.gen
    BY <1>3, <1>4 DEF Promotable, Newest
  <2>2. Unregistered(d.gen)
    BY <1>1, <1>2, <2>1, UnregisteredBeyond
  <2> QED BY <1>2, <2>1, <2>2
<1> QED BY <1>1, <1>5, <1>6

(* With current renamed away and previous in place, reconciliation promotes *)
(* only what is at least as recent as previous.                             *)
LEMMA PromotableOverPrevious ==
    ASSUME IndInv, OrderInv, current = Absent, IsImage(previous), NEW d \in Promotable
    PROVE  IsImage(d) /\ d.upTo = Len(log)
<1> USE StateTypes DEF OrderInv
<1>1. Unregistered(previous.gen + 1) /\ previous.gen \in Nat
  BY Constants DEF NewestIsLatest, Directory, Images, IsImage, Absent, Unverified
<1>2. PICK x \in Command : d = staging[x] /\ IsImage(d)
  BY DEF Promotable, Newest, Verified
<1>3. d.gen \in Nat /\ d.gen > previous.gen
  BY <1>2 DEF Promotable, Directory, Images, IsImage, Absent, Unverified
<1>4. Unregistered(d.gen)
  BY <1>1, <1>3, UnregisteredBeyond
<1> QED BY <1>2, <1>4 DEF StagingIsOrdered

(* For any number of workers: but for the consequences of an overlap, a     *)
(* start that called reconciliation first would find, wherever the process  *)
(* ended, an image that restores everything up to the last change, or that  *)
(* change as well.                                                          *)
THEOREM LastStateRestored == OverlapSpec => []LastStateIsRestored
<1>1. ASSUME IndInv, AnyTimeInv, AloneInv, OrderInv, InReach, log # << >>, NEW r \in Reconciled
      PROVE  IsImage(r.current) /\ Latest(r.current)
  <2>1. CASE IsImage(current)
    <3>1. r.current = current
      BY <1>1, <2>1 DEF Reconciled, AcceptCurrent, Result
    <3> QED BY <1>1, <2>1, <3>1 DEF OrderInv, NewestIsLatest
  <2>2. CASE ~IsImage(current)
    <3>1. current = Absent
      BY <1>1, <2>2, StateTypes DEF InReach, Directory, Images, IsImage
    <3>2. \/ IsImage(previous)
          \/ \E c \in Command : wpc[c] = "promote"
      BY <1>1, <2>2 DEF InReach
    <3>3. \A d \in Promotable : IsImage(d) /\ Latest(d)
      BY <1>1, <3>1, <3>2, PromotableAtPromote, PromotableOverPrevious DEF Latest
    <3>4. CASE Promotable # {}
      <4>1. PICK d \in Promotable : r.current = d
        BY <2>2, <3>1, <3>4, <1>1 DEF Reconciled, Result
      <4> QED BY <3>3, <4>1
    <3>5. CASE Promotable = {}
      <4>1. IsImage(previous)
        BY <1>1, <3>2, <3>5, PromotableAtPromote
      <4>2. r.current = previous
        BY <1>1, <2>2, <3>1, <3>5, <4>1 DEF Reconciled, Result
      <4> QED BY <1>1, <3>1, <4>1, <4>2 DEF OrderInv, NewestIsLatest
    <3> QED BY <3>4, <3>5
  <2> QED BY <2>1, <2>2
<1>2. IndInv /\ OverlapInv => LastStateIsRestored
  BY <1>1 DEF OverlapInv, LastStateIsRestored, RestoresTheLastState, Latest
<1> QED BY <1>2, OverlapKeepsIndInv, OverlapInductive, PTL

=============================================================================

-------------------------- MODULE ImportParseProofs --------------------------
(***************************************************************************)
(* Proofs about ImportParse, for every set of batches, files and contents, *)
(* every number of restarts and every choice of interruptions; then about  *)
(* cancelled and finished batches when no step fails, and at the end about *)
(* how many steps a batch has left.                                        *)
(***************************************************************************)
EXTENDS ImportParse, SequenceTheorems, FiniteSetTheorems, TLAPS

USE ContentAssumption, NullAssumption, BoundAssumption

-----------------------------------------------------------------------------
(* Closing an attempt keeps the sequence of attempts a sequence of statuses *)
(* and changes no other element.                                            *)
LEMMA CloseType ==
    ASSUME NEW S, NEW s \in Seq(S), NEW n, NEW v \in S
    PROVE  /\ [s EXCEPT ![n] = v] \in Seq(S)
           /\ Len([s EXCEPT ![n] = v]) = Len(s)
           /\ \A m \in 1..Len(s) : [s EXCEPT ![n] = v][m] = IF m = n THEN v ELSE s[m]
<1>1. DOMAIN [s EXCEPT ![n] = v] = 1..Len(s)
  OBVIOUS
<1>2. \A m \in 1..Len(s) : [s EXCEPT ![n] = v][m] = IF m = n THEN v ELSE s[m]
  OBVIOUS
<1>3. [s EXCEPT ![n] = v] \in [1..Len(s) -> S]
  <2>1. \A m \in 1..Len(s) : s[m] \in S
    OBVIOUS
  <2> QED BY <1>1, <1>2, <2>1
<1>4. [s EXCEPT ![n] = v] \in Seq(S)
  <2>1. Len(s) \in Nat
    OBVIOUS
  <2> QED BY <1>3, <2>1, SeqDef
<1>5. Len([s EXCEPT ![n] = v]) = Len(s)
  BY <1>1, <1>4
<1> QED BY <1>2, <1>4, <1>5

-----------------------------------------------------------------------------
(* The variables keep their types under every step.                         *)
LEMMA TypeInit == Init => TypeOK
<1> SUFFICES ASSUME Init PROVE TypeOK
  OBVIOUS
<1> USE DEF Init
<1>1. RowsTypeOK
  <2>1. <<>> \in Seq(AttemptStatus)
    OBVIOUS
  <2>2. attempts \in [Content -> Seq(AttemptStatus)]
    BY <2>1
  <2> QED BY <2>2 DEF RowsTypeOK
<1>2. PipelineTypeOK
  BY DEF PipelineTypeOK
<1> QED BY <1>1, <1>2 DEF TypeOK

LEMMA CloseAttemptType ==
    ASSUME RowsTypeOK, NEW k \in Content, NEW s \in AttemptStatus, CloseAttempt(k, s)
    PROVE  /\ artifact' \in [Content -> {"absent"} \cup AttemptStatus]
           /\ attempts' \in [Content -> Seq(AttemptStatus)]
<1>1. attempts[k] \in Seq(AttemptStatus)
  BY DEF RowsTypeOK
<1>2. [attempts[k] EXCEPT ![attemptNo] = s] \in Seq(AttemptStatus)
  BY <1>1, CloseType
<1>3. attempts' = [attempts EXCEPT ![k] = [attempts[k] EXCEPT ![attemptNo] = s]]
  BY DEF CloseAttempt
<1> QED BY <1>2, <1>3 DEF CloseAttempt, RowsTypeOK

(* Where a callback or a worker handles a file, there is one.               *)
LEMMA ActiveType ==
    ASSUME IndInv, pc \in {"importing", "record"} \cup Attempting
    PROVE  /\ active \in Item /\ batch \in Batch /\ batchOf[active] = batch
           /\ ContentOf[active] \in Content
<1>1. active \in Mine /\ batch \in Batch
  BY DEF IndInv, PipelineIsPlaced, Attempting, Importing, Parsing
<1> QED BY <1>1 DEF Mine

LEMMA RowsTypeStep == IndInv /\ [Next]_vars => RowsTypeOK'
<1> SUFFICES ASSUME IndInv, [Next]_vars PROVE RowsTypeOK'
  OBVIOUS
<1>0. RowsTypeOK /\ PipelineTypeOK
  BY DEF IndInv, TypeOK
<1> USE <1>0 DEF RowsTypeOK, rows, files, Imported, Final
<1>1. ASSUME NEW b \in Batch, NEW selection \in SUBSET Item, Start(b, selection) PROVE RowsTypeOK'
  BY <1>1 DEF Start
<1>2. CASE Cancel
  BY <1>2 DEF Cancel
<1>3. CASE WorkerStep
  <2>1. pc = "importing" => ContentOf[active] \in Content
    BY ActiveType
  <2> QED BY <1>3, <2>1 DEF WorkerStep, BeginWork, Materialize, ParseFile, WorkerFault, workerOnly
<1>4. CASE ImportStep
  <2>1. ASSUME NEW i \in Item, NextImport(i) \/ ImportFailed(i) \/ CancelRemaining(i) PROVE RowsTypeOK'
    <3>1. CASE NextImport(i)
      BY <3>1 DEF NextImport
    <3>2. CASE ImportFailed(i)
      BY <3>2 DEF ImportFailed, MarkItem
    <3>3. CASE CancelRemaining(i)
      BY <3>3 DEF CancelRemaining, MarkItem
    <3> QED BY <2>1, <3>1, <3>2, <3>3
  <2>2. CASE ImportCompleted
    <3>1. active \in Item /\ ContentOf[active] \in Content
      BY <2>2, ActiveType DEF ImportCompleted
    <3>2. itemState' \in [Item -> {"absent", "pending", "failed", "cancelled"} \cup Imported]
      BY <2>2, <3>1 DEF ImportCompleted, MarkItem
    <3> QED BY <2>2, <3>1, <3>2 DEF ImportCompleted
  <2>3. CASE ImportCancelled
    BY <2>3 DEF ImportCancelled, MarkItem
  <2>4. CASE MarkParsing
    BY <2>4 DEF MarkParsing
  <2> QED BY <1>4, <2>1, <2>2, <2>3, <2>4 DEF ImportStep
<1>5. CASE ParseStep
  <2>1. pc \in Attempting => ContentOf[active] \in Content
    BY ActiveType
  <2>2. ASSUME NEW i \in Item, BeginParse(i) \/ RefuseParse(i) \/ SkipParse(i) PROVE RowsTypeOK'
    <3>1. ContentOf[i] \in Content
      OBVIOUS
    <3>2. Append(attempts[ContentOf[i]], "running") \in Seq(AttemptStatus)
      BY <3>1 DEF AttemptStatus
    <3>3. CASE BeginParse(i)
      <4>1. attempts' \in [Content -> Seq(AttemptStatus)]
        BY <3>2, <3>3 DEF BeginParse
      <4>2. artifact' \in [Content -> {"absent"} \cup AttemptStatus]
        BY <3>3 DEF BeginParse, AttemptStatus
      <4> QED BY <3>3, <4>1, <4>2 DEF BeginParse
    <3>4. CASE RefuseParse(i)
      BY <3>4 DEF RefuseParse
    <3>5. CASE SkipParse(i)
      BY <3>5 DEF SkipParse
    <3> QED BY <2>2, <3>3, <3>4, <3>5
  <2>3. CASE Announce \/ RecordParse
    <3>1. verdict \in {"pending", "succeeded", "failed", "cancelled"}
      BY <2>3 DEF Announce, RecordParse, IndInv, AttemptIsOpen
    <3> QED BY <2>3, <3>1 DEF Announce, RecordParse
  <2>4. CASE PromoteDerived
    BY <2>1, <2>4 DEF PromoteDerived, Attempting
  <2>5. ASSUME NEW s \in AttemptStatus, CloseAttempt(ContentOf[active], s), pc \in Attempting,
               UNCHANGED <<batchStatus, batchOf, itemState, parseStatus, snapshots, files>>
        PROVE  RowsTypeOK'
    <3>1. /\ artifact' \in [Content -> {"absent"} \cup AttemptStatus]
          /\ attempts' \in [Content -> Seq(AttemptStatus)]
      BY <2>1, <2>5, CloseAttemptType
    <3> QED BY <2>5, <3>1
  <2>6. CASE RegisterSuccess
    BY <2>5, <2>6 DEF RegisterSuccess, Attempting, AttemptStatus
  <2>7. CASE RegisterFailure
    BY <2>5, <2>7 DEF RegisterFailure, Attempting, AttemptStatus
  <2>8. CASE CancelAttempt
    BY <2>5, <2>8 DEF CancelAttempt, Attempting, AttemptStatus
  <2> QED BY <1>5, <2>2, <2>3, <2>4, <2>6, <2>7, <2>8 DEF ParseStep
<1>6. CASE Finish \/ CallbackFault \/ Restart \/ UNCHANGED vars
  BY <1>6 DEF Finish, FinishParsed, FinishCancelled, FinishUnrecorded, Finalize, BatchOutcome,
              CallbackFault, Restart, vars
<1> QED BY <1>1, <1>2, <1>3, <1>4, <1>5, <1>6 DEF Next, MainStep

LEMMA PipelineTypeStep == IndInv /\ [Next]_vars => PipelineTypeOK'
<1> SUFFICES ASSUME IndInv, [Next]_vars PROVE PipelineTypeOK'
  OBVIOUS
<1>0. RowsTypeOK /\ PipelineTypeOK
  BY DEF IndInv, TypeOK
<1> USE <1>0 DEF PipelineTypeOK, Reported, Final, lists, pipeline, user
<1>1. ASSUME NEW b \in Batch, NEW selection \in SUBSET Item, Start(b, selection) PROVE PipelineTypeOK'
  BY <1>1 DEF Start
<1>2. CASE Cancel
  BY <1>2 DEF Cancel
<1>3. CASE WorkerStep
  BY <1>3 DEF WorkerStep, BeginWork, Materialize, ParseFile, WorkerFault, workerOnly
<1>4. CASE ImportStep
  <2>1. ASSUME NEW i \in Item, NextImport(i) \/ ImportFailed(i) \/ CancelRemaining(i)
        PROVE  PipelineTypeOK'
    <3>1. CASE NextImport(i)
      BY <3>1 DEF NextImport
    <3>2. CASE ImportFailed(i)
      BY <3>2 DEF ImportFailed
    <3>3. CASE CancelRemaining(i)
      BY <3>3 DEF CancelRemaining
    <3> QED BY <2>1, <3>1, <3>2, <3>3
  <2>2. CASE ImportCompleted
    BY <2>2, ActiveType DEF ImportCompleted
  <2>3. CASE ImportCancelled
    BY <2>3, ActiveType DEF ImportCancelled
  <2>4. CASE MarkParsing
    BY <2>4 DEF MarkParsing
  <2> QED BY <1>4, <2>1, <2>2, <2>3, <2>4 DEF ImportStep
<1>5. CASE ParseStep
  <2>1. pc \in Attempting \cup {"record"} => active \in Item
    BY ActiveType
  <2>2. ASSUME NEW i \in Item, BeginParse(i) \/ RefuseParse(i) \/ SkipParse(i) PROVE PipelineTypeOK'
    <3>1. Len(attempts[ContentOf[i]]) + 1 \in Nat
      BY DEF RowsTypeOK
    <3> QED BY <2>2, <3>1 DEF BeginParse, RefuseParse, SkipParse
  <2>3. CASE Announce
    BY <2>3 DEF Announce
  <2>5. CASE PromoteDerived
    BY <2>5 DEF PromoteDerived
  <2>6. CASE RecordParse
    BY <2>1, <2>6 DEF RecordParse
  <2>4. CASE RegisterSuccess \/ RegisterFailure \/ CancelAttempt
    BY <2>4 DEF RegisterSuccess, RegisterFailure, CancelAttempt
  <2> QED BY <1>5, <2>2, <2>3, <2>4, <2>5, <2>6 DEF ParseStep
<1>6. CASE Finish \/ CallbackFault
  BY <1>6 DEF Finish, FinishParsed, FinishCancelled, FinishUnrecorded, Finalize, BatchOutcome,
              CallbackFault
<1>7. CASE Restart
  <2>1. restarts' \in Nat
    BY <1>7 DEF Restart
  <2>2. /\ pc' = "idle" /\ batch' = Null /\ active' = Null /\ attemptNo' = 0 /\ verdict' = "none"
        /\ worker' = "none" /\ flagged' = FALSE /\ handle' = "none" /\ cancelled' = FALSE
        /\ materialized' = {} /\ successes' = {} /\ failed' = {} /\ dropped' = {} /\ parseFailed' = {}
    BY <1>7 DEF Restart
  <2> QED BY ONLY <2>1, <2>2
<1>8. CASE UNCHANGED vars
  BY <1>8 DEF vars
<1> QED BY <1>1, <1>2, <1>3, <1>4, <1>5, <1>6, <1>7, <1>8 DEF Next, MainStep

LEMMA TypeStep == IndInv /\ [Next]_vars => TypeOK'
  BY RowsTypeStep, PipelineTypeStep DEF TypeOK

-----------------------------------------------------------------------------
(* Which steps write which rows.                                            *)

(* The transactions; any other step leaves every row as it was.             *)
Transaction ==
    \/ \E b \in Batch, selection \in SUBSET Item : Start(b, selection)
    \/ \E i \in Item : ImportFailed(i) \/ CancelRemaining(i)
    \/ ImportCompleted \/ ImportCancelled \/ MarkParsing
    \/ \E i \in Item : BeginParse(i) \/ SkipParse(i)
    \/ Announce \/ RegisterSuccess \/ RegisterFailure \/ CancelAttempt \/ RecordParse
    \/ FinishParsed \/ FinishCancelled

LEMMA OnlyTransactions == [Next]_vars => Transaction \/ UNCHANGED rows
<1> SUFFICES ASSUME [Next]_vars, ~Transaction PROVE UNCHANGED rows
  OBVIOUS
<1>1. CASE Cancel
  BY <1>1 DEF Cancel
<1>2. CASE WorkerStep
  BY <1>2 DEF WorkerStep, BeginWork, Materialize, ParseFile, WorkerFault, workerOnly
<1>3. ASSUME NEW i \in Item, NextImport(i) \/ RefuseParse(i) PROVE UNCHANGED rows
  BY <1>3 DEF NextImport, RefuseParse
<1>4. CASE PromoteDerived \/ FinishUnrecorded \/ CallbackFault \/ Restart
  BY <1>4 DEF PromoteDerived, FinishUnrecorded, CallbackFault, Restart
<1>5. CASE UNCHANGED vars
  BY <1>5 DEF vars
<1> QED BY <1>1, <1>2, <1>3, <1>4, <1>5
        DEF Transaction, Next, MainStep, ImportStep, ParseStep, Finish

(* A file that was stored or derived stays.                                 *)
LEMMA FilesStay == [Next]_vars => stored \subseteq stored' /\ derived \subseteq derived'
<1> SUFFICES ASSUME [Next]_vars PROVE stored \subseteq stored' /\ derived \subseteq derived'
  OBVIOUS
<1> USE DEF files
<1>1. CASE WorkerStep
  BY <1>1 DEF WorkerStep, BeginWork, Materialize, ParseFile, WorkerFault, workerOnly
<1>2. CASE ImportStep
  BY <1>2 DEF ImportStep, NextImport, ImportFailed, CancelRemaining, ImportCompleted,
              ImportCancelled, MarkParsing
<1>3. CASE ParseStep
  BY <1>3 DEF ParseStep, BeginParse, RefuseParse, SkipParse, Announce, PromoteDerived,
              RegisterSuccess, RegisterFailure, CancelAttempt, RecordParse
<1>4. CASE Finish \/ CallbackFault
  BY <1>4 DEF Finish, FinishParsed, FinishCancelled, FinishUnrecorded, Finalize, CallbackFault
<1>5. CASE Cancel \/ Restart \/ UNCHANGED vars
  BY <1>5 DEF Cancel, Restart, vars
<1>6. ASSUME NEW b \in Batch, NEW selection \in SUBSET Item, Start(b, selection)
      PROVE  stored \subseteq stored' /\ derived \subseteq derived'
  BY <1>6 DEF Start
<1> QED BY <1>1, <1>2, <1>3, <1>4, <1>5, <1>6 DEF Next, MainStep

(* Only an item nobody has settled is settled.                              *)
LEMMA MarkedWasPending ==
    ASSUME IndInv, NEW i \in Item,
           \/ ImportFailed(i) \/ CancelRemaining(i)
           \/ i = active /\ (ImportCompleted \/ ImportCancelled)
    PROVE  /\ itemState[i] = "pending" /\ batchOf[i] = batch
           /\ pc \in Importing
<1>1. pc = "importing" => active \in Mine /\ itemState[active] = "pending"
  BY DEF IndInv, PipelineIsPlaced
<1> QED BY <1>1 DEF ImportFailed, CancelRemaining, ImportCompleted, ImportCancelled,
                    Pending, Mine, Importing

(* A file that is parsed was imported by this batch.                        *)
LEMMA TakenIsImported ==
    ASSUME IndInv, NEW i \in Item, BeginParse(i) \/ SkipParse(i) \/ RefuseParse(i)
    PROVE  /\ itemState[i] \in Imported /\ batchOf[i] = batch
           /\ i \in successes /\ ContentOf[i] \in snapshots
<1>1. pc = "nextParse" /\ i \in materialized
  BY DEF BeginParse, SkipParse, RefuseParse
<1>2. materialized \subseteq successes /\ successes = {j \in Mine : itemState[j] \in Imported}
  BY <1>1 DEF IndInv, ListsMirrorRows, Importing, Parsing
<1>3. itemState[i] \in Imported => ContentOf[i] \in snapshots
  BY DEF IndInv, OneImportPerContent
<1> QED BY <1>1, <1>2, <1>3 DEF Mine

-----------------------------------------------------------------------------
(* The inductive invariant: one lemma per part, each from the whole of it.  *)

(* What the three ends of an attempt do to the rows.                        *)
LEMMA AttemptEnds ==
    ASSUME IndInv, RegisterSuccess \/ RegisterFailure \/ CancelAttempt
    PROVE  /\ pc \in {"parsing", "register"}
           /\ ContentOf[active] \in Content /\ artifact[ContentOf[active]] = "running"
           /\ attemptNo = Len(attempts[ContentOf[active]])
           /\ verdict' \in {"succeeded", "failed", "cancelled"}
           /\ artifact' = [artifact EXCEPT ![ContentOf[active]] = verdict']
           /\ attempts' = [attempts EXCEPT ![ContentOf[active]] =
                             [attempts[ContentOf[active]] EXCEPT ![attemptNo] = verdict']]
           /\ pc' = "record" /\ active' = active
           /\ verdict' = "succeeded" => RegisterSuccess
           /\ UNCHANGED <<batchStatus, batchOf, itemState, parseStatus, snapshots, stored, derived>>
<1>1. pc \in {"parsing", "register"}
  BY DEF RegisterSuccess, RegisterFailure, CancelAttempt
<1>2. ContentOf[active] \in Content
  BY <1>1, ActiveType DEF Attempting
<1>3. attemptNo = Len(attempts[ContentOf[active]])
  BY <1>1 DEF IndInv, AttemptIsOpen, Attempting
<1> QED BY <1>1, <1>2, <1>3
        DEF RegisterSuccess, RegisterFailure, CancelAttempt, CloseAttempt, OpenAttempt, files

LEMMA ArtifactsStep == IndInv /\ [Next]_vars => ArtifactsAreStored'
<1> SUFFICES ASSUME IndInv, [Next]_vars PROVE ArtifactsAreStored'
  OBVIOUS
<1>0. ArtifactsAreStored /\ RowsTypeOK
  BY DEF IndInv, TypeOK
<1> USE DEF ArtifactsAreStored
<1>1. ASSUME NEW b \in Batch, NEW selection \in SUBSET Item, Start(b, selection) PROVE ArtifactsAreStored'
  BY <1>0, <1>1 DEF Start
<1>2. ASSUME NEW i \in Item, ImportFailed(i) \/ CancelRemaining(i) \/ SkipParse(i) PROVE ArtifactsAreStored'
  BY <1>0, <1>2 DEF ImportFailed, CancelRemaining, SkipParse
<1>3. CASE ImportCompleted \/ ImportCancelled \/ MarkParsing
  BY <1>0, <1>3 DEF ImportCompleted, ImportCancelled, MarkParsing
<1>4. ASSUME NEW i \in Item, BeginParse(i) PROVE ArtifactsAreStored'
  <2>1. ContentOf[i] \in snapshots
    BY <1>4, TakenIsImported
  <2>2. snapshots' = snapshots /\ artifact' = [artifact EXCEPT ![ContentOf[i]] = "running"]
    BY <1>4 DEF BeginParse
  <2> QED BY <1>0, <2>1, <2>2 DEF RowsTypeOK
<1>5. CASE RegisterSuccess \/ RegisterFailure \/ CancelAttempt
  BY <1>0, <1>5, AttemptEnds DEF RowsTypeOK
<1>6. CASE Announce \/ RecordParse \/ FinishParsed \/ FinishCancelled
  BY <1>0, <1>6 DEF Announce, RecordParse, FinishParsed, FinishCancelled, Finalize
<1>7. CASE UNCHANGED rows
  BY <1>0, <1>7 DEF rows
<1> QED BY <1>1, <1>2, <1>3, <1>4, <1>5, <1>6, <1>7, OnlyTransactions DEF Transaction

LEMMA BatchesStep == IndInv /\ [Next]_vars => ItemsHaveBatches'
<1> SUFFICES ASSUME IndInv, [Next]_vars PROVE ItemsHaveBatches'
  OBVIOUS
<1>0. ItemsHaveBatches /\ RowsTypeOK
  BY DEF IndInv, TypeOK
<1> USE DEF ItemsHaveBatches
<1>1. ASSUME NEW b \in Batch, NEW selection \in SUBSET Item, Start(b, selection) PROVE ItemsHaveBatches'
  BY <1>0, <1>1 DEF Start, RowsTypeOK
<1>2. ASSUME NEW i \in Item, ImportFailed(i) \/ CancelRemaining(i) PROVE ItemsHaveBatches'
  <2>1. itemState[i] = "pending"
    BY <1>2, MarkedWasPending
  <2>2. \/ itemState' = [itemState EXCEPT ![i] = "failed"]
        \/ itemState' = [itemState EXCEPT ![i] = "cancelled"]
    BY <1>2 DEF ImportFailed, CancelRemaining, MarkItem
  <2>3. UNCHANGED <<batchStatus, batchOf>>
    BY <1>2 DEF ImportFailed, CancelRemaining
  <2> QED BY <1>0, <2>1, <2>2, <2>3 DEF RowsTypeOK
<1>3. CASE ImportCompleted \/ ImportCancelled
  <2>1. active \in Item /\ itemState[active] = "pending"
    BY <1>3, ActiveType, MarkedWasPending DEF ImportCompleted, ImportCancelled
  <2>2. \E s \in Imported \cup {"cancelled"} : itemState' = [itemState EXCEPT ![active] = s]
    BY <1>3 DEF ImportCompleted, ImportCancelled, MarkItem, Imported
  <2>3. UNCHANGED <<batchStatus, batchOf>>
    BY <1>3 DEF ImportCompleted, ImportCancelled
  <2> QED BY <1>0, <2>1, <2>2, <2>3 DEF RowsTypeOK, Imported
<1>4. CASE MarkParsing \/ FinishParsed \/ FinishCancelled
  <2>1. \E s \in {"parsing"} \cup Final : batchStatus' = [batchStatus EXCEPT ![batch] = s]
    BY <1>4 DEF MarkParsing, FinishParsed, FinishCancelled, Finalize, BatchOutcome, Final
  <2>2. UNCHANGED <<itemState, batchOf>>
    BY <1>4 DEF MarkParsing, FinishParsed, FinishCancelled, Finalize
  <2> QED BY <1>0, <2>1, <2>2 DEF RowsTypeOK, Final
<1>5. ASSUME NEW i \in Item, BeginParse(i) \/ SkipParse(i) PROVE ItemsHaveBatches'
  BY <1>0, <1>5 DEF BeginParse, SkipParse
<1>6. CASE RegisterSuccess \/ RegisterFailure \/ CancelAttempt
  BY <1>0, <1>6, AttemptEnds
<1>7. CASE Announce \/ RecordParse
  BY <1>0, <1>7 DEF Announce, RecordParse
<1>8. CASE UNCHANGED rows
  BY <1>0, <1>8 DEF rows
<1> QED BY <1>1, <1>2, <1>3, <1>4, <1>5, <1>6, <1>7, <1>8, OnlyTransactions DEF Transaction

LEMMA FilesStep == IndInv /\ [Next]_vars => RowsHaveFiles'
<1> SUFFICES ASSUME IndInv, [Next]_vars PROVE RowsHaveFiles'
  OBVIOUS
<1>0. RowsHaveFiles /\ RowsTypeOK /\ stored \subseteq stored' /\ derived \subseteq derived'
  BY FilesStay DEF IndInv, TypeOK
<1> USE DEF RowsHaveFiles
<1>1. ASSUME UNCHANGED <<snapshots, artifact>> PROVE RowsHaveFiles'
  BY <1>0, <1>1
<1>2. CASE ImportCompleted
  <2>1. ContentOf[active] \in stored
    BY <1>2 DEF ImportCompleted, IndInv, PipelineIsPlaced
  <2>2. snapshots' = snapshots \cup {ContentOf[active]} /\ artifact' = artifact
    BY <1>2 DEF ImportCompleted
  <2> QED BY <1>0, <2>1, <2>2
<1>3. ASSUME NEW i \in Item, BeginParse(i) PROVE RowsHaveFiles'
  <2>1. snapshots' = snapshots /\ artifact' = [artifact EXCEPT ![ContentOf[i]] = "running"]
    BY <1>3 DEF BeginParse
  <2> QED BY <1>0, <2>1 DEF RowsTypeOK
<1>4. CASE RegisterSuccess
  <2>1. ContentOf[active] \in derived
    BY <1>4 DEF RegisterSuccess, IndInv, AttemptIsOpen
  <2> QED BY <1>0, <1>4, <2>1, AttemptEnds DEF RowsTypeOK
<1>5. CASE RegisterFailure \/ CancelAttempt
  <2>1. verdict' # "succeeded"
    BY <1>5 DEF RegisterFailure, CancelAttempt
  <2>2. snapshots' = snapshots /\ artifact' = [artifact EXCEPT ![ContentOf[active]] = verdict']
    BY <1>5, AttemptEnds
  <2> QED BY <1>0, <2>1, <2>2 DEF RowsTypeOK
<1>6. ASSUME NEW b \in Batch, NEW selection \in SUBSET Item, Start(b, selection)
      PROVE  UNCHANGED <<snapshots, artifact>>
  BY <1>6 DEF Start
<1>7. ASSUME NEW i \in Item, ImportFailed(i) \/ CancelRemaining(i) \/ SkipParse(i)
      PROVE  UNCHANGED <<snapshots, artifact>>
  BY <1>7 DEF ImportFailed, CancelRemaining, SkipParse
<1>8. CASE ImportCancelled \/ MarkParsing \/ Announce \/ RecordParse \/ FinishParsed \/ FinishCancelled
  BY <1>1, <1>8 DEF ImportCancelled, MarkParsing, Announce, RecordParse, FinishParsed,
                    FinishCancelled, Finalize
<1>9. CASE UNCHANGED rows
  BY <1>1, <1>9 DEF rows
<1> QED BY <1>1, <1>2, <1>3, <1>4, <1>5, <1>6, <1>7, <1>8, <1>9, OnlyTransactions DEF Transaction

LEMMA AttemptsStep == IndInv /\ [Next]_vars => ArtifactFollowsLatestAttempt'
<1> SUFFICES ASSUME IndInv, [Next]_vars, NEW k \in Content
             PROVE  /\ artifact'[k] = "absent" <=> attempts'[k] = <<>>
                    /\ attempts'[k] # <<>> => attempts'[k][Len(attempts'[k])] = artifact'[k]
                    /\ \A n \in 1..(Len(attempts'[k]) - 1) : attempts'[k][n] # "succeeded"
  BY DEF ArtifactFollowsLatestAttempt
<1> DEFINE Goal == /\ artifact'[k] = "absent" <=> attempts'[k] = <<>>
                   /\ attempts'[k] # <<>> => attempts'[k][Len(attempts'[k])] = artifact'[k]
                   /\ \A n \in 1..(Len(attempts'[k]) - 1) : attempts'[k][n] # "succeeded"
<1>0. /\ artifact \in [Content -> {"absent"} \cup AttemptStatus]
      /\ attempts \in [Content -> Seq(AttemptStatus)] /\ attempts[k] \in Seq(AttemptStatus)
  BY DEF IndInv, TypeOK, RowsTypeOK
<1>1. /\ artifact[k] = "absent" <=> attempts[k] = <<>>
      /\ attempts[k] # <<>> => attempts[k][Len(attempts[k])] = artifact[k]
      /\ \A n \in 1..(Len(attempts[k]) - 1) : attempts[k][n] # "succeeded"
  BY DEF IndInv, ArtifactFollowsLatestAttempt
<1>2. ASSUME artifact'[k] = artifact[k], attempts'[k] = attempts[k] PROVE Goal
  BY <1>1, <1>2
<1>3. ASSUME NEW i \in Item, BeginParse(i) PROVE Goal
  <2>1. CASE ContentOf[i] # k
    BY <1>0, <1>2, <1>3, <2>1 DEF BeginParse
  <2>2. CASE ContentOf[i] = k
    <3>1. artifact[k] # "succeeded" /\ artifact'[k] = "running"
      BY <1>0, <1>3, <2>2 DEF BeginParse
    <3>2. attempts'[k] = Append(attempts[k], "running")
      BY <1>0, <1>3, <2>2 DEF BeginParse
    <3>3. /\ Len(attempts'[k]) = Len(attempts[k]) + 1 /\ Len(attempts[k]) \in Nat
          /\ attempts'[k][Len(attempts[k]) + 1] = "running"
          /\ \A n \in 1..Len(attempts[k]) : attempts'[k][n] = attempts[k][n]
      BY <1>0, <3>2 DEF AttemptStatus
    <3>4. \A n \in 1..Len(attempts[k]) : attempts[k][n] # "succeeded"
      BY <1>0, <1>1, <3>1, <3>3
    <3>5. attempts'[k] # <<>>
      BY <3>3
    <3> QED BY <3>1, <3>3, <3>4, <3>5
  <2> QED BY <2>1, <2>2
<1>4. CASE RegisterSuccess \/ RegisterFailure \/ CancelAttempt
  <2>1. CASE ContentOf[active] # k
    BY <1>0, <1>2, <1>4, <2>1, AttemptEnds
  <2>2. CASE ContentOf[active] = k
    <3>1. /\ artifact[k] = "running" /\ artifact'[k] = verdict'
          /\ verdict' \in {"succeeded", "failed", "cancelled"}
          /\ attempts'[k] = [attempts[k] EXCEPT ![Len(attempts[k])] = verdict']
      BY <1>0, <1>4, <2>2, AttemptEnds
    <3>2. /\ Len(attempts'[k]) = Len(attempts[k]) /\ attempts'[k] \in Seq(AttemptStatus)
          /\ \A m \in 1..Len(attempts[k]) :
                attempts'[k][m] = IF m = Len(attempts[k]) THEN verdict' ELSE attempts[k][m]
      <4>1. verdict' \in AttemptStatus
        BY <3>1 DEF AttemptStatus
      <4>2. ASSUME NEW q \in Seq(AttemptStatus), NEW v \in AttemptStatus
            PROVE  /\ [q EXCEPT ![Len(q)] = v] \in Seq(AttemptStatus)
                   /\ Len([q EXCEPT ![Len(q)] = v]) = Len(q)
                   /\ \A m \in 1..Len(q) : [q EXCEPT ![Len(q)] = v][m] = IF m = Len(q) THEN v ELSE q[m]
        BY ONLY CloseType, <4>2
      <4>3. attempts[k] \in Seq(AttemptStatus)
        BY <1>0
      <4> QED BY ONLY <3>1, <4>1, <4>2, <4>3
    <3>3. attempts[k] # <<>>
      BY <1>1, <3>1
    <3>4. Len(attempts[k]) \in Nat \ {0}
      BY <1>0, <3>3
    <3>5. attempts'[k] # <<>>
      BY <3>2, <3>4
    <3> QED BY <1>1, <3>1, <3>2, <3>4, <3>5
  <2> QED BY <2>1, <2>2
<1>5. ASSUME NEW b \in Batch, NEW selection \in SUBSET Item, Start(b, selection) PROVE Goal
  BY <1>2, <1>5 DEF Start
<1>6. ASSUME NEW i \in Item, ImportFailed(i) \/ CancelRemaining(i) \/ SkipParse(i) PROVE Goal
  BY <1>2, <1>6 DEF ImportFailed, CancelRemaining, SkipParse
<1>7. CASE ImportCompleted \/ ImportCancelled \/ MarkParsing
  BY <1>2, <1>7 DEF ImportCompleted, ImportCancelled, MarkParsing
<1>8. CASE Announce \/ RecordParse \/ FinishParsed \/ FinishCancelled
  BY <1>2, <1>8 DEF Announce, RecordParse, FinishParsed, FinishCancelled, Finalize
<1>9. CASE UNCHANGED rows
  BY <1>2, <1>9 DEF rows
<1> QED BY <1>3, <1>4, <1>5, <1>6, <1>7, <1>8, <1>9, OnlyTransactions DEF Transaction

LEMMA OneImportStep == IndInv /\ [Next]_vars => OneImportPerContent'
<1> SUFFICES ASSUME IndInv, [Next]_vars PROVE OneImportPerContent'
  OBVIOUS
<1>0. OneImportPerContent /\ RowsTypeOK
  BY DEF IndInv, TypeOK
<1> USE DEF OneImportPerContent
<1>1. ASSUME UNCHANGED <<itemState, snapshots>> PROVE OneImportPerContent'
  BY <1>0, <1>1
<1>2. ASSUME NEW b \in Batch, NEW selection \in SUBSET Item, Start(b, selection) PROVE OneImportPerContent'
  <2>1. \A i \in Item : itemState'[i] \in Imported <=> itemState[i] \in Imported
    BY <1>0, <1>2 DEF Start, RowsTypeOK, Imported
  <2>2. \A i \in Item : itemState'[i] = "imported" <=> itemState[i] = "imported"
    BY <1>0, <1>2 DEF Start, RowsTypeOK
  <2>3. snapshots' = snapshots
    BY <1>2 DEF Start
  <2> QED BY <1>0, <2>1, <2>2, <2>3
<1>3. ASSUME NEW i \in Item, ImportFailed(i) \/ CancelRemaining(i) \/ (i = active /\ ImportCancelled)
      PROVE  OneImportPerContent'
  <2>1. itemState[i] = "pending"
    BY <1>3, MarkedWasPending
  <2>2. \E s \in {"failed", "cancelled"} : itemState' = [itemState EXCEPT ![i] = s]
    BY <1>3 DEF ImportFailed, CancelRemaining, ImportCancelled, MarkItem
  <2>3. snapshots' = snapshots
    BY <1>3 DEF ImportFailed, CancelRemaining, ImportCancelled
  <2> QED BY <1>0, <2>1, <2>2, <2>3 DEF RowsTypeOK, Imported
<1>4. CASE ImportCompleted
  <2>1. active \in Item /\ itemState[active] = "pending" /\ ContentOf[active] \in Content
    BY <1>4, ActiveType, MarkedWasPending DEF ImportCompleted
  <2>2. snapshots' = snapshots \cup {ContentOf[active]}
    BY <1>4 DEF ImportCompleted
  <2>3. \A i \in Item : i # active => itemState'[i] = itemState[i]
    BY <1>0, <1>4 DEF ImportCompleted, MarkItem, RowsTypeOK
  <2>4. itemState'[active] = IF ContentOf[active] \in snapshots THEN "duplicate_content" ELSE "imported"
    BY <1>0, <1>4, <2>1 DEF ImportCompleted, MarkItem, RowsTypeOK
  <2> QED BY <1>0, <2>1, <2>2, <2>3, <2>4 DEF Imported
<1>5. CASE ImportCancelled
  BY <1>3, <1>5, ActiveType DEF ImportCancelled
<1>6. ASSUME NEW i \in Item, BeginParse(i) \/ SkipParse(i) PROVE OneImportPerContent'
  BY <1>1, <1>6 DEF BeginParse, SkipParse
<1>7. CASE RegisterSuccess \/ RegisterFailure \/ CancelAttempt
  BY <1>1, <1>7, AttemptEnds
<1>8. CASE MarkParsing \/ Announce \/ RecordParse \/ FinishParsed \/ FinishCancelled
  BY <1>1, <1>8 DEF MarkParsing, Announce, RecordParse, FinishParsed, FinishCancelled, Finalize
<1>9. CASE UNCHANGED rows
  BY <1>1, <1>9 DEF rows
<1> QED BY <1>2, <1>3, <1>4, <1>5, <1>6, <1>7, <1>8, <1>9, OnlyTransactions DEF Transaction

-----------------------------------------------------------------------------
(* What a step settles stays settled.                                       *)
LEMMA ItemsStay ==
    IndInv /\ [Next]_vars
        => \A i \in Item : itemState[i] \notin {"absent", "pending"} => itemState'[i] = itemState[i]
<1> SUFFICES ASSUME IndInv, [Next]_vars, NEW i \in Item, itemState[i] \notin {"absent", "pending"}
             PROVE  itemState'[i] = itemState[i]
  OBVIOUS
<1>0. itemState \in [Item -> {"absent", "pending", "failed", "cancelled"} \cup Imported]
  BY DEF IndInv, TypeOK, RowsTypeOK
<1>1. ASSUME NEW b \in Batch, NEW selection \in SUBSET Item, Start(b, selection)
      PROVE  itemState'[i] = itemState[i]
  BY <1>0, <1>1 DEF Start
<1>2. ASSUME NEW j \in Item, ImportFailed(j) \/ CancelRemaining(j) PROVE itemState'[i] = itemState[i]
  <2>1. itemState[j] = "pending"
    BY <1>2, MarkedWasPending
  <2> QED BY <1>0, <1>2, <2>1 DEF ImportFailed, CancelRemaining, MarkItem
<1>3. CASE ImportCompleted \/ ImportCancelled
  <2>1. active \in Item
    BY <1>3, ActiveType DEF ImportCompleted, ImportCancelled
  <2>2. itemState[active] = "pending"
    BY <1>3, <2>1, MarkedWasPending
  <2> QED BY <1>0, <1>3, <2>1, <2>2 DEF ImportCompleted, ImportCancelled, MarkItem
<1>4. ASSUME NEW j \in Item, BeginParse(j) \/ SkipParse(j) PROVE itemState'[i] = itemState[i]
  BY <1>4 DEF BeginParse, SkipParse
<1>5. CASE RegisterSuccess \/ RegisterFailure \/ CancelAttempt
  BY <1>5, AttemptEnds
<1>6. CASE MarkParsing \/ Announce \/ RecordParse \/ FinishParsed \/ FinishCancelled
  BY <1>6 DEF MarkParsing, Announce, RecordParse, FinishParsed, FinishCancelled, Finalize
<1>7. CASE UNCHANGED rows
  BY <1>7 DEF rows
<1> QED BY <1>1, <1>2, <1>3, <1>4, <1>5, <1>6, <1>7, OnlyTransactions DEF Transaction

LEMMA BatchesStay ==
    IndInv /\ [Next]_vars
        => \A b \in Batch : batchStatus[b] \in Final => batchStatus'[b] = batchStatus[b]
<1> SUFFICES ASSUME IndInv, [Next]_vars, NEW b \in Batch, batchStatus[b] \in Final
             PROVE  batchStatus'[b] = batchStatus[b]
  OBVIOUS
<1>0. batchStatus \in [Batch -> {"absent", "importing", "parsing"} \cup Final]
  BY DEF IndInv, TypeOK, RowsTypeOK
<1>1. ASSUME NEW c \in Batch, NEW selection \in SUBSET Item, Start(c, selection)
      PROVE  batchStatus'[b] = batchStatus[b]
  BY <1>0, <1>1 DEF Start, Final
<1>2. CASE MarkParsing \/ FinishParsed \/ FinishCancelled
  <2>1. pc \in Importing \cup Parsing
    BY <1>2 DEF MarkParsing, FinishParsed, FinishCancelled, Importing, Parsing
  <2>2. batchStatus[batch] \in {"importing", "parsing"}
    BY <2>1 DEF IndInv, PipelineIsPlaced
  <2>3. \E s \in {"parsing"} \cup Final : batchStatus' = [batchStatus EXCEPT ![batch] = s]
    BY <1>2 DEF MarkParsing, FinishParsed, FinishCancelled, Finalize, BatchOutcome, Final
  <2>4. b # batch
    BY <2>2 DEF Final
  <2> QED BY <1>0, <2>3, <2>4
<1>3. ASSUME NEW j \in Item, ImportFailed(j) \/ CancelRemaining(j) \/ BeginParse(j) \/ SkipParse(j)
      PROVE  batchStatus'[b] = batchStatus[b]
  BY <1>3 DEF ImportFailed, CancelRemaining, BeginParse, SkipParse
<1>4. CASE RegisterSuccess \/ RegisterFailure \/ CancelAttempt
  BY <1>4, AttemptEnds
<1>5. CASE ImportCompleted \/ ImportCancelled \/ Announce \/ RecordParse
  BY <1>5 DEF ImportCompleted, ImportCancelled, Announce, RecordParse
<1>6. CASE UNCHANGED rows
  BY <1>6 DEF rows
<1> QED BY <1>1, <1>2, <1>3, <1>4, <1>5, <1>6, OnlyTransactions DEF Transaction

LEMMA ArtifactsStay ==
    IndInv /\ [Next]_vars
        => \A k \in Content : artifact[k] = "succeeded" => artifact'[k] = "succeeded"
<1> SUFFICES ASSUME IndInv, [Next]_vars, NEW k \in Content, artifact[k] = "succeeded"
             PROVE  artifact'[k] = "succeeded"
  OBVIOUS
<1>0. artifact \in [Content -> {"absent"} \cup AttemptStatus]
  BY DEF IndInv, TypeOK, RowsTypeOK
<1>1. ASSUME NEW j \in Item, BeginParse(j) PROVE artifact'[k] = "succeeded"
  <2>1. artifact[ContentOf[j]] # "succeeded" /\ artifact' = [artifact EXCEPT ![ContentOf[j]] = "running"]
    BY <1>1 DEF BeginParse
  <2> QED BY <1>0, <2>1
<1>2. CASE RegisterSuccess \/ RegisterFailure \/ CancelAttempt
  BY <1>0, <1>2, AttemptEnds
<1>3. ASSUME NEW b \in Batch, NEW selection \in SUBSET Item, Start(b, selection)
      PROVE  artifact'[k] = "succeeded"
  BY <1>3 DEF Start
<1>4. ASSUME NEW j \in Item, ImportFailed(j) \/ CancelRemaining(j) \/ SkipParse(j)
      PROVE  artifact'[k] = "succeeded"
  BY <1>4 DEF ImportFailed, CancelRemaining, SkipParse
<1>5. CASE ImportCompleted \/ ImportCancelled \/ MarkParsing
  BY <1>5 DEF ImportCompleted, ImportCancelled, MarkParsing
<1>6. CASE Announce \/ RecordParse \/ FinishParsed \/ FinishCancelled
  BY <1>6 DEF Announce, RecordParse, FinishParsed, FinishCancelled, Finalize
<1>7. CASE UNCHANGED rows
  BY <1>7 DEF rows
<1> QED BY <1>1, <1>2, <1>3, <1>4, <1>5, <1>6, <1>7, OnlyTransactions DEF Transaction

LEMMA AttemptsStay ==
    IndInv /\ [Next]_vars
        => \A k \in Content : \A n \in DOMAIN attempts[k] :
              /\ n \in DOMAIN attempts'[k]
              /\ attempts[k][n] # "running" => attempts'[k][n] = attempts[k][n]
<1> SUFFICES ASSUME IndInv, [Next]_vars, NEW k \in Content, NEW n \in DOMAIN attempts[k]
             PROVE  /\ n \in DOMAIN attempts'[k]
                    /\ attempts[k][n] # "running" => attempts'[k][n] = attempts[k][n]
  OBVIOUS
<1> DEFINE Goal == /\ n \in DOMAIN attempts'[k]
                   /\ attempts[k][n] # "running" => attempts'[k][n] = attempts[k][n]
<1>0. attempts \in [Content -> Seq(AttemptStatus)] /\ attempts[k] \in Seq(AttemptStatus)
  BY DEF IndInv, TypeOK, RowsTypeOK
<1>1. ASSUME attempts'[k] = attempts[k] PROVE Goal
  BY <1>1
<1>2. ASSUME NEW j \in Item, BeginParse(j) PROVE Goal
  <2>1. CASE ContentOf[j] # k
    BY <1>0, <1>1, <1>2, <2>1 DEF BeginParse
  <2>2. CASE ContentOf[j] = k
    <3>1. attempts'[k] = Append(attempts[k], "running")
      BY <1>0, <1>2, <2>2 DEF BeginParse
    <3>2. n \in 1..Len(attempts[k])
      BY <1>0
    <3> QED BY <1>0, <3>1, <3>2 DEF AttemptStatus
  <2> QED BY <2>1, <2>2
<1>3. CASE RegisterSuccess \/ RegisterFailure \/ CancelAttempt
  <2>1. attempts' = [attempts EXCEPT ![ContentOf[active]] =
                       [attempts[ContentOf[active]] EXCEPT ![attemptNo] = verdict']]
    BY <1>3, AttemptEnds
  <2>2. attempts[ContentOf[active]][attemptNo] = "running"
    BY <1>3 DEF RegisterSuccess, RegisterFailure, CancelAttempt, CloseAttempt, OpenAttempt
  <2>3. CASE ContentOf[active] # k
    BY <1>0, <1>1, <2>1, <2>3
  <2>4. CASE ContentOf[active] = k
    <3>1. attempts'[k] = [attempts[k] EXCEPT ![attemptNo] = verdict']
      BY <1>0, <2>1, <2>4
    <3> QED BY <2>2, <2>4, <3>1
  <2> QED BY <2>3, <2>4
<1>4. ASSUME NEW b \in Batch, NEW selection \in SUBSET Item, Start(b, selection) PROVE Goal
  BY <1>1, <1>4 DEF Start
<1>5. ASSUME NEW j \in Item, ImportFailed(j) \/ CancelRemaining(j) \/ SkipParse(j) PROVE Goal
  BY <1>1, <1>5 DEF ImportFailed, CancelRemaining, SkipParse
<1>6. CASE ImportCompleted \/ ImportCancelled \/ MarkParsing
  BY <1>1, <1>6 DEF ImportCompleted, ImportCancelled, MarkParsing
<1>7. CASE Announce \/ RecordParse \/ FinishParsed \/ FinishCancelled
  BY <1>1, <1>7 DEF Announce, RecordParse, FinishParsed, FinishCancelled, Finalize
<1>8. CASE UNCHANGED rows
  BY <1>1, <1>8 DEF rows
<1> QED BY <1>2, <1>3, <1>4, <1>5, <1>6, <1>7, <1>8, OnlyTransactions DEF Transaction

LEMMA ParsedStep == IndInv /\ [Next]_vars => ParsedItemsHaveDocuments'
<1> SUFFICES ASSUME IndInv, [Next]_vars PROVE ParsedItemsHaveDocuments'
  OBVIOUS
<1>0. ParsedItemsHaveDocuments /\ RowsTypeOK
  BY DEF IndInv, TypeOK
<1>1. /\ \A k \in Content : artifact[k] = "succeeded" => artifact'[k] = "succeeded"
      /\ \A i \in Item : itemState[i] \in Imported => itemState'[i] \in Imported
  BY ArtifactsStay, ItemsStay DEF Imported
<1> USE DEF ParsedItemsHaveDocuments
<1>2. ASSUME parseStatus' = parseStatus PROVE ParsedItemsHaveDocuments'
  BY <1>0, <1>1, <1>2
<1>3. ASSUME NEW i \in Item, SkipParse(i) PROVE ParsedItemsHaveDocuments'
  <2>1. itemState[i] \in Imported
    BY <1>3, TakenIsImported
  <2>2. parseStatus' = [parseStatus EXCEPT ![i] = "failed"]
    BY <1>3 DEF SkipParse
  <2> QED BY <1>0, <1>1, <2>1, <2>2 DEF RowsTypeOK
<1>4. CASE Announce
  <2>1. active \in Item /\ itemState[active] \in Imported /\ verdict = "pending"
    BY <1>4, ActiveType DEF Announce, IndInv, PipelineIsPlaced, AttemptIsOpen, Attempting
  <2>2. parseStatus' = [parseStatus EXCEPT ![active] = verdict]
    BY <1>4 DEF Announce
  <2> QED BY <1>0, <1>1, <2>1, <2>2 DEF RowsTypeOK
<1>5. CASE RecordParse
  <2>1. active \in Item /\ itemState[active] \in Imported
    BY <1>5, ActiveType DEF RecordParse, IndInv, PipelineIsPlaced
  <2>2. verdict = "succeeded" => artifact[ContentOf[active]] = "succeeded"
    BY <1>5 DEF RecordParse, IndInv, AttemptIsOpen
  <2>3. parseStatus' = [parseStatus EXCEPT ![active] = verdict]
    BY <1>5 DEF RecordParse
  <2> QED BY <1>0, <1>1, <2>1, <2>2, <2>3 DEF RowsTypeOK
<1>6. ASSUME NEW b \in Batch, NEW selection \in SUBSET Item, Start(b, selection)
      PROVE  ParsedItemsHaveDocuments'
  BY <1>2, <1>6 DEF Start
<1>7. ASSUME NEW i \in Item, ImportFailed(i) \/ CancelRemaining(i) \/ BeginParse(i)
      PROVE  ParsedItemsHaveDocuments'
  BY <1>2, <1>7 DEF ImportFailed, CancelRemaining, BeginParse
<1>8. CASE RegisterSuccess \/ RegisterFailure \/ CancelAttempt
  BY <1>2, <1>8, AttemptEnds
<1>9. CASE ImportCompleted \/ ImportCancelled \/ MarkParsing \/ FinishParsed \/ FinishCancelled
  BY <1>2, <1>9 DEF ImportCompleted, ImportCancelled, MarkParsing, FinishParsed, FinishCancelled,
                    Finalize
<1>10. CASE UNCHANGED rows
  BY <1>2, <1>10 DEF rows
<1> QED BY <1>3, <1>4, <1>5, <1>6, <1>7, <1>8, <1>9, <1>10, OnlyTransactions DEF Transaction

-----------------------------------------------------------------------------
(* Where the pipeline stands after every step.                              *)
LEMMA PlacedStep == IndInv /\ [Next]_vars => PipelineIsPlaced'
<1> SUFFICES ASSUME IndInv, [Next]_vars PROVE PipelineIsPlaced'
  OBVIOUS
<1>0. PipelineIsPlaced /\ RowsTypeOK
  BY DEF IndInv, TypeOK
<1> USE DEF PipelineIsPlaced, Waiting, Importing, Parsing, Attempting, Mine, Pending
<1>1. ASSUME NEW b \in Batch, NEW selection \in SUBSET Item, Start(b, selection) PROVE PipelineIsPlaced'
  <2>1. pc' = "nextImport" /\ batch' = b /\ handle' = "running" /\ worker' = "none"
    BY <1>0, <1>1 DEF Start
  <2>2. batchStatus'[b] = "importing"
    BY <1>0, <1>1 DEF Start, RowsTypeOK
  <2> QED BY ONLY <2>1, <2>2 DEF PipelineIsPlaced, Waiting, Importing, Parsing, Attempting
<1>2. CASE Cancel
  BY <1>0, <1>2 DEF Cancel, rows, files, pipeline
<1>3. CASE WorkerStep
  <2> USE DEF workerOnly, rows, pipeline, user
  <2>1. CASE BeginWork
    BY <1>0, <2>1 DEF BeginWork
  <2>2. CASE Materialize
    BY <1>0, <2>2 DEF Materialize
  <2>3. CASE ParseFile
    BY <1>0, <2>3 DEF ParseFile
  <2>4. CASE WorkerFault
    BY <1>0, <2>4 DEF WorkerFault
  <2> QED BY <1>3, <2>1, <2>2, <2>3, <2>4 DEF WorkerStep
<1>4. CASE ImportStep
  <2> USE DEF rows, files, user, lists
  <2>1. ASSUME NEW i \in Item, NextImport(i) PROVE PipelineIsPlaced'
    BY <1>0, <2>1 DEF NextImport
  <2>2. ASSUME NEW i \in Item, ImportFailed(i) PROVE PipelineIsPlaced'
    <3>1. /\ pc \in Importing /\ pc' = "nextImport" /\ worker' = "none"
          /\ UNCHANGED <<batch, batchStatus, handle>>
      BY <2>2 DEF ImportFailed
    <3> QED BY <1>0, <3>1
  <2>3. ASSUME NEW i \in Item, CancelRemaining(i) PROVE PipelineIsPlaced'
    <3>1. /\ pc \in {"nextImport", "cancelRest"} /\ pc' = "cancelRest"
          /\ UNCHANGED <<batch, batchStatus, handle, worker>>
      BY <2>3 DEF CancelRemaining
    <3> QED BY <1>0, <3>1
  <2>4. CASE ImportCompleted
    <3>1. /\ pc \in Importing /\ pc' = "nextImport" /\ worker' = "none"
          /\ UNCHANGED <<batch, batchStatus, handle>>
      BY <2>4 DEF ImportCompleted
    <3> QED BY <1>0, <3>1
  <2>5. CASE ImportCancelled
    <3>1. /\ pc \in Importing /\ pc' = "cancelRest" /\ worker' = "none"
          /\ UNCHANGED <<batch, batchStatus, handle>>
      BY <2>5 DEF ImportCancelled
    <3> QED BY <1>0, <3>1
  <2>6. CASE MarkParsing
    <3>1. /\ pc = "nextImport" /\ pc' = "nextParse" /\ Pending = {}
          /\ batchStatus' = [batchStatus EXCEPT ![batch] = "parsing"]
          /\ UNCHANGED <<batch, batchOf, itemState, handle, worker>>
      BY <2>6 DEF MarkParsing
    <3> QED BY <1>0, <3>1 DEF RowsTypeOK
  <2> QED BY <1>4, <2>1, <2>2, <2>3, <2>4, <2>5, <2>6 DEF ImportStep
<1>5. CASE ParseStep
  <2> USE DEF rows, files, user, lists
  <2>1. ASSUME NEW i \in Item, BeginParse(i) PROVE PipelineIsPlaced'
    <3>1. itemState[i] \in Imported /\ batchOf[i] = batch
      BY <2>1, TakenIsImported
    <3>2. /\ pc = "nextParse" /\ pc' = "announce" /\ active' = i
          /\ UNCHANGED <<batch, batchStatus, batchOf, itemState, handle, worker>>
      BY <2>1 DEF BeginParse
    <3> QED BY <1>0, <3>1, <3>2
  <2>2. ASSUME NEW i \in Item, RefuseParse(i) PROVE PipelineIsPlaced'
    BY <1>0, <2>2 DEF RefuseParse
  <2>3. ASSUME NEW i \in Item, SkipParse(i) PROVE PipelineIsPlaced'
    <3>1. pc = "nextParse" /\ UNCHANGED <<pc, batch, batchStatus, batchOf, itemState, handle, worker>>
      BY <2>3 DEF SkipParse
    <3> QED BY <1>0, <3>1
  <2>4. CASE Announce
    BY <1>0, <2>4 DEF Announce
  <2>5. CASE PromoteDerived
    BY <1>0, <2>5 DEF PromoteDerived
  <2>6. CASE RegisterSuccess \/ RegisterFailure \/ CancelAttempt
    <3>1. /\ pc \in {"parsing", "register"} /\ pc' = "record"
          /\ UNCHANGED <<active, batchStatus, batchOf, itemState>>
      BY <2>6, AttemptEnds
    <3>2. worker' = "none" /\ UNCHANGED <<batch, handle>>
      BY <1>0, <2>6 DEF RegisterSuccess, RegisterFailure, CancelAttempt
    <3> QED BY <1>0, <3>1, <3>2
  <2>7. CASE RecordParse
    <3>1. /\ pc = "record" /\ pc' \in {"cancelParse", "nextParse"}
          /\ UNCHANGED <<batch, batchStatus, batchOf, itemState, handle, worker>>
      BY <2>7 DEF RecordParse
    <3> QED BY <1>0, <3>1
  <2> QED BY <1>5, <2>1, <2>2, <2>3, <2>4, <2>5, <2>6, <2>7 DEF ParseStep
<1>6. CASE Finish \/ CallbackFault \/ Restart
  <2>1. pc' \in {"idle", "stuck"} /\ worker' = "none"
    BY <1>0, <1>6 DEF Finish, FinishParsed, FinishCancelled, FinishUnrecorded, Finalize,
                      CallbackFault, Restart
  <2> QED BY ONLY <2>1 DEF PipelineIsPlaced, Waiting, Importing, Parsing, Attempting
<1>7. CASE UNCHANGED vars
  BY <1>0, <1>7 DEF vars, rows, files, pipeline
<1> QED BY <1>1, <1>2, <1>3, <1>4, <1>5, <1>6, <1>7 DEF Next, MainStep

LEMMA OpenStep == IndInv /\ [Next]_vars => AttemptIsOpen'
<1> SUFFICES ASSUME IndInv, [Next]_vars PROVE AttemptIsOpen'
  OBVIOUS
<1>0. AttemptIsOpen /\ RowsTypeOK
  BY DEF IndInv, TypeOK
<1> USE DEF AttemptIsOpen, Attempting
<1>1. ASSUME pc' \notin Attempting \cup {"record"} PROVE AttemptIsOpen'
  BY <1>1
<1>2. ASSUME UNCHANGED <<pc, active, artifact, attempts, attemptNo, verdict, derived>>
      PROVE  AttemptIsOpen'
  BY <1>0, <1>2
<1>3. ASSUME NEW b \in Batch, NEW selection \in SUBSET Item, Start(b, selection) PROVE AttemptIsOpen'
  BY <1>1, <1>3 DEF Start
<1>4. CASE Cancel
  BY <1>2, <1>4 DEF Cancel, rows, files, pipeline
<1>5. CASE WorkerStep
  BY <1>2, <1>5 DEF WorkerStep, BeginWork, Materialize, ParseFile, WorkerFault, workerOnly, rows, pipeline
<1>6. CASE ImportStep
  BY <1>1, <1>6 DEF ImportStep, NextImport, ImportFailed, CancelRemaining, ImportCompleted,
                    ImportCancelled, MarkParsing
<1>7. CASE ParseStep
  <2> USE DEF rows, files, user, lists
  <2>1. ASSUME NEW i \in Item, BeginParse(i) PROVE AttemptIsOpen'
    <3>1. ContentOf[i] \in Content /\ attempts[ContentOf[i]] \in Seq(AttemptStatus)
      BY <1>0 DEF RowsTypeOK
    <3>2. /\ pc' = "announce" /\ active' = i /\ verdict' = "pending"
          /\ artifact' = [artifact EXCEPT ![ContentOf[i]] = "running"]
          /\ attempts' = [attempts EXCEPT ![ContentOf[i]] = Append(@, "running")]
          /\ attemptNo' = Len(attempts[ContentOf[i]]) + 1
      BY <2>1 DEF BeginParse
    <3>3. attempts'[ContentOf[i]] = Append(attempts[ContentOf[i]], "running")
      BY <1>0, <3>1, <3>2 DEF RowsTypeOK
    <3>4. Len(attempts'[ContentOf[i]]) = Len(attempts[ContentOf[i]]) + 1
      BY <3>1, <3>3 DEF AttemptStatus
    <3>5. artifact'[ContentOf[i]] = "running"
      BY <1>0, <3>1, <3>2 DEF RowsTypeOK
    <3> QED BY ONLY <3>2, <3>4, <3>5 DEF AttemptIsOpen, Attempting
  <2>2. ASSUME NEW i \in Item, RefuseParse(i) PROVE AttemptIsOpen'
    BY <1>1, <2>2 DEF RefuseParse
  <2>3. ASSUME NEW i \in Item, SkipParse(i) PROVE AttemptIsOpen'
    BY <1>1, <2>3 DEF SkipParse
  <2>4. CASE Announce
    BY <1>0, <2>4 DEF Announce
  <2>5. CASE PromoteDerived
    BY <1>0, <2>5 DEF PromoteDerived
  <2>6. CASE RegisterSuccess \/ RegisterFailure \/ CancelAttempt
    <3>1. /\ ContentOf[active] \in Content /\ verdict' \in {"succeeded", "failed", "cancelled"}
          /\ artifact' = [artifact EXCEPT ![ContentOf[active]] = verdict']
          /\ pc' = "record" /\ active' = active
      BY <2>6, AttemptEnds
    <3>2. artifact'[ContentOf[active]] = verdict'
      BY <1>0, <3>1 DEF RowsTypeOK
    <3> QED BY ONLY <3>1, <3>2 DEF AttemptIsOpen, Attempting
  <2>7. CASE RecordParse
    BY <1>1, <2>7 DEF RecordParse
  <2> QED BY <1>7, <2>1, <2>2, <2>3, <2>4, <2>5, <2>6, <2>7 DEF ParseStep
<1>8. CASE Finish \/ CallbackFault \/ Restart
  BY <1>1, <1>8 DEF Finish, FinishParsed, FinishCancelled, FinishUnrecorded, Finalize,
                    CallbackFault, Restart
<1>9. CASE UNCHANGED vars
  BY <1>2, <1>9 DEF vars, rows, files, pipeline
<1> QED BY <1>3, <1>4, <1>5, <1>6, <1>7, <1>8, <1>9 DEF Next, MainStep

LEMMA TracedStep == IndInv /\ [Next]_vars => CancelIsTraced'
<1> SUFFICES ASSUME IndInv, [Next]_vars PROVE CancelIsTraced'
  OBVIOUS
<1>0. CancelIsTraced
  BY DEF IndInv
<1> USE DEF CancelIsTraced, Attempting
<1>1. ASSUME NEW b \in Batch, NEW selection \in SUBSET Item, Start(b, selection) PROVE CancelIsTraced'
  BY <1>1 DEF Start
<1>2. CASE Cancel
  BY <1>0, <1>2 DEF Cancel, Waiting, pipeline, lists
<1>3. CASE WorkerStep
  BY <1>0, <1>3 DEF WorkerStep, BeginWork, Materialize, ParseFile, WorkerFault, workerOnly,
                    pipeline, lists, user
<1>4. CASE ImportStep
  BY <1>0, <1>4 DEF ImportStep, NextImport, ImportFailed, CancelRemaining, ImportCompleted,
                    ImportCancelled, MarkParsing, lists, user
<1>5. CASE ParseStep
  BY <1>0, <1>5 DEF ParseStep, BeginParse, RefuseParse, SkipParse, Announce, PromoteDerived,
                    RegisterSuccess, RegisterFailure, CancelAttempt, RecordParse, lists, user
<1>6. CASE Finish \/ CallbackFault \/ Restart
  BY <1>6 DEF Finish, FinishParsed, FinishCancelled, FinishUnrecorded, Finalize, CallbackFault, Restart
<1>7. CASE UNCHANGED vars
  BY <1>0, <1>7 DEF vars, pipeline, lists, user
<1> QED BY <1>1, <1>2, <1>3, <1>4, <1>5, <1>6, <1>7 DEF Next, MainStep

LEMMA ListsStep == IndInv /\ [Next]_vars => ListsMirrorRows'
<1> SUFFICES ASSUME IndInv, [Next]_vars, pc' \in Importing \cup Parsing PROVE ListsMirrorRows'
  BY DEF ListsMirrorRows, Importing, Parsing
<1>0. ListsMirrorRows /\ RowsTypeOK /\ materialized \subseteq Item
  BY DEF IndInv, TypeOK, PipelineTypeOK
<1>m. pc \in Importing \cup Parsing =>
        /\ batch \in Batch
        /\ \A i \in Item : i \in successes <=> batchOf[i] = batch /\ itemState[i] \in Imported
        /\ \A i \in Item : i \in failed <=> batchOf[i] = batch /\ itemState[i] = "failed"
        /\ \A i \in Item : i \in dropped
              <=> batchOf[i] = batch /\ (itemState[i] = "cancelled" \/ parseStatus[i] = "cancelled")
        /\ \A i \in Item : i \in parseFailed <=> batchOf[i] = batch /\ parseStatus[i] = "failed"
  BY <1>0 DEF ListsMirrorRows, Mine, IndInv, PipelineIsPlaced
<1>p. \A i \in Item : parseStatus[i] # "not_requested" => itemState[i] \in Imported
  BY DEF IndInv, ParsedItemsHaveDocuments
<1> USE DEF Importing, Parsing
<1>1. ASSUME NEW b \in Batch, NEW selection \in SUBSET Item, Start(b, selection) PROVE ListsMirrorRows'
  <2>1. \A i \in Item : batchOf[i] # b
    BY <1>0, <1>1, NullAssumption DEF Start, IndInv, ItemsHaveBatches
  <2>2. /\ batch' = b /\ pc' = "nextImport"
        /\ materialized' = {} /\ successes' = {} /\ failed' = {} /\ dropped' = {} /\ parseFailed' = {}
        /\ batchOf' = [i \in Item |-> IF i \in selection THEN b ELSE batchOf[i]]
        /\ itemState' = [i \in Item |-> IF i \in selection THEN "pending" ELSE itemState[i]]
        /\ parseStatus' = parseStatus
        /\ \A i \in selection : itemState[i] = "absent"
    BY <1>1 DEF Start
  <2>3. \A i \in Item : batchOf'[i] = b =>
           itemState'[i] = "pending" /\ parseStatus'[i] = "not_requested"
    BY <1>p, <2>1, <2>2 DEF Imported
  <2> QED BY ONLY <2>2, <2>3 DEF ListsMirrorRows, Mine, Imported, Importing, Parsing
<1>2. ASSUME UNCHANGED <<pc, batch, active, batchOf, itemState, parseStatus,
                         materialized, successes, failed, dropped, parseFailed>>
      PROVE  ListsMirrorRows'
  BY <1>0, <1>2 DEF ListsMirrorRows, Mine
<1>3. CASE Cancel \/ WorkerStep \/ UNCHANGED vars
  BY <1>2, <1>3 DEF Cancel, WorkerStep, BeginWork, Materialize, ParseFile, WorkerFault, workerOnly,
                    vars, rows, pipeline, lists
<1>4. ASSUME pc \in Importing, pc' \in Importing \cup {"nextParse"},
             UNCHANGED <<batch, batchOf, itemState, parseStatus,
                         materialized, successes, failed, dropped, parseFailed>>
      PROVE  ListsMirrorRows'
  BY <1>0, <1>4 DEF ListsMirrorRows, Mine
<1>5. ASSUME NEW i \in Item, NextImport(i) PROVE ListsMirrorRows'
  BY <1>4, <1>5 DEF NextImport, rows, lists
<1>6. CASE MarkParsing
  BY <1>4, <1>6 DEF MarkParsing, lists
<1>7. ASSUME NEW i \in Item, NEW s \in Imported \cup {"failed", "cancelled"},
             itemState[i] = "pending", batchOf[i] = batch, pc \in Importing, pc' \in Importing,
             itemState' = [itemState EXCEPT ![i] = s],
             successes' = IF s \in Imported THEN successes \cup {i} ELSE successes,
             materialized' = IF s \in Imported THEN materialized \cup {i} ELSE materialized,
             failed' = IF s = "failed" THEN failed \cup {i} ELSE failed,
             dropped' = IF s = "cancelled" THEN dropped \cup {i} ELSE dropped,
             UNCHANGED <<batch, batchOf, parseStatus, parseFailed>>
      PROVE  ListsMirrorRows'
  <2>0. parseStatus[i] = "not_requested" /\ itemState'[i] = s
    BY <1>0, <1>p, <1>7 DEF RowsTypeOK, Imported
  <2>1. \A j \in Item : j # i => itemState'[j] = itemState[j]
    BY <1>0, <1>7 DEF RowsTypeOK
  <2>2. successes' = {j \in Mine' : itemState'[j] \in Imported}
    BY <1>0, <1>7, <2>0, <2>1 DEF ListsMirrorRows, Mine, Imported
  <2>3. failed' = {j \in Mine' : itemState'[j] = "failed"}
    BY <1>0, <1>7, <2>0, <2>1 DEF ListsMirrorRows, Mine, Imported
  <2>4. dropped' = {j \in Mine' : itemState'[j] = "cancelled" \/ parseStatus'[j] = "cancelled"}
    BY <1>0, <1>7, <2>0, <2>1 DEF ListsMirrorRows, Mine, Imported
  <2>5. parseFailed' = {j \in Mine' : parseStatus'[j] = "failed"}
    BY <1>0, <1>7, <2>0, <2>1 DEF ListsMirrorRows, Mine
  <2>6. \A j \in Mine' : parseStatus'[j] # "pending"
    BY <1>0, <1>7 DEF ListsMirrorRows, Mine
  <2>7. \A j \in successes' : parseStatus'[j] = "not_requested" <=> j \in materialized'
    BY <1>0, <1>7, <2>0 DEF ListsMirrorRows
  <2>8. materialized' \subseteq successes'
    BY <1>0, <1>7 DEF ListsMirrorRows
  <2> QED BY <1>7, <2>2, <2>3, <2>4, <2>5, <2>6, <2>7, <2>8 DEF ListsMirrorRows
<1>8. ASSUME NEW i \in Item, ImportFailed(i) PROVE ListsMirrorRows'
  BY <1>7, <1>8, MarkedWasPending DEF ImportFailed, MarkItem, Imported
<1>9. ASSUME NEW i \in Item, CancelRemaining(i) PROVE ListsMirrorRows'
  BY <1>7, <1>9, MarkedWasPending DEF CancelRemaining, MarkItem, Imported
<1>10. CASE ImportCompleted \/ ImportCancelled
  <2>1. active \in Item
    BY <1>10, ActiveType DEF ImportCompleted, ImportCancelled
  <2>2. itemState[active] = "pending" /\ batchOf[active] = batch /\ pc \in Importing
    BY <1>10, <2>1, MarkedWasPending
  <2>3. CASE ImportCompleted
    <3>1. PICK s \in Imported : itemState' = [itemState EXCEPT ![active] = s]
      BY <2>3 DEF ImportCompleted, MarkItem, Imported
    <3>2. /\ successes' = successes \cup {active} /\ materialized' = materialized \cup {active}
          /\ pc' = "nextImport"
          /\ UNCHANGED <<batch, batchOf, parseStatus, failed, dropped, parseFailed>>
      BY <2>3 DEF ImportCompleted
    <3>3. s \notin {"failed", "cancelled"}
      BY DEF Imported
    <3> QED BY <1>7, <2>1, <2>2, <3>1, <3>2, <3>3
  <2>4. CASE ImportCancelled
    BY <1>7, <2>1, <2>2, <2>4 DEF ImportCancelled, MarkItem, Imported
  <2> QED BY <1>10, <2>3, <2>4
<1>11. ASSUME NEW i \in Item, BeginParse(i) PROVE ListsMirrorRows'
  <2>1. /\ pc = "nextParse" /\ pc' = "announce" /\ active' = i /\ i \in materialized
        /\ materialized' = materialized \ {i}
        /\ UNCHANGED <<batch, batchOf, itemState, parseStatus, successes, failed, dropped, parseFailed>>
    BY <1>11 DEF BeginParse
  <2> QED BY <1>0, <2>1 DEF ListsMirrorRows, Mine
<1>12. ASSUME NEW i \in Item, SkipParse(i) PROVE ListsMirrorRows'
  <2>1. /\ pc = "nextParse" /\ i \in materialized
        /\ materialized' = materialized \ {i} /\ parseFailed' = parseFailed \cup {i}
        /\ parseStatus' = [parseStatus EXCEPT ![i] = "failed"]
        /\ UNCHANGED <<pc, batch, active, batchOf, itemState, successes, failed, dropped>>
    BY <1>12 DEF SkipParse
  <2>2. parseStatus[i] = "not_requested" /\ i \in Mine
    BY <1>0, <2>1 DEF ListsMirrorRows
  <2>3. parseStatus'[i] = "failed" /\ \A j \in Item : j # i => parseStatus'[j] = parseStatus[j]
    BY <1>0, <2>1 DEF RowsTypeOK
  <2> QED BY <1>0, <2>1, <2>2, <2>3 DEF ListsMirrorRows, Mine
<1>13. CASE Announce
  <2>1. /\ pc = "announce" /\ pc' = "parsing" /\ verdict = "pending" /\ active \in Item
        /\ parseStatus' = [parseStatus EXCEPT ![active] = "pending"]
        /\ UNCHANGED <<batch, active, batchOf, itemState, materialized, successes, failed, dropped,
                       parseFailed>>
    BY <1>13, ActiveType DEF Announce, lists, IndInv, AttemptIsOpen, Attempting
  <2>2. active \in successes /\ active \in Mine
    BY <1>0, <2>1 DEF ListsMirrorRows, IndInv, PipelineIsPlaced, Attempting
  <2>3. parseStatus[active] = "not_requested" /\ active \notin materialized
    BY <1>0, <2>1, <2>2 DEF ListsMirrorRows
  <2>4. parseStatus'[active] = "pending" /\ \A j \in Item : j # active => parseStatus'[j] = parseStatus[j]
    BY <1>0, <2>1 DEF RowsTypeOK
  <2> QED BY <1>0, <2>1, <2>2, <2>3, <2>4 DEF ListsMirrorRows, Mine
<1>14. ASSUME pc \in {"parsing", "register"}, pc' \in {"register", "record"},
              UNCHANGED <<batch, active, batchOf, itemState, parseStatus,
                          materialized, successes, failed, dropped, parseFailed>>
       PROVE  ListsMirrorRows'
  BY <1>0, <1>14 DEF ListsMirrorRows, Mine
<1>15. CASE PromoteDerived
  BY <1>14, <1>15 DEF PromoteDerived, rows, lists
<1>16. CASE RegisterSuccess \/ RegisterFailure \/ CancelAttempt
  BY <1>14, <1>16 DEF RegisterSuccess, RegisterFailure, CancelAttempt, lists
<1>17. CASE RecordParse
  <2>1. /\ pc = "record" /\ pc' \in {"cancelParse", "nextParse"} /\ active \in Item
        /\ verdict \in {"succeeded", "failed", "cancelled"}
        /\ parseStatus' = [parseStatus EXCEPT ![active] = verdict]
        /\ parseFailed' = IF verdict = "failed" THEN parseFailed \cup {active} ELSE parseFailed
        /\ dropped' = IF verdict = "cancelled" THEN dropped \cup {active} ELSE dropped
        /\ UNCHANGED <<batch, active, batchOf, itemState, materialized, successes, failed>>
    BY <1>17, ActiveType DEF RecordParse, IndInv, AttemptIsOpen
  <2>2. active \in successes /\ active \in Mine /\ itemState[active] \in Imported
    BY <1>0, <2>1 DEF ListsMirrorRows, IndInv, PipelineIsPlaced
  <2>3. parseStatus[active] = "pending"
    BY <1>0, <2>1, <2>2 DEF ListsMirrorRows
  <2>4. parseStatus'[active] = verdict /\ \A j \in Item : j # active => parseStatus'[j] = parseStatus[j]
    BY <1>0, <2>1 DEF RowsTypeOK
  <2> QED BY <1>0, <2>1, <2>2, <2>3, <2>4 DEF ListsMirrorRows, Mine, Imported
<1>18. ASSUME NEW i \in Item, RefuseParse(i) PROVE ListsMirrorRows'
  BY <1>18 DEF RefuseParse
<1>19. CASE Finish \/ CallbackFault \/ Restart
  BY <1>19 DEF Finish, FinishParsed, FinishCancelled, FinishUnrecorded, Finalize, CallbackFault, Restart
<1> QED BY <1>1, <1>3, <1>5, <1>6, <1>8, <1>9, <1>10, <1>11, <1>12, <1>13, <1>15, <1>16, <1>17,
           <1>18, <1>19
        DEF Next, MainStep, ImportStep, ParseStep

-----------------------------------------------------------------------------
(* The end of a batch.                                                      *)

(* The rows of a batch that is over are nobody's any more.                  *)
LEMMA FinalRowsStay ==
    ASSUME IndInv, [Next]_vars, NEW b \in Batch, batchStatus[b] \in Final, NEW i \in Item
    PROVE  /\ batchOf'[i] = b <=> batchOf[i] = b
           /\ batchOf[i] = b => parseStatus'[i] = parseStatus[i]
<1>0. RowsTypeOK /\ ItemsHaveBatches
  BY DEF IndInv, TypeOK
<1>1. pc \in Importing \cup Parsing => batch # b
  BY DEF IndInv, PipelineIsPlaced, Final
<1>2. ASSUME UNCHANGED <<batchOf, parseStatus>>
      PROVE  (batchOf'[i] = b <=> batchOf[i] = b) /\ (batchOf[i] = b => parseStatus'[i] = parseStatus[i])
  BY <1>2
<1>3. ASSUME NEW c \in Batch, NEW selection \in SUBSET Item, Start(c, selection)
      PROVE  (batchOf'[i] = b <=> batchOf[i] = b) /\ (batchOf[i] = b => parseStatus'[i] = parseStatus[i])
  <2>1. c # b
    BY <1>3 DEF Start, Final
  <2>2. i \in selection => batchOf[i] = Null
    BY <1>0, <1>3 DEF Start, ItemsHaveBatches
  <2> QED BY <1>3, <2>1, <2>2 DEF Start
<1>4. ASSUME NEW j \in Item, SkipParse(j)
      PROVE  (batchOf'[i] = b <=> batchOf[i] = b) /\ (batchOf[i] = b => parseStatus'[i] = parseStatus[i])
  <2>1. batchOf[j] = batch /\ batch # b
    BY <1>1, <1>4, TakenIsImported DEF SkipParse, Parsing
  <2> QED BY <1>0, <1>4, <2>1 DEF SkipParse, RowsTypeOK
<1>5. CASE Announce \/ RecordParse
  <2>1. batchOf[active] = batch /\ batch # b /\ active \in Item
    BY <1>1, <1>5, ActiveType DEF Announce, RecordParse, Parsing, Attempting
  <2> QED BY <1>0, <1>5, <2>1 DEF Announce, RecordParse, RowsTypeOK
<1>6. ASSUME NEW j \in Item, ImportFailed(j) \/ CancelRemaining(j) \/ BeginParse(j)
      PROVE  UNCHANGED <<batchOf, parseStatus>>
  BY <1>6 DEF ImportFailed, CancelRemaining, BeginParse
<1>7. CASE RegisterSuccess \/ RegisterFailure \/ CancelAttempt
  BY <1>2, <1>7, AttemptEnds
<1>8. CASE ImportCompleted \/ ImportCancelled \/ MarkParsing \/ FinishParsed \/ FinishCancelled
  BY <1>2, <1>8 DEF ImportCompleted, ImportCancelled, MarkParsing, FinishParsed, FinishCancelled,
                    Finalize
<1>9. CASE UNCHANGED rows
  BY <1>2, <1>9 DEF rows
<1> QED BY <1>2, <1>3, <1>4, <1>5, <1>6, <1>7, <1>8, <1>9, OnlyTransactions DEF Transaction

(* What a batch adds up to when a finish step finalizes it.                 *)
LEMMA Outcome ==
    ASSUME IndInv, FinishParsed \/ FinishCancelled
    PROVE  /\ batch \in Batch /\ Pending = {}
           /\ batchStatus' = [batchStatus EXCEPT ![batch] = BatchOutcome]
           /\ pc \in Importing \cup Parsing /\ pc \notin {"parsing", "register", "record", "announce"}
           /\ FinishParsed => dropped = {} /\ materialized = {} /\ pc = "nextParse"
           /\ FinishCancelled => dropped # {} \/ failed # {}
           /\ UNCHANGED <<batch, batchOf, itemState, parseStatus>>
<1>1. pc \in Importing \cup Parsing /\ pc \notin {"parsing", "register", "record", "announce"}
  BY DEF FinishParsed, FinishCancelled, Importing, Parsing
<1>2. batch \in Batch /\ Pending = {}
  BY <1>1 DEF IndInv, PipelineIsPlaced, FinishParsed, FinishCancelled, Parsing
<1>3. FinishParsed => dropped = {} /\ materialized = {} /\ pc = "nextParse"
  BY DEF FinishParsed, IndInv, CancelIsTraced
<1>4. FinishCancelled => dropped # {} \/ failed # {}
  BY DEF FinishCancelled, IndInv, CancelIsTraced
<1>5. /\ batchStatus' = [batchStatus EXCEPT ![batch] = BatchOutcome]
      /\ UNCHANGED <<batch, batchOf, itemState, parseStatus>>
  BY DEF FinishParsed, FinishCancelled, Finalize
<1> QED BY <1>1, <1>2, <1>3, <1>4, <1>5

(* What BatchOutcomeIsTruthful says of one batch whose status is s.         *)
Truthful(b, s) ==
    /\ \A i \in Item : batchOf[i] = b =>
          /\ itemState[i] # "pending" /\ parseStatus[i] # "pending"
          /\ s = "completed" => itemState[i] \in Imported /\ parseStatus[i] = "succeeded"
          /\ s = "failed" => itemState[i] = "failed"
    /\ s = "completed_with_failures" =>
          /\ \E i \in Item : batchOf[i] = b /\ itemState[i] \in Imported
          /\ \E i \in Item : batchOf[i] = b /\ (itemState[i] = "failed" \/ parseStatus[i] = "failed")
    /\ s = "cancelled" =>
          \E i \in Item : batchOf[i] = b /\ (itemState[i] = "cancelled" \/ parseStatus[i] = "cancelled")

LEMMA OutcomeIsTruthful ==
    ASSUME IndInv, FinishParsed \/ FinishCancelled
    PROVE  Truthful(batch, BatchOutcome)
<1>0. RowsTypeOK /\ ItemsHaveBatches /\ ParsedItemsHaveDocuments
  BY DEF IndInv, TypeOK
<1>1. /\ batch \in Batch /\ Pending = {}
      /\ pc \in Importing \cup Parsing /\ pc \notin {"parsing", "register", "record", "announce"}
      /\ FinishParsed => dropped = {} /\ materialized = {}
      /\ FinishCancelled => dropped # {} \/ failed # {}
  BY Outcome
<1>2. /\ successes = {i \in Mine : itemState[i] \in Imported}
      /\ failed = {i \in Mine : itemState[i] = "failed"}
      /\ dropped = {i \in Mine : itemState[i] = "cancelled" \/ parseStatus[i] = "cancelled"}
      /\ parseFailed = {i \in Mine : parseStatus[i] = "failed"}
      /\ \A i \in Mine : parseStatus[i] # "pending"
      /\ \A i \in successes : parseStatus[i] = "not_requested" => i \in materialized
  BY <1>1 DEF IndInv, ListsMirrorRows
<1>3. \A i \in Mine :
         /\ itemState[i] \in {"failed", "cancelled"} \cup Imported
         /\ parseStatus[i] \in {"not_requested", "succeeded", "failed", "cancelled"}
  BY <1>0, <1>1, <1>2, NullAssumption DEF RowsTypeOK, ItemsHaveBatches, Mine, Pending
<1>4. parseFailed \subseteq successes
  BY <1>0, <1>2 DEF ParsedItemsHaveDocuments, Mine
<1>5. CASE BatchOutcome = "cancelled"
  <2>1. dropped # {}
    BY <1>5 DEF BatchOutcome
  <2> QED BY <1>2, <1>3, <1>5, <2>1 DEF Truthful, Mine, Imported
<1>6. CASE BatchOutcome = "completed_with_failures"
  <2>1. successes # {} /\ failed \cup parseFailed # {}
    BY <1>6 DEF BatchOutcome
  <2> QED BY <1>2, <1>3, <1>6, <2>1 DEF Truthful, Mine, Imported
<1>7. CASE BatchOutcome = "failed"
  <2>1. dropped = {} /\ successes = {}
    BY <1>7 DEF BatchOutcome
  <2>2. \A i \in Mine : itemState[i] = "failed"
    BY <1>2, <1>3, <2>1
  <2> QED BY <1>2, <1>3, <1>7, <2>2 DEF Truthful, Mine
<1>8. CASE BatchOutcome = "completed"
  <2>1. dropped = {} /\ failed = {} /\ parseFailed = {}
    BY <1>4, <1>8 DEF BatchOutcome
  <2>2. materialized = {}
    BY <1>1, <2>1
  <2>3. \A i \in Mine : itemState[i] \in Imported /\ parseStatus[i] = "succeeded"
    BY <1>2, <1>3, <2>1, <2>2
  <2> QED BY <1>2, <1>3, <1>8, <2>3 DEF Truthful, Mine, Imported
<1> QED BY <1>5, <1>6, <1>7, <1>8 DEF BatchOutcome

LEMMA TruthfulStep == IndInv /\ [Next]_vars => BatchOutcomeIsTruthful'
<1> SUFFICES ASSUME IndInv, [Next]_vars, NEW b \in Batch, batchStatus'[b] \in Final
             PROVE  Truthful(b, batchStatus[b])'
  BY DEF BatchOutcomeIsTruthful, Truthful
<1>0. RowsTypeOK /\ ItemsHaveBatches
  BY DEF IndInv, TypeOK
<1>1. CASE batchStatus[b] \in Final
  <2>1. batchStatus'[b] = batchStatus[b] /\ Truthful(b, batchStatus[b])
    BY <1>1, BatchesStay DEF IndInv, BatchOutcomeIsTruthful, Truthful
  <2>2. \A i \in Item :
           /\ batchOf'[i] = b <=> batchOf[i] = b
           /\ batchOf[i] = b => parseStatus'[i] = parseStatus[i]
    BY <1>1, FinalRowsStay
  <2>3. \A i \in Item : batchOf[i] = b => itemState'[i] = itemState[i]
    <3>1. \A i \in Item : batchOf[i] = b => itemState[i] \notin {"absent", "pending"}
      BY <1>0, <2>1, NullAssumption DEF ItemsHaveBatches, Truthful
    <3> QED BY <3>1, ItemsStay
  <2>4. ASSUME NEW i \in Item, batchOf'[i] = b
        PROVE  /\ itemState'[i] # "pending" /\ parseStatus'[i] # "pending"
               /\ batchStatus'[b] = "completed" =>
                     itemState'[i] \in Imported /\ parseStatus'[i] = "succeeded"
               /\ batchStatus'[b] = "failed" => itemState'[i] = "failed"
    BY <2>1, <2>2, <2>3, <2>4 DEF Truthful
  <2>5. ASSUME batchStatus'[b] = "completed_with_failures"
        PROVE  /\ \E i \in Item : batchOf'[i] = b /\ itemState'[i] \in Imported
               /\ \E i \in Item : batchOf'[i] = b
                                  /\ (itemState'[i] = "failed" \/ parseStatus'[i] = "failed")
    <3>1. /\ \E i \in Item : batchOf[i] = b /\ itemState[i] \in Imported
          /\ \E i \in Item : batchOf[i] = b /\ (itemState[i] = "failed" \/ parseStatus[i] = "failed")
      BY <2>1, <2>5 DEF Truthful
    <3> QED BY <2>2, <2>3, <3>1
  <2>6. ASSUME batchStatus'[b] = "cancelled"
        PROVE  \E i \in Item : batchOf'[i] = b
                              /\ (itemState'[i] = "cancelled" \/ parseStatus'[i] = "cancelled")
    <3>1. \E i \in Item : batchOf[i] = b /\ (itemState[i] = "cancelled" \/ parseStatus[i] = "cancelled")
      BY <2>1, <2>6 DEF Truthful
    <3> QED BY <2>2, <2>3, <3>1
  <2> QED BY <2>4, <2>5, <2>6 DEF Truthful
<1>2. CASE batchStatus[b] \notin Final
  <2>1. FinishParsed \/ FinishCancelled
    <3>1. ASSUME NEW c \in Batch, NEW selection \in SUBSET Item, Start(c, selection) PROVE FALSE
      BY <1>0, <1>2, <3>1 DEF Start, RowsTypeOK, Final
    <3>2. CASE MarkParsing
      BY <1>0, <1>2, <3>2 DEF MarkParsing, RowsTypeOK, Final
    <3>3. ASSUME NEW j \in Item, ImportFailed(j) \/ CancelRemaining(j) \/ BeginParse(j) \/ SkipParse(j)
          PROVE  FALSE
      BY <1>2, <3>3 DEF ImportFailed, CancelRemaining, BeginParse, SkipParse
    <3>4. CASE RegisterSuccess \/ RegisterFailure \/ CancelAttempt
      BY <1>2, <3>4, AttemptEnds
    <3>5. CASE ImportCompleted \/ ImportCancelled \/ Announce \/ RecordParse
      BY <1>2, <3>5 DEF ImportCompleted, ImportCancelled, Announce, RecordParse
    <3>6. CASE UNCHANGED rows
      BY <1>2, <3>6 DEF rows
    <3> QED BY <3>1, <3>2, <3>3, <3>4, <3>5, <3>6, OnlyTransactions DEF Transaction
  <2>2. /\ batchStatus' = [batchStatus EXCEPT ![batch] = BatchOutcome]
        /\ batch \in Batch /\ UNCHANGED <<batchOf, itemState, parseStatus>>
    BY <2>1, Outcome
  <2>3. b = batch /\ batchStatus'[b] = BatchOutcome
    BY <1>0, <1>2, <2>2 DEF RowsTypeOK
  <2>4. Truthful(b, batchStatus'[b])
    BY <2>1, <2>3, OutcomeIsTruthful
  <2> QED BY <2>2, <2>4 DEF Truthful
<1> QED BY <1>1, <1>2

LEMMA HandleStep == IndInv /\ [Next]_vars => HandleIsTruthful'
<1> SUFFICES ASSUME IndInv, [Next]_vars PROVE HandleIsTruthful'
  OBVIOUS
<1>0. HandleIsTruthful /\ RowsTypeOK
  BY DEF IndInv, TypeOK
<1> USE DEF HandleIsTruthful
<1>1. CASE handle' \notin {"completed", "cancelled"}
  BY <1>1
<1>2. ASSUME UNCHANGED <<handle, batch, batchStatus>> PROVE HandleIsTruthful'
  BY <1>0, <1>2
<1>3. ASSUME pc \in Importing \cup Parsing, handle' = handle PROVE handle' \notin {"completed", "cancelled"}
  BY <1>3 DEF IndInv, PipelineIsPlaced
<1>4. ASSUME NEW b \in Batch, NEW selection \in SUBSET Item, Start(b, selection) PROVE HandleIsTruthful'
  BY <1>1, <1>4 DEF Start
<1>5. CASE Cancel \/ WorkerStep \/ UNCHANGED vars
  BY <1>2, <1>5 DEF Cancel, WorkerStep, BeginWork, Materialize, ParseFile, WorkerFault, workerOnly,
                    vars, rows, pipeline
<1>6. CASE ImportStep
  <2>1. pc \in Importing \cup Parsing /\ handle' = handle
    BY <1>6 DEF ImportStep, NextImport, ImportFailed, CancelRemaining, ImportCompleted,
                ImportCancelled, MarkParsing, Importing
  <2> QED BY <1>1, <1>3, <2>1
<1>7. CASE ParseStep
  <2>1. pc \in Importing \cup Parsing /\ handle' = handle
    BY <1>7 DEF ParseStep, BeginParse, RefuseParse, SkipParse, Announce, PromoteDerived,
                RegisterSuccess, RegisterFailure, CancelAttempt, RecordParse, Parsing
  <2> QED BY <1>1, <1>3, <2>1
<1>8. CASE FinishParsed
  <2>1. /\ batch \in Batch /\ batch' = batch /\ dropped = {}
        /\ batchStatus' = [batchStatus EXCEPT ![batch] = BatchOutcome]
    BY <1>8, Outcome
  <2>2. handle' = IF failed \cup parseFailed # {} THEN "completed_with_failures" ELSE "completed"
    BY <1>8 DEF FinishParsed, Finalize
  <2>3. failed \cup parseFailed = {} => BatchOutcome = "completed"
    BY <2>1 DEF BatchOutcome
  <2> QED BY <1>0, <2>1, <2>2, <2>3 DEF RowsTypeOK
<1>9. CASE FinishCancelled
  <2>1. /\ batch \in Batch /\ batch' = batch /\ (dropped # {} \/ failed # {})
        /\ batchStatus' = [batchStatus EXCEPT ![batch] = BatchOutcome]
    BY <1>9, Outcome
  <2>2. handle' = "cancelled" /\ BatchOutcome # "completed"
    BY <1>9, <2>1 DEF FinishCancelled, Finalize, BatchOutcome
  <2> QED BY <1>0, <2>1, <2>2 DEF RowsTypeOK
<1>10. CASE FinishUnrecorded
  <2>1. batchStatus[batch] = "parsing"
    BY <1>10 DEF FinishUnrecorded, IndInv, PipelineIsPlaced, Parsing
  <2> QED BY <1>10, <2>1 DEF FinishUnrecorded, rows
<1>11. CASE CallbackFault
  BY <1>1, <1>2, <1>11 DEF CallbackFault, rows
<1>12. CASE Restart
  BY <1>1, <1>12 DEF Restart
<1> QED BY <1>4, <1>5, <1>6, <1>7, <1>8, <1>9, <1>10, <1>11, <1>12 DEF Next, MainStep, Finish

-----------------------------------------------------------------------------
(* The theorems.                                                            *)

LEMMA IndInit == Init => IndInv
<1> SUFFICES ASSUME Init PROVE IndInv
  OBVIOUS
<1>1. TypeOK
  BY TypeInit
<1>2. PipelineIsPlaced /\ AttemptIsOpen /\ ListsMirrorRows /\ CancelIsTraced /\ HandleIsTruthful
  BY DEF Init, PipelineIsPlaced, AttemptIsOpen, ListsMirrorRows, CancelIsTraced, HandleIsTruthful,
         Importing, Parsing, Attempting, Waiting
<1>3. ArtifactsAreStored /\ ItemsHaveBatches /\ RowsHaveFiles /\ BatchOutcomeIsTruthful
  BY DEF Init, ArtifactsAreStored, ItemsHaveBatches, RowsHaveFiles, BatchOutcomeIsTruthful, Final
<1>4. ArtifactFollowsLatestAttempt
  BY DEF Init, ArtifactFollowsLatestAttempt
<1>5. OneImportPerContent /\ ParsedItemsHaveDocuments
  BY DEF Init, OneImportPerContent, ParsedItemsHaveDocuments, Imported
<1> QED BY <1>1, <1>2, <1>3, <1>4, <1>5 DEF IndInv

LEMMA IndStep == IndInv /\ [Next]_vars => IndInv'
  BY TypeStep, PlacedStep, OpenStep, ArtifactsStep, BatchesStep, FilesStep, AttemptsStep,
     OneImportStep, ParsedStep, ListsStep, TracedStep, TruthfulStep, HandleStep
  DEF IndInv

(* Every reachable state satisfies the inductive invariant, however many    *)
(* batches run, steps fail, users cancel and processes restart.             *)
THEOREM Inductive == Spec => []IndInv
  BY IndInit, IndStep, PTL DEF Spec

(* Type correctness; it needs the invariant, which says which callbacks have *)
(* a file and a batch to work on.                                           *)
THEOREM TypeCorrect == Spec => []TypeOK
<1>1. IndInv => TypeOK
  BY DEF IndInv
<1> QED BY Inductive, <1>1, PTL

(* No row promises a file that is not there: snapshots have their content   *)
(* in the store, and succeeded artifacts their derived document.            *)
THEOREM FilesBeforeRows == Spec => []RowsHaveFiles
<1>1. IndInv => RowsHaveFiles
  BY DEF IndInv
<1> QED BY Inductive, <1>1, PTL

(* An artifact says what its latest attempt says, and no earlier attempt    *)
(* has succeeded.                                                           *)
THEOREM LatestAttemptDecides == Spec => []ArtifactFollowsLatestAttempt
<1>1. IndInv => ArtifactFollowsLatestAttempt
  BY DEF IndInv
<1> QED BY Inductive, <1>1, PTL

(* Every stored content was imported by exactly one item.                   *)
THEOREM ImportedOnce == Spec => []OneImportPerContent
<1>1. IndInv => OneImportPerContent
  BY DEF IndInv
<1> QED BY Inductive, <1>1, PTL

(* An item is recorded as parsed only over a succeeded artifact of its own  *)
(* content.                                                                 *)
THEOREM ParsedHasDocument == Spec => []ParsedItemsHaveDocuments
<1>1. IndInv => ParsedItemsHaveDocuments
  BY DEF IndInv
<1> QED BY Inductive, <1>1, PTL

(* A final batch status is what the items of the batch add up to.           *)
THEOREM BatchTruthful == Spec => []BatchOutcomeIsTruthful
<1>1. IndInv => BatchOutcomeIsTruthful
  BY DEF IndInv
<1> QED BY Inductive, <1>1, PTL

(* What the import dialog is told agrees with the batch row.                *)
THEOREM HandleTruthful == Spec => []HandleIsTruthful
<1>1. IndInv => HandleIsTruthful
  BY DEF IndInv
<1> QED BY Inductive, <1>1, PTL

(* Final items, final batches, succeeded artifacts and closed attempts are  *)
(* never written again.                                                     *)
THEOREM Settled == Spec => SettledStays
<1>1. IndInv /\ [Next]_vars =>
        [ /\ \A i \in Item : itemState[i] \notin {"absent", "pending"} => itemState'[i] = itemState[i]
          /\ \A b \in Batch : batchStatus[b] \in Final => batchStatus'[b] = batchStatus[b]
          /\ \A k \in Content :
                \A n \in DOMAIN attempts[k] :
                    /\ n \in DOMAIN attempts'[k]
                    /\ attempts[k][n] # "running" => attempts'[k][n] = attempts[k][n]]_vars
  BY ItemsStay, BatchesStay, AttemptsStay
<1> QED BY Inductive, <1>1, PTL DEF Spec, SettledStays

-----------------------------------------------------------------------------
(* What more holds when no step fails.                                      *)

LEMMA PromptStep ==
    ASSUME "fault" \notin Interruption, IndInv, CancelIsPrompt, [Next]_vars
    PROVE  CancelIsPrompt'
<1>0. RowsTypeOK /\ (handle = "cancelled" => pc \notin Importing \cup Parsing)
  BY DEF IndInv, TypeOK, PipelineIsPlaced
<1> USE <1>0 DEF CancelIsPrompt, CancelledHandleCancelsBatch, user
<1>1. ASSUME NEW b \in Batch, NEW selection \in SUBSET Item, Start(b, selection) PROVE CancelIsPrompt'
  BY <1>1 DEF Start
<1>2. CASE Cancel
  BY <1>2 DEF Cancel, Waiting, rows, pipeline, Importing, Parsing
<1>3. CASE WorkerStep
  BY <1>3 DEF WorkerStep, BeginWork, Materialize, ParseFile, WorkerFault, workerOnly, rows, pipeline
<1>4. CASE ImportStep
  <2>1. pc \in Importing /\ handle' = handle
    BY <1>4 DEF ImportStep, NextImport, ImportFailed, CancelRemaining, ImportCompleted,
                ImportCancelled, MarkParsing, Importing
  <2>2. handle' # "cancelled"
    BY <2>1
  <2> QED BY <1>4, <2>2 DEF ImportStep, NextImport, ImportFailed, CancelRemaining, ImportCompleted,
                            ImportCancelled, MarkParsing
<1>5. CASE ParseStep
  <2>1. pc \in Parsing /\ handle' = handle
    BY <1>5 DEF ParseStep, BeginParse, RefuseParse, SkipParse, Announce, PromoteDerived,
                RegisterSuccess, RegisterFailure, CancelAttempt, RecordParse, Parsing
  <2>2. handle' # "cancelled"
    BY <2>1
  <2> QED BY <1>5, <2>2 DEF ParseStep, BeginParse, RefuseParse, SkipParse, Announce, PromoteDerived,
                            RegisterSuccess, RegisterFailure, CancelAttempt, RecordParse
<1>6. CASE FinishParsed
  BY <1>6 DEF FinishParsed, Finalize
<1>7. CASE FinishCancelled
  <2>1. pc \in {"cancelRest", "cancelParse"}
    BY <1>7 DEF FinishCancelled
  <2>2. dropped # {} /\ batch \in Batch /\ batchStatus' = [batchStatus EXCEPT ![batch] = BatchOutcome]
    BY <1>7, <2>1, Outcome DEF IndInv, CancelIsTraced
  <2>3. batchStatus'[batch] = "cancelled"
    BY <2>2 DEF BatchOutcome, RowsTypeOK
  <2> QED BY <1>7, <2>3 DEF FinishCancelled, Finalize
<1>8. CASE FinishUnrecorded \/ CallbackFault
  BY <1>8 DEF FinishUnrecorded, CallbackFault
<1>9. CASE Restart \/ UNCHANGED vars
  BY <1>9 DEF Restart, vars, rows, pipeline
<1> QED BY <1>1, <1>2, <1>3, <1>4, <1>5, <1>6, <1>7, <1>8, <1>9 DEF Next, MainStep, Finish

LEMMA OneOpenStep ==
    ASSUME Interruption \subseteq {"cancel"}, IndInv, NothingLeftOpen, [Next]_vars,
           NEW k \in Content, artifact'[k] = "running"
    PROVE  pc' \in Attempting /\ k = ContentOf[active']
<1>0. RowsTypeOK /\ (artifact[k] = "running" => pc \in Attempting /\ k = ContentOf[active])
  BY DEF IndInv, TypeOK, NothingLeftOpen
<1> DEFINE Placed == pc' \in Attempting /\ k = ContentOf[active']
<1>1. ASSUME NEW i \in Item, BeginParse(i) PROVE Placed
  BY <1>0, <1>1 DEF BeginParse, RowsTypeOK, Attempting
<1>2. CASE RegisterSuccess \/ RegisterFailure \/ CancelAttempt
  BY <1>0, <1>2, AttemptEnds DEF RowsTypeOK
<1>3. CASE Announce \/ PromoteDerived
  BY <1>0, <1>3 DEF Announce, PromoteDerived, Attempting, rows
<1>4. ASSUME NEW b \in Batch, NEW selection \in SUBSET Item, Start(b, selection) PROVE Placed
  BY <1>0, <1>4 DEF Start, Attempting
<1>5. CASE Cancel \/ WorkerStep \/ UNCHANGED vars
  BY <1>0, <1>5 DEF Cancel, WorkerStep, BeginWork, Materialize, ParseFile, WorkerFault, workerOnly,
                    vars, rows, pipeline
<1>6. CASE ImportStep
  BY <1>0, <1>6 DEF ImportStep, NextImport, ImportFailed, CancelRemaining, ImportCompleted,
                    ImportCancelled, MarkParsing, rows, Attempting
<1>7. ASSUME NEW i \in Item, RefuseParse(i) \/ SkipParse(i) PROVE Placed
  BY <1>0, <1>7 DEF RefuseParse, SkipParse, rows, Attempting
<1>8. CASE RecordParse \/ Finish
  BY <1>0, <1>8 DEF RecordParse, Finish, FinishParsed, FinishCancelled, FinishUnrecorded, Finalize,
                    rows, Attempting
<1>9. ~CallbackFault /\ ~Restart
  BY DEF CallbackFault, Restart
<1> QED BY <1>1, <1>2, <1>3, <1>4, <1>5, <1>6, <1>7, <1>8, <1>9 DEF Next, MainStep, ParseStep

LEMMA ClosedStep ==
    ASSUME Interruption \subseteq {"cancel"}, IndInv, CancelIsPrompt, NothingLeftOpen, [Next]_vars
    PROVE  NothingLeftOpen'
<1>0. RowsTypeOK /\ (handle \in Final => pc = "idle" /\ batch \in Batch /\ batchStatus[batch] \in Final)
  BY DEF IndInv, TypeOK, NothingLeftOpen
<1> DEFINE Closed == handle \in Final => pc = "idle" /\ batch \in Batch /\ batchStatus[batch] \in Final
<1>1. Closed'
  <2>1. ASSUME NEW b \in Batch, NEW selection \in SUBSET Item, Start(b, selection) PROVE Closed'
    BY <2>1 DEF Start, Final
  <2>2. CASE Cancel \/ WorkerStep \/ UNCHANGED vars
    BY <1>0, <2>2 DEF Cancel, WorkerStep, BeginWork, Materialize, ParseFile, WorkerFault, workerOnly,
                      vars, rows, pipeline
  <2>3. ASSUME pc # "idle", handle' = handle PROVE Closed'
    BY <1>0, <2>3
  <2>4. CASE ImportStep
    BY <2>3, <2>4 DEF ImportStep, NextImport, ImportFailed, CancelRemaining, ImportCompleted,
                      ImportCancelled, MarkParsing
  <2>5. CASE ParseStep
    BY <2>3, <2>5 DEF ParseStep, BeginParse, RefuseParse, SkipParse, Announce, PromoteDerived,
                      RegisterSuccess, RegisterFailure, CancelAttempt, RecordParse
  <2>6. CASE FinishParsed \/ FinishCancelled
    <3>1. batch \in Batch /\ batch' = batch /\ batchStatus' = [batchStatus EXCEPT ![batch] = BatchOutcome]
      BY <2>6, Outcome
    <3>2. batchStatus'[batch] \in Final /\ pc' = "idle"
      BY <1>0, <2>6, <3>1 DEF RowsTypeOK, BatchOutcome, Final, FinishParsed, FinishCancelled, Finalize
    <3> QED BY <3>1, <3>2
  <2>7. ~FinishUnrecorded /\ ~CallbackFault /\ ~Restart
    BY DEF FinishUnrecorded, CancelIsPrompt, CallbackFault, Restart
  <2> HIDE DEF Closed
  <2> QED BY <2>1, <2>2, <2>4, <2>5, <2>6, <2>7 DEF Next, MainStep, Finish
<1> QED BY <1>1, OneOpenStep DEF NothingLeftOpen

(* When no step fails, the strengthening holds in every reachable state.    *)
THEOREM Prompt == ASSUME "fault" \notin Interruption PROVE Spec => []CancelIsPrompt
<1>1. Init => CancelIsPrompt
  BY DEF Init, CancelIsPrompt, CancelledHandleCancelsBatch
<1>2. IndInv /\ CancelIsPrompt /\ [Next]_vars => CancelIsPrompt'
  BY PromptStep
<1> QED BY <1>1, <1>2, Inductive, PTL DEF Spec

(* When no step fails, a handle shown as cancelled belongs to a batch that  *)
(* is recorded as cancelled, across restarts too: the parse loop never      *)
(* finishes a cancelled handle without having dropped an item.              *)
THEOREM CancelledTogether ==
    ASSUME "fault" \notin Interruption PROVE Spec => []CancelledHandleCancelsBatch
<1>1. CancelIsPrompt => CancelledHandleCancelsBatch
  BY DEF CancelIsPrompt
<1> QED BY <1>1, Prompt, PTL

(* In a process that is not interrupted, but for the user's cancellations,  *)
(* a handle that has finished leaves its batch final and no attempt open.   *)
THEOREM FinishedCloses ==
    ASSUME Interruption \subseteq {"cancel"} PROVE Spec => []FinishedIsClosed
<1>1. Init => NothingLeftOpen
  BY DEF Init, NothingLeftOpen, Final
<1>2. IndInv /\ CancelIsPrompt /\ NothingLeftOpen /\ [Next]_vars => NothingLeftOpen'
  BY ClosedStep
<1>3. IndInv /\ NothingLeftOpen => FinishedIsClosed
  BY DEF NothingLeftOpen, FinishedIsClosed, Attempting
<1>4. Spec => []CancelIsPrompt
  BY Prompt
<1> QED BY <1>1, <1>2, <1>3, <1>4, Inductive, PTL DEF Spec

-----------------------------------------------------------------------------
(* The pipeline implements the catalog of contents.                         *)

(* The catalog entry of one content.                                        *)
Entry(k) == IF artifact[k] = "succeeded" THEN "parsed" ELSE IF k \in snapshots THEN "stored" ELSE "unknown"

LEMMA RefineInit == Init => Catalog!Init
  BY DEF Init, Catalog!Init

LEMMA RefineStep ==
    IndInv /\ [Next]_vars => [Catalog!Next]_[k \in Content |-> Entry(k)]
<1> SUFFICES ASSUME IndInv, [Next]_vars PROVE [Catalog!Next]_[k \in Content |-> Entry(k)]
  OBVIOUS
<1>0. RowsTypeOK /\ ArtifactsAreStored
  BY DEF IndInv, TypeOK
<1>1. ASSUME \A k \in Content : Entry(k)' = Entry(k)
      PROVE  UNCHANGED [k \in Content |-> Entry(k)]
  BY <1>1
<1>2. ASSUME UNCHANGED <<artifact, snapshots>> PROVE UNCHANGED [k \in Content |-> Entry(k)]
  BY <1>2 DEF Entry
<1>3. CASE ImportCompleted
  <2>1. PICK k \in Content : k = ContentOf[active]
    BY <1>3, ActiveType DEF ImportCompleted
  <2>2. artifact' = artifact /\ snapshots' = snapshots \cup {k}
    BY <1>3, <2>1 DEF ImportCompleted
  <2>3. CASE k \in snapshots
    BY <1>2, <2>2, <2>3
  <2>4. CASE k \notin snapshots
    <3>1. artifact[k] = "absent"
      BY <1>0, <2>4 DEF ArtifactsAreStored
    <3>2. Entry(k) = "unknown" /\ Entry(k)' = "stored"
      BY <2>2, <2>4, <3>1 DEF Entry
    <3>3. \A c \in Content : c # k => Entry(c)' = Entry(c)
      BY <2>2 DEF Entry
    <3>4. Catalog!Store(k)
      BY <3>2, <3>3 DEF Catalog!Store, Entry
    <3> QED BY <3>4 DEF Catalog!Next
  <2> QED BY <2>3, <2>4
<1>4. ASSUME NEW i \in Item, BeginParse(i) PROVE UNCHANGED [k \in Content |-> Entry(k)]
  <2>1. /\ artifact[ContentOf[i]] # "succeeded" /\ snapshots' = snapshots
        /\ artifact' = [artifact EXCEPT ![ContentOf[i]] = "running"]
    BY <1>4 DEF BeginParse
  <2> QED BY <1>0, <1>1, <2>1 DEF RowsTypeOK, Entry
<1>5. CASE RegisterFailure \/ CancelAttempt
  <2>1. verdict' # "succeeded"
    BY <1>5 DEF RegisterFailure, CancelAttempt
  <2>2. /\ ContentOf[active] \in Content /\ artifact[ContentOf[active]] = "running"
        /\ artifact' = [artifact EXCEPT ![ContentOf[active]] = verdict'] /\ snapshots' = snapshots
    BY <1>5, AttemptEnds
  <2> QED BY <1>0, <1>1, <2>1, <2>2 DEF RowsTypeOK, Entry
<1>6. CASE RegisterSuccess
  <2>1. PICK k \in Content : k = ContentOf[active]
    BY <1>6, AttemptEnds
  <2>2. /\ artifact[k] = "running" /\ snapshots' = snapshots
        /\ artifact' = [artifact EXCEPT ![k] = "succeeded"]
    BY <1>6, <2>1, AttemptEnds DEF RegisterSuccess
  <2>3. k \in snapshots
    BY <1>0, <2>2 DEF ArtifactsAreStored
  <2>4. Entry(k) = "stored" /\ Entry(k)' = "parsed"
    BY <1>0, <2>2, <2>3 DEF RowsTypeOK, Entry
  <2>5. \A c \in Content : c # k => Entry(c)' = Entry(c)
    BY <1>0, <2>2 DEF RowsTypeOK, Entry
  <2>6. Catalog!Parse(k)
    <3>1. [c \in Content |-> Entry(c)][k] = "stored"
      BY <2>4
    <3>2. [c \in Content |-> Entry(c)]' = [[c \in Content |-> Entry(c)] EXCEPT ![k] = "parsed"]
      <4>1. \A c \in Content : Entry(c)' = [[d \in Content |-> Entry(d)] EXCEPT ![k] = "parsed"][c]
        BY <2>4, <2>5
      <4> QED BY <4>1
    <3> QED BY <3>1, <3>2 DEF Catalog!Parse, Entry
  <2> QED BY <2>6 DEF Catalog!Next
<1>7. ASSUME NEW b \in Batch, NEW selection \in SUBSET Item, Start(b, selection)
      PROVE  UNCHANGED <<artifact, snapshots>>
  BY <1>7 DEF Start
<1>8. ASSUME NEW i \in Item, ImportFailed(i) \/ CancelRemaining(i) \/ SkipParse(i)
      PROVE  UNCHANGED <<artifact, snapshots>>
  BY <1>8 DEF ImportFailed, CancelRemaining, SkipParse
<1>9. CASE ImportCancelled \/ MarkParsing \/ Announce \/ RecordParse \/ FinishParsed \/ FinishCancelled
  BY <1>2, <1>9 DEF ImportCancelled, MarkParsing, Announce, RecordParse, FinishParsed,
                    FinishCancelled, Finalize
<1>10. CASE UNCHANGED rows
  BY <1>2, <1>10 DEF rows
<1> QED BY <1>2, <1>3, <1>4, <1>5, <1>6, <1>7, <1>8, <1>9, <1>10, OnlyTransactions DEF Transaction

(* Whatever fails, is cancelled or restarts, contents only move from        *)
(* unknown to stored to parsed, one at a time.                              *)
THEOREM Refinement == Spec => ImplementsCatalog
<1>1. Spec => Catalog!Spec
  BY Inductive, RefineInit, RefineStep, PTL DEF Spec, Catalog!Spec, Entry
<1> QED BY <1>1 DEF ImplementsCatalog

-----------------------------------------------------------------------------
(* Progress: the safety half of HandleFinishes.                             *)

(* How many steps the batch under way has left at most: eleven for every    *)
(* file not tried yet, seven for every imported file not taken up by the    *)
(* parse loop, and those of the callback and its worker.                    *)
WorkerLeft ==
    CASE worker = "queued" -> 3 [] worker = "working" -> 2 [] OTHER -> 1

CallbackLeft ==
    CASE pc \in {"idle", "stuck"}                        -> 0
      [] pc \in {"nextParse", "cancelRest", "cancelParse"} -> 1
      [] pc = "record"     -> 2
      [] pc = "register"   -> 3
      [] pc = "parsing"    -> 3 + WorkerLeft
      [] pc = "announce"   -> 7
      [] pc = "importing"  -> 1 + WorkerLeft
      [] pc = "nextImport" -> 5

StepsLeft == 11 * Cardinality(Pending) + 7 * Cardinality(materialized) + CallbackLeft

(* An import of n files takes at most 11 n + 5 steps: every callback and    *)
(* every step of the worker brings the batch nearer to its end, and a       *)
(* cancellation does not delay it (the loops of ImportParsePipeline).       *)
ImportAdvances ==
    [][ /\ \A b \in Batch, selection \in SUBSET Item :
              Start(b, selection) => StepsLeft' = 11 * Cardinality(selection) + 5
        /\ Cancel => StepsLeft' = StepsLeft
        /\ WorkerStep \/ MainStep => StepsLeft' < StepsLeft]_vars

(* A file the parse loop is about to take has been parsed before: its       *)
(* attempt is refused with PARSE_ALREADY_SUCCEEDED (begin_parse_operation). *)
IsRefused(i) == i \in materialized \cap Parsable /\ artifact[ContentOf[i]] = "succeeded"

(* A running handle has callbacks left to finish it, unless one of them     *)
(* ended in an exception: that of a refused attempt, or a failed step.      *)
StopsOnlyOnException ==
    handle = "running" =>
        \/ Running
        \/ pc = "stuck" /\ ("fault" \in Interruption \/ \E i \in Item : IsRefused(i))

LEMMA Sizes ==
    ASSUME IsFiniteSet(Item), TypeOK, TypeOK'
    PROVE  /\ IsFiniteSet(Pending) /\ Cardinality(Pending) \in Nat
           /\ IsFiniteSet(materialized) /\ Cardinality(materialized) \in Nat
           /\ CallbackLeft \in 0..7
           /\ Cardinality(Pending') \in Nat /\ Cardinality(materialized') \in Nat
           /\ CallbackLeft' \in 0..7
<1>1. /\ Pending \subseteq Item /\ materialized \subseteq Item
      /\ Pending' \subseteq Item /\ materialized' \subseteq Item
  BY DEF Pending, TypeOK, PipelineTypeOK
<1>2. /\ IsFiniteSet(Pending) /\ IsFiniteSet(materialized)
      /\ IsFiniteSet(Pending') /\ IsFiniteSet(materialized')
  BY <1>1, FS_Subset
<1>3. WorkerLeft \in 1..3 /\ WorkerLeft' \in 1..3
  BY DEF WorkerLeft
<1>4. CallbackLeft \in 0..7 /\ CallbackLeft' \in 0..7
  BY <1>3 DEF CallbackLeft, TypeOK, PipelineTypeOK
<1> QED BY <1>2, <1>4, FS_CardinalityType

(* The weights of a file tried and of a file taken up outweigh the steps    *)
(* that doing so brings about.                                              *)
LEMMA Weights ==
    ASSUME NEW p \in Nat, NEW m \in Nat, NEW q \in Nat, NEW n \in Nat,
           NEW c \in 0..7, NEW d \in 0..7,
           \/ q = p /\ n = m /\ d < c
           \/ q = p - 1 /\ n = m /\ d <= c + 4
           \/ q = p - 1 /\ n = m + 1 /\ d <= c + 3
           \/ q = p /\ n = m - 1 /\ d <= c + 6
    PROVE  11 * q + 7 * n + d < 11 * p + 7 * m + c
  OBVIOUS

(* The batch is nearer to its end when only the callback moved on, when one *)
(* file was tried, and when one file was taken up by the parse loop.        *)
LEMMA CallbackMovesOn ==
    ASSUME IsFiniteSet(Item), TypeOK, TypeOK',
           Pending' = Pending, materialized' = materialized, CallbackLeft' < CallbackLeft
    PROVE  StepsLeft' < StepsLeft
  BY Sizes, Weights DEF StepsLeft

LEMMA FileIsTried ==
    ASSUME IsFiniteSet(Item), TypeOK, TypeOK', NEW i \in Pending,
           Pending' = Pending \ {i},
           \/ materialized' = materialized /\ CallbackLeft' <= CallbackLeft + 4
           \/ materialized' = materialized \cup {i} /\ CallbackLeft' <= CallbackLeft + 3
    PROVE  StepsLeft' < StepsLeft
<1>1. Cardinality(Pending') = Cardinality(Pending) - 1
  BY Sizes, FS_RemoveElement
<1>2. CASE materialized' = materialized /\ CallbackLeft' <= CallbackLeft + 4
  BY <1>1, <1>2, Sizes, Weights DEF StepsLeft
<1>3. CASE materialized' = materialized \cup {i} /\ CallbackLeft' <= CallbackLeft + 3
  <2>1. \/ Cardinality(materialized') = Cardinality(materialized)
        \/ Cardinality(materialized') = Cardinality(materialized) + 1
    BY <1>3, Sizes, FS_AddElement
  <2>2. CallbackLeft' <= CallbackLeft + 4
    BY <1>3, Sizes
  <2> QED BY <1>1, <1>3, <2>1, <2>2, Sizes, Weights DEF StepsLeft
<1> QED BY <1>2, <1>3

LEMMA FileIsTakenUp ==
    ASSUME IsFiniteSet(Item), TypeOK, TypeOK', NEW i \in materialized,
           Pending' = Pending, materialized' = materialized \ {i},
           CallbackLeft' <= CallbackLeft + 6
    PROVE  StepsLeft' < StepsLeft
<1>1. Cardinality(materialized') = Cardinality(materialized) - 1
  BY Sizes, FS_RemoveElement
<1> QED BY <1>1, Sizes, Weights DEF StepsLeft

(* Marking a file as tried takes it out of the pending ones.                *)
LEMMA PendingShrinks ==
    ASSUME TypeOK, NEW i \in Pending, NEW s, s # "pending", MarkItem(i, s),
           UNCHANGED <<batchOf, batch>>
    PROVE  Pending' = Pending \ {i}
<1>1. \A j \in Item : itemState'[j] = IF j = i THEN s ELSE itemState[j]
  BY DEF MarkItem, Pending, TypeOK, RowsTypeOK
<1> QED BY <1>1 DEF Pending

LEMMA PendingStays ==
    ASSUME UNCHANGED <<batchOf, batch, itemState>> PROVE Pending' = Pending
  BY DEF Pending

(* The worker steps only while a callback waits for it.                     *)
LEMMA WorkerStepAdvances ==
    ASSUME IsFiniteSet(Item), IndInv, TypeOK', WorkerStep PROVE StepsLeft' < StepsLeft
<1>1. Pending' = Pending /\ materialized' = materialized /\ pc' = pc
  BY PendingStays DEF WorkerStep, BeginWork, Materialize, ParseFile, WorkerFault, workerOnly,
                      rows, pipeline, lists
<1>2. \/ worker = "queued" /\ worker' \in {"working", "cancelled"}
      \/ worker = "working" /\ worker' \notin {"queued", "working"}
  BY DEF WorkerStep, BeginWork, Materialize, ParseFile, WorkerFault
<1>3. WorkerLeft \in 1..3 /\ WorkerLeft' \in 1..3 /\ WorkerLeft' < WorkerLeft
  BY <1>2 DEF WorkerLeft
<1>4. pc \in {"importing", "parsing"}
  BY <1>2 DEF IndInv, PipelineIsPlaced, Waiting
<1>5. CallbackLeft' < CallbackLeft
  BY <1>1, <1>3, <1>4 DEF CallbackLeft
<1> QED BY <1>1, <1>5, CallbackMovesOn DEF IndInv

LEMMA ImportStepAdvances ==
    ASSUME IsFiniteSet(Item), IndInv, TypeOK', ImportStep PROVE StepsLeft' < StepsLeft
<1>0. TypeOK
  BY DEF IndInv
<1>1. ASSUME NEW i \in Item, NextImport(i) PROVE StepsLeft' < StepsLeft
  <2>1. Pending' = Pending /\ materialized' = materialized
    BY <1>1, PendingStays DEF NextImport, rows, lists
  <2>2. CallbackLeft' < CallbackLeft
    BY <1>1 DEF NextImport, CallbackLeft, WorkerLeft
  <2> QED BY <1>0, <2>1, <2>2, CallbackMovesOn
<1>2. ASSUME NEW i \in Item, ImportFailed(i) PROVE StepsLeft' < StepsLeft
  <2>1. i \in Pending
    BY <1>2 DEF ImportFailed, IndInv, PipelineIsPlaced, Mine, Pending
  <2>2. Pending' = Pending \ {i} /\ materialized' = materialized
    BY <1>0, <1>2, <2>1, PendingShrinks DEF ImportFailed
  <2>3. CallbackLeft' <= CallbackLeft + 4
    BY <1>2 DEF ImportFailed, CallbackLeft, WorkerLeft
  <2> QED BY <1>0, <2>1, <2>2, <2>3, FileIsTried
<1>3. ASSUME NEW i \in Item, CancelRemaining(i) PROVE StepsLeft' < StepsLeft
  <2>1. i \in Pending
    BY <1>3 DEF CancelRemaining
  <2>2. Pending' = Pending \ {i} /\ materialized' = materialized
    BY <1>0, <1>3, <2>1, PendingShrinks DEF CancelRemaining
  <2>3. CallbackLeft' <= CallbackLeft + 4
    BY <1>3 DEF CancelRemaining, CallbackLeft
  <2> QED BY <1>0, <2>1, <2>2, <2>3, FileIsTried
<1>4. CASE ImportCompleted
  <2>1. active \in Pending
    BY <1>4 DEF ImportCompleted, IndInv, PipelineIsPlaced, Mine, Pending
  <2>2. Pending' = Pending \ {active}
    BY <1>0, <1>4, <2>1, PendingShrinks DEF ImportCompleted
  <2>3. materialized' = materialized \cup {active} /\ CallbackLeft' <= CallbackLeft + 3
    BY <1>4 DEF ImportCompleted, CallbackLeft, WorkerLeft
  <2> QED BY <1>0, <2>1, <2>2, <2>3, FileIsTried
<1>5. CASE ImportCancelled
  <2>1. active \in Pending
    BY <1>5 DEF ImportCancelled, IndInv, PipelineIsPlaced, Mine, Pending
  <2>2. Pending' = Pending \ {active} /\ materialized' = materialized
    BY <1>0, <1>5, <2>1, PendingShrinks DEF ImportCancelled
  <2>3. CallbackLeft' <= CallbackLeft + 4
    BY <1>5 DEF ImportCancelled, CallbackLeft, WorkerLeft
  <2> QED BY <1>0, <2>1, <2>2, <2>3, FileIsTried
<1>6. CASE MarkParsing
  <2>1. Pending' = Pending /\ materialized' = materialized
    BY <1>6, PendingStays DEF MarkParsing, lists
  <2>2. CallbackLeft' < CallbackLeft
    BY <1>6 DEF MarkParsing, CallbackLeft
  <2> QED BY <1>0, <2>1, <2>2, CallbackMovesOn
<1> QED BY <1>1, <1>2, <1>3, <1>4, <1>5, <1>6 DEF ImportStep

LEMMA ParseStepAdvances ==
    ASSUME IsFiniteSet(Item), IndInv, TypeOK', ParseStep PROVE StepsLeft' < StepsLeft
<1>0. TypeOK
  BY DEF IndInv
<1>1. ASSUME NEW i \in Item, BeginParse(i) \/ SkipParse(i) PROVE StepsLeft' < StepsLeft
  <2>1. Pending' = Pending
    BY <1>1, PendingStays DEF BeginParse, SkipParse
  <2>2. i \in materialized /\ materialized' = materialized \ {i}
    BY <1>1 DEF BeginParse, SkipParse
  <2>3. pc = "nextParse" /\ pc' \in {"nextParse", "announce"}
    BY <1>1 DEF BeginParse, SkipParse
  <2>4. CallbackLeft' <= CallbackLeft + 6
    BY <2>3 DEF CallbackLeft
  <2> QED BY <1>0, <2>1, <2>2, <2>4, FileIsTakenUp
<1>2. ASSUME \/ \E i \in Item : RefuseParse(i)
             \/ Announce \/ PromoteDerived
             \/ RegisterSuccess \/ RegisterFailure \/ CancelAttempt \/ RecordParse
      PROVE  StepsLeft' < StepsLeft
  <2>1. Pending' = Pending /\ materialized' = materialized
    BY <1>2, PendingStays DEF RefuseParse, Announce, PromoteDerived, RegisterSuccess,
                              RegisterFailure, CancelAttempt, RecordParse, rows, lists
  <2>2. \/ pc = "nextParse" /\ pc' = "stuck"
        \/ pc = "announce" /\ pc' = "parsing"
        \/ pc = "parsing" /\ pc' \in {"register", "record"}
        \/ pc = "register" /\ pc' = "record"
        \/ pc = "record" /\ pc' \in {"nextParse", "cancelParse"}
    BY <1>2 DEF RefuseParse, Announce, PromoteDerived, RegisterSuccess,
                RegisterFailure, CancelAttempt, RecordParse
  <2>3. WorkerLeft \in 1..3 /\ WorkerLeft' \in 1..3
    BY DEF WorkerLeft
  <2>4. CallbackLeft' < CallbackLeft
    BY <2>2, <2>3 DEF CallbackLeft
  <2> QED BY <1>0, <2>1, <2>4, CallbackMovesOn
<1> QED BY <1>1, <1>2 DEF ParseStep

LEMMA EndAdvances ==
    ASSUME IsFiniteSet(Item), IndInv, TypeOK', Finish \/ CallbackFault
    PROVE  StepsLeft' < StepsLeft
<1>1. Pending' = Pending /\ materialized' = materialized
  BY PendingStays DEF Finish, FinishParsed, FinishCancelled, FinishUnrecorded, Finalize,
                      CallbackFault, rows, lists
<1>2. pc \notin {"idle", "stuck"} /\ pc' \in {"idle", "stuck"}
  BY DEF Finish, FinishParsed, FinishCancelled, FinishUnrecorded, Finalize, CallbackFault, Running
<1>3. WorkerLeft \in 1..3
  BY DEF WorkerLeft
<1>4. CallbackLeft' < CallbackLeft
  BY <1>2, <1>3 DEF CallbackLeft, IndInv, TypeOK, PipelineTypeOK
<1> QED BY <1>1, <1>4, CallbackMovesOn DEF IndInv

LEMMA StartIsBounded ==
    ASSUME IsFiniteSet(Item), IndInv,
           NEW b \in Batch, NEW selection \in SUBSET Item, Start(b, selection)
    PROVE  StepsLeft' = 11 * Cardinality(selection) + 5
<1>1. \A i \in Item : batchOf[i] # b
  BY DEF IndInv, ItemsHaveBatches, Start
<1>2. \A i \in Item : /\ batchOf'[i] = IF i \in selection THEN b ELSE batchOf[i]
                      /\ itemState'[i] = IF i \in selection THEN "pending" ELSE itemState[i]
  BY DEF Start
<1>3. Pending' = selection
  BY <1>1, <1>2 DEF Pending, Start
<1>4. materialized' = {} /\ pc' = "nextImport"
  BY DEF Start
<1>5. Cardinality(materialized') = 0
  BY <1>4, FS_EmptySet
<1>6. CallbackLeft' = 5
  BY <1>4 DEF CallbackLeft
<1>7. StepsLeft' = 11 * Cardinality(selection) + 7 * 0 + 5
  BY <1>3, <1>5, <1>6 DEF StepsLeft
<1>8. Cardinality(selection) \in Nat
  BY FS_Subset, FS_CardinalityType
<1> QED BY <1>7, <1>8

(* Every import of finitely many files comes to an end after a number of    *)
(* steps its selection fixes, whatever fails or is cancelled meanwhile: no  *)
(* loop of the pipeline can go round again without using up a file.         *)
THEOREM Advances == ASSUME IsFiniteSet(Item) PROVE Spec => ImportAdvances
<1>1. ASSUME IndInv, [Next]_vars
      PROVE  /\ \A b \in Batch, selection \in SUBSET Item :
                    Start(b, selection) => StepsLeft' = 11 * Cardinality(selection) + 5
             /\ Cancel => StepsLeft' = StepsLeft
             /\ WorkerStep \/ MainStep => StepsLeft' < StepsLeft
  <2>1. TypeOK'
    BY <1>1, IndStep DEF IndInv
  <2>2. Cancel => StepsLeft' = StepsLeft
    BY DEF Cancel, StepsLeft, Pending, CallbackLeft, WorkerLeft, rows, pipeline, lists
  <2>3. WorkerStep \/ MainStep => StepsLeft' < StepsLeft
    BY <1>1, <2>1, WorkerStepAdvances, ImportStepAdvances, ParseStepAdvances, EndAdvances DEF MainStep
  <2> QED BY <1>1, <2>2, <2>3, StartIsBounded
<1>2. IndInv /\ [Next]_vars =>
        [/\ \A b \in Batch, selection \in SUBSET Item :
              Start(b, selection) => StepsLeft' = 11 * Cardinality(selection) + 5
         /\ Cancel => StepsLeft' = StepsLeft
         /\ WorkerStep \/ MainStep => StepsLeft' < StepsLeft]_vars
  BY <1>1
<1> QED BY <1>2, Inductive, PTL DEF Spec, ImportAdvances

(* The pipeline of a running handle has a callback to come (and reaches its *)
(* end, by Advances) unless it stopped in one of two ways: a step of the    *)
(* main thread failed, or a file of the batch has a content that was parsed *)
(* before.  Whatever is cancelled, fails in a worker or was left behind by  *)
(* an earlier process does not stop it.                                     *)
THEOREM StopsOnException == Spec => []StopsOnlyOnException
<1>1. Init => StopsOnlyOnException
  BY DEF Init, StopsOnlyOnException
<1>2. ASSUME IndInv, StopsOnlyOnException, [Next]_vars
      PROVE  StopsOnlyOnException'
  <2>1. ASSUME NEW i \in Item, RefuseParse(i) PROVE StopsOnlyOnException'
    BY <2>1 DEF RefuseParse, StopsOnlyOnException, IsRefused, rows, lists
  <2>2. CASE CallbackFault
    BY <2>2 DEF CallbackFault, StopsOnlyOnException, Running
  <2>3. CASE pc = "stuck"
    <3>1. ASSUME NEW i \in Item, IsRefused(i), handle' = "running" PROVE IsRefused(i)'
      <4>1. UNCHANGED <<materialized, artifact>>
        BY <2>3, <3>1, <1>2
           DEF Running, Next, WorkerStep, BeginWork, Materialize,
               ParseFile, WorkerFault, workerOnly, Start, Cancel, MainStep, ImportStep, NextImport,
               ImportFailed, CancelRemaining, ImportCompleted, ImportCancelled, MarkParsing,
               ParseStep, BeginParse, RefuseParse, SkipParse, Announce, PromoteDerived, RegisterSuccess,
               RegisterFailure, CancelAttempt, RecordParse, Finish, FinishParsed, FinishCancelled,
               FinishUnrecorded, Finalize, CallbackFault, Restart, vars, rows, pipeline, lists, IndInv, PipelineIsPlaced,
               Waiting, Attempting
      <4> QED BY <3>1, <4>1 DEF IsRefused
    <3>2. handle' = "running" => handle = "running" /\ pc' = "stuck"
      BY <2>3, <1>2
         DEF Running, Next, WorkerStep, BeginWork, Materialize,
             ParseFile, WorkerFault, workerOnly, Start, Cancel, MainStep, ImportStep, NextImport,
             ImportFailed, CancelRemaining, ImportCompleted, ImportCancelled, MarkParsing,
             ParseStep, BeginParse, RefuseParse, SkipParse, Announce, PromoteDerived, RegisterSuccess,
             RegisterFailure, CancelAttempt, RecordParse, Finish, FinishParsed, FinishCancelled,
             FinishUnrecorded, Finalize, CallbackFault, Restart, vars, pipeline, user, IndInv, PipelineIsPlaced,
             Waiting, Attempting
    <3> QED BY <1>2, <2>3, <3>1, <3>2 DEF StopsOnlyOnException, Running
  <2>4. ASSUME pc # "stuck", ~\E i \in Item : RefuseParse(i), ~CallbackFault
        PROVE  handle' = "running" => Running'
    BY <1>2, <2>4
       DEF StopsOnlyOnException, Running, Next, WorkerStep, BeginWork, Materialize,
           ParseFile, WorkerFault, workerOnly, Start, Cancel, MainStep, ImportStep, NextImport,
           ImportFailed, CancelRemaining, ImportCompleted, ImportCancelled, MarkParsing,
           ParseStep, BeginParse, SkipParse, Announce, PromoteDerived, RegisterSuccess,
           RegisterFailure, CancelAttempt, RecordParse, Finish, FinishParsed, FinishCancelled,
           FinishUnrecorded, Finalize, Restart, vars, pipeline, user, IndInv, TypeOK, PipelineTypeOK
  <2> QED BY <2>1, <2>2, <2>3, <2>4 DEF StopsOnlyOnException
<1> QED BY <1>1, <1>2, Inductive, PTL DEF Spec

=============================================================================

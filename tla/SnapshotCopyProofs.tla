------------------------- MODULE SnapshotCopyProofs -------------------------
(***************************************************************************)
(* Proofs about SnapshotCopy, for any number of items, any contents, any   *)
(* writer of the source and any faults.                                    *)
(***************************************************************************)
EXTENDS SnapshotCopy, SequenceTheorems, TLAPS

-----------------------------------------------------------------------------
(* The inductive invariant *)

File == [data : Content, stamp : Nat]
Stamped == [stamp : Nat, id : Nat \cup {None}]
PCs == {"idle", "open", "copy", "compare", "staged", "link", "unlink", "verify",
        "done", "failed"}

ItemRecord == [pc : PCs, pre : Stamped \cup {None}, fd : Nat,
               after : Stamped \cup {None}, hash : Content \cup {None}]

DiskTyped ==
    /\ hints \in BOOLEAN
    /\ files \in Seq(File)
    /\ source \in 1..Len(files)
    /\ final \in [Content -> Content \cup {None}]

WorkTyped ==
    /\ staging \in [Item -> Seq(Byte) \cup {None}]
    /\ item \in [Item -> ItemRecord]

TypeOK == DiskTyped /\ WorkTyped

\* The bytes copied so far are those of the file opened, unless it has been
\* written since the stat that came before.
Prefix(i) ==
    /\ staging[i] \in Seq(Byte) /\ Len(staging[i]) <= Chunks
    /\ files[item[i].fd].stamp = item[i].pre.stamp
         => \A k \in 1..Len(staging[i]) : staging[i][k] = files[item[i].fd].data[k]

CopyInv(i) ==
    /\ item[i].pc = "open" => item[i].pre \in Stamped
    /\ item[i].pc \in {"copy", "compare"} =>
         /\ item[i].pre \in Stamped
         /\ item[i].fd \in 1..Len(files)
         /\ item[i].pre.id = IF hints THEN item[i].fd ELSE None
         /\ item[i].pre.stamp <= files[item[i].fd].stamp
         /\ Prefix(i)
    /\ item[i].pc = "compare" =>
         /\ Len(staging[i]) = Chunks
         /\ item[i].after \in Stamped
    /\ item[i].pc \in {"staged", "link"} =>
         item[i].hash = staging[i] /\ item[i].hash \in Content
    /\ item[i].pc \in {"unlink", "verify"} => item[i].hash \in Content

IndInv == TypeOK /\ \A i \in Item : CopyInv(i)

-----------------------------------------------------------------------------
(* Types *)

LEMMA FileType ==
    ASSUME files \in Seq(File), NEW f \in 1..Len(files)
    PROVE  files[f] \in File /\ files[f].data \in Content /\ files[f].stamp \in Nat
<1>1. files[f] \in File
  OBVIOUS
<1> QED
  BY <1>1 DEF File

LEMMA StatType == ASSUME DiskTyped, NEW f \in 1..Len(files) PROVE Stat(f) \in Stamped
<1>1. files[f].stamp \in Nat
  BY FileType DEF DiskTyped
<1>2. (IF hints THEN f ELSE None) \in Nat \cup {None}
  OBVIOUS
<1> QED
  BY <1>1, <1>2 DEF Stat, Stamped

LEMMA WholeCopyIsContent ==
    ASSUME NEW s \in Seq(Byte), Len(s) = Chunks PROVE s \in Content
  BY Sizes DEF Content

\* What a step may make of the record of an item.
LEMMA RecordType ==
    ASSUME NEW r \in ItemRecord, NEW pc \in PCs, NEW s \in Stamped, NEW f \in Nat,
           NEW h \in Content
    PROVE  /\ [r EXCEPT !.pc = pc] \in ItemRecord
           /\ [r EXCEPT !.pre = s] \in ItemRecord
           /\ [r EXCEPT !.fd = f] \in ItemRecord
           /\ [r EXCEPT !.after = s] \in ItemRecord
           /\ [r EXCEPT !.hash = h] \in ItemRecord
  BY DEF ItemRecord

LEMMA GotoType ==
    ASSUME item \in [Item -> ItemRecord], NEW i \in Item, NEW pc \in PCs, Goto(i, pc)
    PROVE  item' \in [Item -> ItemRecord]
<1>1. item[i] \in ItemRecord
  OBVIOUS
<1>2. PICK r \in ItemRecord : item' = [item EXCEPT ![i] = r]
  <2>1. [item[i] EXCEPT !.pc = pc] \in ItemRecord
    BY <1>1 DEF ItemRecord
  <2> QED
    BY <2>1 DEF Goto
<1> QED
  BY <1>2

LEMMA InitType == Init => TypeOK
<1> SUFFICES ASSUME Init PROVE TypeOK
  OBVIOUS
<1>1. PICK data \in Content : files = << [data |-> data, stamp |-> 1] >>
  BY DEF Init
<1>2. files \in Seq(File) /\ Len(files) = 1
  BY <1>1 DEF File
<1>3. Idle \in ItemRecord
  BY DEF Idle, PCs, ItemRecord
<1> QED
  BY <1>2, <1>3 DEF Init, TypeOK, DiskTyped, WorkTyped

LEMMA DiskType == IndInv /\ [Next]_vars => DiskTyped'
<1> SUFFICES ASSUME IndInv, [Next]_vars PROVE DiskTyped'
  OBVIOUS
<1> USE DEF DiskTyped
<1>0. DiskTyped
  BY DEF IndInv, TypeOK
<1>1. ASSUME UNCHANGED disk PROVE DiskTyped'
  BY <1>0, <1>1 DEF disk
<1>2. ASSUME NEW i \in Item, Copying(i) PROVE DiskTyped'
  <2>1. UNCHANGED disk
    BY <1>2 DEF Copying, Begin, Open, CopyChunk, CloseSource, Compare, CopyFails
  <2> QED
    BY <1>1, <2>1
<1>3. ASSUME NEW i \in Item, Promoting(i) PROVE DiskTyped'
  <2>1. CASE Link(i)
    <3>1. staging[i] \in Content /\ item[i].hash \in Content
      BY <2>1 DEF Link, At, IndInv, CopyInv
    <3> QED
      BY <1>0, <2>1, <3>1 DEF Link
  <2>2. CASE ~Link(i)
    <3>1. UNCHANGED disk
      BY <1>3, <2>2 DEF Promoting, Reuse, Promote, Unlink, Verify
    <3> QED
      BY <1>1, <3>1
  <2> QED
    BY <2>1, <2>2
<1>4. ASSUME NEW chunk \in 1..Chunks, NEW byte \in Byte, WriteSource(chunk, byte)
      PROVE  DiskTyped'
  <2>1. files[source] \in File /\ files[source].data \in Content /\ files[source].stamp \in Nat
    BY <1>0, FileType
  <2>2. [files[source].data EXCEPT ![chunk] = byte] \in Content
    BY <2>1 DEF Content
  <2>3. PICK written \in File : files' = [files EXCEPT ![source] = written]
    <3>1. [data |-> [files[source].data EXCEPT ![chunk] = byte],
           stamp |-> files[source].stamp + 1] \in File
      BY <2>1, <2>2 DEF File
    <3> QED
      BY <1>4, <3>1 DEF WriteSource
  <2>4. files' \in Seq(File) /\ Len(files') = Len(files)
    BY <1>0, <2>3
  <2> QED
    BY <1>0, <1>4, <2>4 DEF WriteSource
<1>5. ASSUME NEW data \in Content, NEW stamp \in 1..MaxWrites, ReplaceSource(data, stamp)
      PROVE  DiskTyped'
  <2>1. PICK new \in File : files' = Append(files, new)
    BY <1>5 DEF ReplaceSource, File
  <2>2. files' \in Seq(File) /\ Len(files') = Len(files) + 1
    BY <1>0, <2>1
  <2> QED
    BY <1>0, <1>5, <2>2 DEF ReplaceSource
<1>6. ASSUME NEW hash \in Content, NEW data \in Content, Damage(hash, data) PROVE DiskTyped'
  BY <1>0, <1>6 DEF Damage
<1>7. CASE Crash
  BY <1>1, <1>7 DEF Crash
<1>8. CASE UNCHANGED vars
  BY <1>1, <1>8 DEF vars
<1> QED
  BY <1>2, <1>3, <1>4, <1>5, <1>6, <1>7, <1>8 DEF Next, Environment

LEMMA WorkType == IndInv /\ [Next]_vars => WorkTyped'
<1> SUFFICES ASSUME IndInv, [Next]_vars PROVE WorkTyped'
  OBVIOUS
<1> USE DEF WorkTyped
<1>0. DiskTyped /\ WorkTyped
  BY DEF IndInv, TypeOK
<1>1. ASSUME NEW i \in Item, NEW r \in ItemRecord, item' = [item EXCEPT ![i] = r]
      PROVE  item' \in [Item -> ItemRecord]
  BY <1>0, <1>1
<1>2. ASSUME NEW i \in Item, \E pc \in PCs : Goto(i, pc)
      PROVE  item' \in [Item -> ItemRecord]
  BY <1>0, <1>2, GotoType
<1>3. ASSUME NEW i \in Item, CleanUp(i) \/ UNCHANGED staging
      PROVE  staging' \in [Item -> Seq(Byte) \cup {None}]
  BY <1>0, <1>3 DEF CleanUp
<1>4. ASSUME NEW i \in Item, Begin(i) PROVE WorkTyped'
  <2>1. Stat(source) \in Stamped
    BY <1>0, StatType DEF DiskTyped
  <2>2. item' = [item EXCEPT ![i] = [[item[i] EXCEPT !.pc = "open"] EXCEPT !.pre = Stat(source)]]
    BY <1>0, <1>4 DEF Begin
  <2>3. [[item[i] EXCEPT !.pc = "open"] EXCEPT !.pre = Stat(source)] \in ItemRecord
    BY <1>0, <2>1 DEF ItemRecord, PCs
  <2> QED
    BY <1>0, <1>1, <1>4, <2>2, <2>3 DEF Begin
<1>5. ASSUME NEW i \in Item, Open(i) PROVE WorkTyped'
  <2>1. CASE Goto(i, "failed") /\ UNCHANGED staging
    BY <1>0, <1>2, <2>1 DEF PCs
  <2>2. CASE /\ item' = [item EXCEPT ![i].pc = "copy", ![i].fd = source]
             /\ staging' = [staging EXCEPT ![i] = << >>]
    <3>1. item' = [item EXCEPT ![i] = [[item[i] EXCEPT !.pc = "copy"] EXCEPT !.fd = source]]
      BY <1>0, <2>2
    <3>2. [[item[i] EXCEPT !.pc = "copy"] EXCEPT !.fd = source] \in ItemRecord
      <4>1. source \in Nat
        BY <1>0 DEF DiskTyped
      <4>2. item[i] \in ItemRecord
        BY <1>0
      <4> QED
        BY <4>1, <4>2 DEF ItemRecord, PCs
    <3>3. << >> \in Seq(Byte)
      OBVIOUS
    <3> QED
      BY <1>0, <1>1, <2>2, <3>1, <3>2, <3>3
  <2> QED
    BY <1>5, <2>1, <2>2 DEF Open
<1>6. ASSUME NEW i \in Item, CopyChunk(i) PROVE WorkTyped'
  <2>1. staging[i] \in Seq(Byte) /\ item[i].fd \in 1..Len(files)
    BY <1>6 DEF CopyChunk, At, IndInv, CopyInv, Prefix
  <2>2. Len(staging[i]) + 1 \in 1..Chunks
    BY <1>6, <2>1, Sizes DEF CopyChunk
  <2>3. files[item[i].fd].data \in Content
    BY <1>0, <2>1, FileType DEF DiskTyped
  <2>4. files[item[i].fd].data[Len(staging[i]) + 1] \in Byte
    BY <2>2, <2>3 DEF Content
  <2>5. Append(staging[i], files[item[i].fd].data[Len(staging[i]) + 1]) \in Seq(Byte)
    BY <2>1, <2>4
  <2> QED
    BY <1>0, <1>6, <2>5 DEF CopyChunk
<1>7. ASSUME NEW i \in Item, CloseSource(i) PROVE WorkTyped'
  <2>1. Stat(item[i].fd) \in Stamped
    BY <1>0, <1>7, StatType DEF CloseSource, At, IndInv, CopyInv
  <2>2. item' = [item EXCEPT ![i] =
                   [[item[i] EXCEPT !.pc = "compare"] EXCEPT !.after = Stat(item[i].fd)]]
    BY <1>0, <1>7 DEF CloseSource
  <2>3. [[item[i] EXCEPT !.pc = "compare"] EXCEPT !.after = Stat(item[i].fd)] \in ItemRecord
    BY <1>0, <2>1 DEF ItemRecord, PCs
  <2> QED
    BY <1>0, <1>1, <1>7, <2>2, <2>3 DEF CloseSource
<1>8. ASSUME NEW i \in Item, Compare(i) PROVE WorkTyped'
  <2>1. staging[i] \in Content
    BY <1>8, WholeCopyIsContent DEF Compare, At, IndInv, CopyInv, Prefix
  <2>2. [[item[i] EXCEPT !.pc = "staged"] EXCEPT !.hash = staging[i]] \in ItemRecord
    BY <1>0, <2>1 DEF ItemRecord, PCs
  <2>3. CASE SourceUnchanged(i)
    <3>1. item' = [item EXCEPT ![i] =
                     [[item[i] EXCEPT !.pc = "staged"] EXCEPT !.hash = staging[i]]]
      BY <1>0, <1>8, <2>3 DEF Compare
    <3> QED
      BY <1>0, <1>1, <1>8, <2>2, <2>3, <3>1 DEF Compare
  <2>4. CASE ~SourceUnchanged(i)
    BY <1>2, <1>3, <1>8, <2>4 DEF Compare, PCs
  <2> QED
    BY <2>3, <2>4
<1>9. ASSUME NEW i \in Item, CopyFails(i) PROVE WorkTyped'
  BY <1>2, <1>3, <1>9 DEF CopyFails, PCs
<1>10. ASSUME NEW i \in Item, Promoting(i) PROVE WorkTyped'
  <2>1. \E pc \in PCs : Goto(i, pc)
    BY <1>10 DEF Promoting, Reuse, Promote, Link, Unlink, Verify, PCs
  <2>2. CleanUp(i) \/ UNCHANGED staging
    BY <1>10 DEF Promoting, Reuse, Promote, Link, Unlink, Verify
  <2> QED
    BY <1>2, <1>3, <2>1, <2>2
<1>11. CASE Crash
  <2>1. ASSUME NEW i \in Item PROVE [item[i] EXCEPT !.pc = "failed"] \in ItemRecord
    BY <1>0 DEF ItemRecord, PCs
  <2> QED
    BY <1>0, <1>11, <2>1 DEF Crash
<1>12. CASE UNCHANGED <<staging, item>>
  BY <1>0, <1>12
<1> QED
  BY <1>4, <1>5, <1>6, <1>7, <1>8, <1>9, <1>10, <1>11, <1>12
     DEF Next, Copying, Environment, WriteSource, ReplaceSource, Damage, vars
-----------------------------------------------------------------------------
(* The copy holds what was read *)

LEMMA CopyStep == IndInv /\ [Next]_vars => \A j \in Item : CopyInv(j)'
<1> SUFFICES ASSUME IndInv, [Next]_vars, NEW j \in Item PROVE CopyInv(j)'
  OBVIOUS
<1>0. /\ DiskTyped /\ CopyInv(j) /\ hints' = hints
      /\ item \in [Item -> ItemRecord] /\ staging \in [Item -> Seq(Byte) \cup {None}]
  <2>1. hints' = hints
    BY DEF Next, Copying, Promoting, Environment, Begin, Open, CopyChunk, CloseSource, Compare,
           CopyFails, Reuse, Promote, Link, Unlink, Verify, WriteSource, ReplaceSource, Damage,
           Crash, vars, disk
  <2> QED
    BY <2>1 DEF IndInv, TypeOK, WorkTyped
<1>1. ASSUME item'[j] = item[j], staging'[j] = staging[j], files' = files PROVE CopyInv(j)'
  BY <1>0, <1>1 DEF CopyInv, Prefix
<1>2. ASSUME item'[j].pc \in {"idle", "done", "failed"} PROVE CopyInv(j)'
  BY <1>2 DEF CopyInv
<1>3. item[j] \in ItemRecord
  BY <1>0
<1>4. ASSUME Goto(j, "failed") \/ Goto(j, "done") PROVE CopyInv(j)'
  BY <1>0, <1>2, <1>3, <1>4 DEF Goto, ItemRecord
<1>5. ASSUME NEW i \in Item, i # j, Copying(i) \/ Promoting(i) PROVE CopyInv(j)'
  <2>1. item'[j] = item[j] /\ staging'[j] = staging[j] /\ files' = files
    BY <1>0, <1>5 DEF Copying, Promoting, Begin, Open, CopyChunk, CloseSource, Compare,
         CopyFails, Reuse, Promote, Link, Unlink, Verify, Goto, CleanUp, disk
  <2> QED
    BY <1>1, <2>1
<1>6. CASE Begin(j)
  <2>1. Stat(source) \in Stamped
    BY <1>0, StatType DEF DiskTyped
  <2>2. item'[j].pc = "open" /\ item'[j].pre = Stat(source)
    BY <1>0, <1>3, <1>6 DEF Begin, ItemRecord
  <2> QED
    BY <2>1, <2>2 DEF CopyInv
<1>7. CASE Open(j)
  <2>1. CASE Goto(j, "failed")
    BY <1>4, <2>1
  <2>2. CASE ~Goto(j, "failed")
    <3>1. /\ item' = [item EXCEPT ![j].pc = "copy", ![j].fd = source]
          /\ staging' = [staging EXCEPT ![j] = << >>]
          /\ files' = files /\ At(j, "open")
          /\ Stable(item[j].pre, Stat(source), Stat(source))
      BY <1>7, <2>2 DEF Open, disk
    <3>2. item'[j].pc = "copy" /\ item'[j].fd = source /\ item'[j].pre = item[j].pre
      BY <1>0, <1>3, <3>1 DEF ItemRecord
    <3>3. item[j].pre = Stat(source) /\ item[j].pre \in Stamped
      BY <1>0, <3>1 DEF Stable, CopyInv, At
    <3>4. /\ item[j].pre.stamp = files[source].stamp
          /\ item[j].pre.id = IF hints THEN source ELSE None
      BY <3>3 DEF Stat
    <3>5. files[source].stamp \in Nat /\ source \in 1..Len(files)
      BY <1>0, FileType DEF DiskTyped
    <3>6. staging'[j] = << >>
      BY <1>0, <3>1
    <3>7. Prefix(j)'
      BY <3>6, Sizes DEF Prefix
    <3> QED
      BY <1>0, <3>1, <3>2, <3>3, <3>4, <3>5, <3>7 DEF CopyInv
  <2> QED
    BY <2>1, <2>2
<1>8. CASE CopyChunk(j)
  <2> DEFINE n == Len(staging[j]) + 1
             byte == files[item[j].fd].data[n]
  <2>1. /\ At(j, "copy") /\ n <= Chunks /\ item' = item /\ files' = files
        /\ staging' = [staging EXCEPT ![j] = Append(staging[j], byte)]
    BY <1>8 DEF CopyChunk, disk
  <2>2. Prefix(j) /\ item[j].fd \in 1..Len(files)
    BY <1>0, <2>1 DEF CopyInv, At
  <2>3. staging[j] \in Seq(Byte) /\ n \in 1..Chunks
    BY <2>1, <2>2, Sizes DEF Prefix
  <2>4. byte \in Byte
    <3>1. files[item[j].fd].data \in Content
      BY <1>0, <2>2, FileType DEF DiskTyped
    <3> QED
      BY <2>3, <3>1 DEF Content
  <2>5. /\ Append(staging[j], byte) \in Seq(Byte)
        /\ Len(Append(staging[j], byte)) = n
        /\ \A k \in 1..n : Append(staging[j], byte)[k] = IF k = n THEN byte ELSE staging[j][k]
    BY <2>3, <2>4
  <2>6. staging'[j] = Append(staging[j], byte)
    BY <1>0, <2>1
  <2>7. Prefix(j)'
    <3>1. SUFFICES ASSUME files[item[j].fd].stamp = item[j].pre.stamp
                   PROVE  \A k \in 1..n : staging'[j][k] = files[item[j].fd].data[k]
      BY <2>1, <2>5, <2>6 DEF Prefix
    <3>2. \A k \in 1..Len(staging[j]) : staging[j][k] = files[item[j].fd].data[k]
      BY <2>2, <3>1 DEF Prefix
    <3> QED
      BY <2>3, <2>5, <2>6, <3>2
  <2>8. item'[j].pc = "copy"
    BY <2>1 DEF At
  <2> QED
    BY <1>0, <2>1, <2>7, <2>8 DEF CopyInv
<1>9. CASE CloseSource(j)
  <2>1. /\ At(j, "copy") /\ Len(staging[j]) = Chunks
        /\ item' = [item EXCEPT ![j].pc = "compare", ![j].after = Stat(item[j].fd)]
        /\ files' = files /\ staging' = staging
    BY <1>9 DEF CloseSource, disk
  <2>2. /\ item'[j].pc = "compare" /\ item'[j].after = Stat(item[j].fd)
        /\ item'[j].pre = item[j].pre /\ item'[j].fd = item[j].fd
    BY <1>0, <1>3, <2>1 DEF ItemRecord
  <2>3. Stat(item[j].fd) \in Stamped
    BY <1>0, <2>1, StatType DEF CopyInv, At
  <2> QED
    BY <1>0, <2>1, <2>2, <2>3 DEF CopyInv, At, Prefix
<1>10. CASE Compare(j)
  <2>1. CASE Goto(j, "failed")
    BY <1>4, <2>1
  <2>2. CASE ~Goto(j, "failed")
    <3>1. /\ At(j, "compare") /\ staging' = staging
          /\ item' = [item EXCEPT ![j].pc = "staged", ![j].hash = staging[j]]
      BY <1>10, <2>2 DEF Compare
    <3>2. item'[j].pc = "staged" /\ item'[j].hash = staging[j]
      BY <1>0, <1>3, <3>1 DEF ItemRecord
    <3>3. staging[j] \in Content
      BY <1>0, <3>1, WholeCopyIsContent DEF CopyInv, At, Prefix
    <3> QED
      BY <3>1, <3>2, <3>3 DEF CopyInv
  <2> QED
    BY <2>1, <2>2
<1>11. CASE CopyFails(j)
  BY <1>4, <1>11 DEF CopyFails
<1>12. CASE Promoting(j)
  <2>1. CASE Goto(j, "failed") \/ Goto(j, "done")
    BY <1>4, <2>1
  <2>2. CASE ~(Goto(j, "failed") \/ Goto(j, "done"))
    <3>1. \/ At(j, "staged") /\ Goto(j, "link") /\ staging' = staging
          \/ item[j].pc \in {"link", "unlink"} /\ (Goto(j, "unlink") \/ Goto(j, "verify"))
      BY <1>12, <2>2 DEF Promoting, Reuse, Promote, Link, Unlink, Verify, At
    <3>2. ASSUME NEW pc \in PCs, Goto(j, pc)
          PROVE  item'[j].pc = pc /\ item'[j].hash = item[j].hash
      BY <1>0, <1>3, <3>2 DEF Goto, ItemRecord
    <3>3. CASE At(j, "staged") /\ Goto(j, "link") /\ staging' = staging
      BY <1>0, <3>2, <3>3 DEF CopyInv, At, PCs
    <3>4. CASE item[j].pc \in {"link", "unlink"} /\ (Goto(j, "unlink") \/ Goto(j, "verify"))
      BY <1>0, <3>2, <3>4 DEF CopyInv, PCs
    <3> QED
      BY <3>1, <3>3, <3>4
  <2> QED
    BY <2>1, <2>2
<1>13. ASSUME NEW chunk \in 1..Chunks, NEW byte \in Byte, WriteSource(chunk, byte)
       PROVE  CopyInv(j)'
  <2>1. item' = item /\ staging' = staging
    BY <1>13 DEF WriteSource
  <2>2. source \in 1..Len(files) /\ files[source].stamp \in Nat /\ files \in Seq(File)
    BY <1>0, FileType DEF DiskTyped
  <2>3. /\ Len(files') = Len(files)
        /\ files'[source].stamp = files[source].stamp + 1
        /\ \A f \in 1..Len(files) : f # source => files'[f] = files[f]
    BY <1>13, <2>2 DEF WriteSource
  <2>4. CASE item[j].pc \in {"copy", "compare"}
    <3>1. item[j].fd \in 1..Len(files) /\ item[j].pre \in Stamped
      BY <1>0, <2>4 DEF CopyInv
    <3>2. item[j].pre.stamp \in Nat /\ item[j].pre.stamp <= files[item[j].fd].stamp
      BY <1>0, <2>4, <3>1 DEF CopyInv, Stamped
    <3>3. item[j].fd = source => files'[item[j].fd].stamp > item[j].pre.stamp
      BY <2>2, <2>3, <3>2
    <3>4. Prefix(j)'
      BY <1>0, <2>1, <2>2, <2>3, <2>4, <3>1, <3>2, <3>3 DEF CopyInv, Prefix
    <3>5. item[j].pre.stamp <= files'[item[j].fd].stamp
      <4>1. CASE item[j].fd = source
        BY <2>2, <2>3, <3>2, <4>1
      <4>2. CASE item[j].fd # source
        BY <2>3, <3>1, <3>2, <4>2
      <4> QED
        BY <4>1, <4>2
    <3> QED
      BY <1>0, <2>1, <2>3, <2>4, <3>1, <3>4, <3>5 DEF CopyInv
  <2>5. CASE item[j].pc \notin {"copy", "compare"}
    BY <1>0, <2>1, <2>5 DEF CopyInv
  <2> QED
    BY <2>4, <2>5
<1>14. ASSUME NEW data \in Content, NEW stamp \in 1..MaxWrites, ReplaceSource(data, stamp)
       PROVE  CopyInv(j)'
  <2>1. item' = item /\ staging' = staging
    BY <1>14 DEF ReplaceSource
  <2>2. PICK new : files' = Append(files, new)
    BY <1>14 DEF ReplaceSource
  <2>3. /\ Len(files') = Len(files) + 1
        /\ \A f \in 1..Len(files) : files'[f] = files[f]
    BY <1>0, <2>2 DEF DiskTyped
  <2>4. CASE item[j].pc \in {"copy", "compare"}
    <3>1. /\ item[j].fd \in 1..Len(files) /\ item[j].fd \in 1..Len(files')
          /\ files'[item[j].fd] = files[item[j].fd]
      <4>1. item[j].fd \in 1..Len(files) /\ Len(files) \in Nat
        BY <1>0, <2>4 DEF CopyInv, DiskTyped
      <4> QED
        BY <2>3, <4>1
    <3> QED
      BY <1>0, <2>1, <2>4, <3>1 DEF CopyInv, Prefix
  <2>5. CASE item[j].pc \notin {"copy", "compare"}
    BY <1>0, <2>1, <2>5 DEF CopyInv
  <2> QED
    BY <2>4, <2>5
<1>15. ASSUME NEW hash \in Content, NEW data \in Content, Damage(hash, data) PROVE CopyInv(j)'
  BY <1>1, <1>15 DEF Damage
<1>16. CASE Crash
  <2>1. CASE Active(j)
    <3>1. item'[j] = [item[j] EXCEPT !.pc = "failed"]
      BY <1>16, <2>1 DEF Crash
    <3> QED
      BY <1>2, <1>3, <3>1 DEF ItemRecord
  <2>2. CASE ~Active(j)
    <3>1. item'[j] = item[j] /\ staging' = staging /\ files' = files
      BY <1>16, <2>2 DEF Crash, disk
    <3> QED
      BY <1>1, <3>1
  <2> QED
    BY <2>1, <2>2
<1>17. CASE UNCHANGED vars
  BY <1>1, <1>17 DEF vars, disk
<1> QED
  BY <1>5, <1>6, <1>7, <1>8, <1>9, <1>10, <1>11, <1>12, <1>13, <1>14, <1>15, <1>16, <1>17
     DEF Next, Copying, Environment

(* A copy, its stat and its hash fit together in every reachable state. *)
THEOREM Inductive == Spec => []IndInv
<1>1. Init => IndInv
  <2> SUFFICES ASSUME Init PROVE IndInv
    OBVIOUS
  <2>1. \A i \in Item : item[i] = Idle
    BY DEF Init
  <2> QED
    BY <2>1, InitType DEF IndInv, CopyInv, Idle
<1>2. IndInv /\ [Next]_vars => IndInv'
  BY DiskType, WorkType, CopyStep DEF IndInv, TypeOK
<1> QED
  BY <1>1, <1>2, PTL DEF Spec

-----------------------------------------------------------------------------
(* What is promised *)

LEMMA AcceptedCopy ==
    IndInv /\ [Next]_vars =>
      \A i \in Item : item'[i].hash # item[i].hash =>
        item'[i].hash = files[source].data /\ item'[i].hash = staging[i]
<1> SUFFICES ASSUME IndInv, [Next]_vars, NEW i \in Item, item'[i].hash # item[i].hash
             PROVE  item'[i].hash = files[source].data /\ item'[i].hash = staging[i]
  OBVIOUS
<1>0. DiskTyped /\ CopyInv(i) /\ item \in [Item -> ItemRecord] /\ item[i] \in ItemRecord
  BY DEF IndInv, TypeOK, WorkTyped
<1>1. ASSUME NEW k \in Item, NEW pc, Goto(k, pc) PROVE FALSE
  <2>1. item'[i].hash = item[i].hash
    BY <1>0, <1>1 DEF Goto, ItemRecord
  <2> QED
    BY <2>1
<1>2. ~UNCHANGED item
  OBVIOUS
<1>3. PICK k \in Item : Copying(k)
  <2>1. ASSUME NEW k \in Item, Promoting(k) PROVE FALSE
    BY <1>1, <2>1 DEF Promoting, Reuse, Promote, Link, Unlink, Verify
  <2>2. ~Crash
    <3> SUFFICES ASSUME Crash PROVE FALSE
      OBVIOUS
    <3>1. item'[i] = item[i] \/ item'[i] = [item[i] EXCEPT !.pc = "failed"]
      BY DEF Crash
    <3> QED
      BY <1>0, <3>1 DEF ItemRecord
  <2> QED
    BY <1>2, <2>1, <2>2 DEF Next, Environment, WriteSource, ReplaceSource, Damage, vars
<1>4. ~(Begin(k) \/ Open(k) \/ CopyChunk(k) \/ CloseSource(k) \/ CopyFails(k))
  <2>1. ~Begin(k)
    BY <1>0 DEF Begin, ItemRecord
  <2>2. ~Open(k)
    BY <1>0, <1>1 DEF Open, ItemRecord
  <2>3. ~CloseSource(k)
    BY <1>0 DEF CloseSource, ItemRecord
  <2> QED
    BY <1>1, <1>2, <2>1, <2>2, <2>3 DEF CopyChunk, CopyFails
<1>5. Compare(k) /\ SourceUnchanged(k)
  BY <1>1, <1>3, <1>4 DEF Copying, Compare
<1>6. item' = [item EXCEPT ![k].pc = "staged", ![k].hash = staging[k]] /\ At(k, "compare")
  BY <1>5 DEF Compare
<1>7. k = i
  BY <1>0, <1>6
<1>8. item'[i].hash = staging[i]
  BY <1>0, <1>6, <1>7 DEF ItemRecord
<1>9. /\ Stable(item[i].pre, item[i].after, Stat(source)) /\ (hints \/ files[source].data = staging[i])
  BY <1>5, <1>7 DEF SourceUnchanged
<1>10. CASE hints
  <2>1. Stat(source) = item[i].pre
    BY <1>9 DEF Stable
  <2>2. item[i].pre.id = item[i].fd /\ Prefix(i) /\ Len(staging[i]) = Chunks
    BY <1>0, <1>6, <1>7, <1>10 DEF CopyInv, At
  <2>3. source = item[i].fd /\ files[source].stamp = item[i].pre.stamp
    BY <1>10, <2>1, <2>2 DEF Stat
  <2>4. files[source].data \in Content
    BY <1>0, FileType DEF DiskTyped
  <2>5. staging[i] \in Content
    BY <2>2, WholeCopyIsContent DEF Prefix
  <2>6. \A m \in 1..Chunks : staging[i][m] = files[source].data[m]
    BY <2>2, <2>3 DEF Prefix
  <2>7. staging[i] = files[source].data
    <3>1. PICK D : D = 1..Chunks
      OBVIOUS
    <3>2. PICK f \in [D -> Byte] : f = staging[i]
      BY <2>5, <3>1 DEF Content
    <3>3. PICK g \in [D -> Byte] : g = files[source].data
      BY <2>4, <3>1 DEF Content
    <3>4. \A m \in D : f[m] = g[m]
      BY <2>6, <3>1, <3>2, <3>3
    <3>5. f = g
      BY ONLY <3>4, f \in [D -> Byte], g \in [D -> Byte]
    <3> QED
      BY <3>2, <3>3, <3>5
  <2> QED
    BY <1>8, <2>7
<1>11. CASE ~hints
  BY <1>8, <1>9, <1>11
<1> QED
  BY <1>10, <1>11

(* No snapshot holds a mixture: what a copy is accepted as is what the source
   holds at that moment, whatever wrote or replaced it before. *)
THEOREM CopiesAreTrue == Spec => CopyIsTheSource
<1>1. IndInv /\ [Next]_vars =>
        [\A i \in Item : item'[i].hash # item[i].hash =>
           item'[i].hash = files[source].data /\ item'[i].hash = staging[i]]_vars
  BY AcceptedCopy
<1> QED
  BY <1>1, Inductive, PTL DEF Spec, CopyIsTheSource

(* A snapshot is written once. *)
THEOREM SnapshotsStay == Spec => StoredIsKept
<1>1. IndInv /\ [Next]_vars =>
        \A hash \in Content : final[hash] # None =>
          final'[hash] = final[hash] \/ \E data \in Content : Damage(hash, data)
  <2> SUFFICES ASSUME IndInv, [Next]_vars, NEW hash \in Content, final[hash] # None
               PROVE  final'[hash] = final[hash] \/ \E data \in Content : Damage(hash, data)
    OBVIOUS
  <2>0. final \in [Content -> Content \cup {None}]
    BY DEF IndInv, TypeOK, DiskTyped
  <2>1. ASSUME NEW i \in Item, Link(i) PROVE final'[hash] = final[hash]
    <3>1. \/ UNCHANGED final
          \/ Stored(i) = None /\ final' = [final EXCEPT ![item[i].hash] = staging[i]]
      BY <2>1 DEF Link
    <3> QED
      BY <2>0, <3>1 DEF Stored
  <2>2. ASSUME NEW h \in Content, NEW data \in Content, Damage(h, data)
        PROVE  final'[hash] = final[hash] \/ Damage(hash, data)
    BY <2>0, <2>2 DEF Damage
  <2>3. CASE UNCHANGED final
    BY <2>3
  <2>4. CASE ~UNCHANGED final
    <3>1. \/ \E i \in Item : Link(i)
          \/ \E h \in Content, data \in Content : Damage(h, data)
      BY <2>4 DEF Next, Copying, Promoting, Environment, Begin, Open, CopyChunk, CloseSource,
         Compare, CopyFails, Reuse, Promote, Unlink, Verify, WriteSource, ReplaceSource,
         Crash, vars, disk
    <3> QED
      BY <2>1, <2>2, <3>1
  <2> QED
    BY <2>3, <2>4
<1>2. IndInv /\ [Next]_vars =>
        [\A hash \in Content : final[hash] # None =>
           final'[hash] = final[hash] \/ \E data \in Content : Damage(hash, data)]_vars
  BY <1>1
<1> QED
  BY <1>2, Inductive, PTL DEF Spec, StoredIsKept

(* An import that succeeded has its bytes under its hash and nothing in staging. *)
THEOREM MaterializedHolds == Spec => MaterializedIsStored
<1>1. IndInv /\ [Next]_vars =>
        \A i \in Item : item[i].pc # "done" /\ item'[i].pc = "done" =>
          final'[item[i].hash] = item[i].hash /\ staging'[i] = None
  <2> SUFFICES ASSUME IndInv, [Next]_vars, NEW i \in Item,
                      item[i].pc # "done", item'[i].pc = "done"
               PROVE  final'[item[i].hash] = item[i].hash /\ staging'[i] = None
    OBVIOUS
  <2>0. /\ item \in [Item -> ItemRecord] /\ item[i] \in ItemRecord
        /\ staging \in [Item -> Seq(Byte) \cup {None}]
    BY DEF IndInv, TypeOK, WorkTyped
  <2>1. ASSUME NEW k \in Item, NEW pc, Goto(k, pc) PROVE k = i /\ pc = "done"
    BY <2>0, <2>1 DEF Goto, ItemRecord
  <2>2. PICK k \in Item : Reuse(k) \/ Verify(k)
    <3>1. ASSUME NEW k \in Item PROVE ~Begin(k) /\ ~Open(k) /\ ~CloseSource(k) /\ ~Compare(k)
      <4>1. ~Begin(k)
        BY <2>0, SMTT(30) DEF Begin, ItemRecord
      <4>2. ~Open(k)
        <5>1. ~Goto(k, "failed")
          BY <2>1
        <5>2. item' # [item EXCEPT ![k].pc = "copy", ![k].fd = source]
          BY <2>0 DEF ItemRecord
        <5> QED
          BY <5>1, <5>2 DEF Open
      <4>3. ~CloseSource(k)
        BY <2>0 DEF CloseSource, ItemRecord
      <4>4. ~Compare(k)
        BY <2>0, <2>1 DEF Compare, ItemRecord
      <4> QED
        BY <4>1, <4>2, <4>3, <4>4
    <3>2. ASSUME NEW k \in Item
          PROVE  ~CopyChunk(k) /\ ~CopyFails(k) /\ ~Promote(k) /\ ~Link(k) /\ ~Unlink(k)
      BY <2>1 DEF CopyChunk, CopyFails, Promote, Link, Unlink
    <3>3. ~Crash
      <4> SUFFICES ASSUME Crash PROVE FALSE
        OBVIOUS
      <4>1. item'[i] = item[i] \/ item'[i] = [item[i] EXCEPT !.pc = "failed"]
        BY DEF Crash
      <4> QED
        BY <2>0, <4>1 DEF ItemRecord
    <3> QED
      BY <3>1, <3>2, <3>3 DEF Next, Copying, Promoting, Environment, WriteSource,
           ReplaceSource, Damage, vars
  <2>3. UNCHANGED final
    BY <2>2 DEF Reuse, Verify, disk
  <2>4. CASE Reuse(k)
    <3>1. Stored(k) = item[k].hash /\ Goto(k, "done") /\ CleanUp(k)
      BY <2>1, <2>4 DEF Reuse
    <3>2. k = i
      BY <2>1, <3>1
    <3> QED
      BY <2>0, <2>3, <3>1, <3>2 DEF Stored, CleanUp
  <2>5. CASE Verify(k)
    <3>1. /\ PromotionState(k) \in {"completed", "resume_verification"} /\ Goto(k, "done")
          /\ PromotionState(k) = "completed" => UNCHANGED staging
          /\ PromotionState(k) = "resume_verification" => CleanUp(k)
      BY <2>1, <2>5 DEF Verify
    <3>2. k = i
      BY <2>1, <3>1
    <3>3. Stored(k) = item[k].hash /\ (PromotionState(k) = "completed" => staging[k] = None)
      BY <3>1 DEF PromotionState
    <3> QED
      BY <2>0, <2>3, <3>1, <3>2, <3>3 DEF Stored, CleanUp
  <2> QED
    BY <2>2, <2>4, <2>5
<1>2. IndInv /\ [Next]_vars =>
        [\A i \in Item : item[i].pc # "done" /\ item'[i].pc = "done" =>
           final'[item[i].hash] = item[i].hash /\ staging'[i] = None]_vars
  BY <1>1
<1> QED
  BY <1>2, Inductive, PTL DEF Spec, MaterializedIsStored
=============================================================================

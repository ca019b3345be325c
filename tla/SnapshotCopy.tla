---------------------------- MODULE SnapshotCopy ----------------------------
(***************************************************************************)
(* How the bytes of an external file become a snapshot: the copy into      *)
(* staging (stream_stable_copy), its promotion without replacing           *)
(* (promote_no_replace, verify_promotion_outcome) and what                 *)
(* SnapshotStore.materialize makes of the outcome.                         *)
(*                                                                         *)
(* The worker threads of several items, the program that writes the source *)
(* and the disk interleave between any two system calls.  A file is a      *)
(* sequence of Chunks chunks, its stat is a stamp (size and modification   *)
(* time) and an identity, which some file systems do not have.             *)
(* A snapshot is stored under its hash, here under its content.            *)
(***************************************************************************)
EXTENDS Naturals, Sequences

CONSTANTS
    Item,        \* import items, each with its staging file
    Byte, None,
    Chunks,      \* chunks of a file
    MaxWrites,   \* bound: writes to the source, and replacements of it
    MaxFaults    \* bound: failing system calls, crashes and damaged snapshots

ASSUME Sizes == Chunks \in Nat \ {0} /\ None \notin [1..Chunks -> Byte]

Content == [1..Chunks -> Byte]

VARIABLES
    hints,    \* whether stat gives a file identity (st_ino)
    files,    \* every file the source path has named: contents and stamp
    source,   \* the file the source path names now
    staging,  \* the partial file of an item, None when there is none
    final,    \* sources/sha256/...: what is stored under a hash
    item,     \* the worker of an item
    writes, faults

disk == <<hints, files, source, final, writes>>
vars == <<disk, staging, item, faults>>

Fault == faults < MaxFaults /\ faults' = faults + 1

\* pre: the stat before the file was opened; fd: the file opened; after: its stat
\* when the copy was done; hash: what the copy was found to hold.
Idle == [pc |-> "idle", pre |-> None, fd |-> 0, after |-> None, hash |-> None]
Stat(f) == [stamp |-> files[f].stamp, id |-> IF hints THEN f ELSE None]

Goto(i, pc) == item' = [item EXCEPT ![i].pc = pc]
At(i, pc) == item[i].pc = pc

-----------------------------------------------------------------------------
(* stream_stable_copy *)

Begin(i) ==
    /\ At(i, "idle")
    /\ item' = [item EXCEPT ![i].pc = "open", ![i].pre = Stat(source)]
    /\ UNCHANGED <<disk, staging, faults>>

\* _stable_identity: an identity that stat does not give is equal to itself.
Stable(pre, opened, post) == pre = opened /\ post = opened

Open(i) ==
    /\ At(i, "open")
    /\ IF Stable(item[i].pre, Stat(source), Stat(source))
       THEN /\ item' = [item EXCEPT ![i].pc = "copy", ![i].fd = source]
            /\ staging' = [staging EXCEPT ![i] = << >>]
       ELSE Goto(i, "failed") /\ UNCHANGED staging
    /\ UNCHANGED <<disk, faults>>

CopyChunk(i) ==
    LET next == Len(staging[i]) + 1 IN
    /\ At(i, "copy") /\ next <= Chunks
    /\ staging' = [staging EXCEPT ![i] = Append(@, files[item[i].fd].data[next])]
    /\ UNCHANGED <<disk, item, faults>>

CloseSource(i) ==
    /\ At(i, "copy") /\ Len(staging[i]) = Chunks
    /\ item' = [item EXCEPT ![i].pc = "compare", ![i].after = Stat(item[i].fd)]
    /\ UNCHANGED <<disk, staging, faults>>

\* Mutation of SourceUnchanged: the path is not looked at again
SourceUnchangedMut(i) == item[i].pre = item[i].after

\* Without an identity the source is read once more and its hash compared.
SourceUnchanged(i) ==
    /\ Stable(item[i].pre, item[i].after, Stat(source))
    /\ hints \/ files[source].data = staging[i]

CleanUp(i) == staging' = [staging EXCEPT ![i] = None]

Compare(i) ==
    /\ At(i, "compare")
    /\ IF SourceUnchanged(i)
       THEN /\ item' = [item EXCEPT ![i].pc = "staged", ![i].hash = staging[i]]
            /\ UNCHANGED <<staging, faults>>
       ELSE /\ Goto(i, "failed")
            /\ \/ CleanUp(i) /\ UNCHANGED faults
               \/ UNCHANGED staging /\ Fault
    /\ UNCHANGED disk

\* An OSError of the copy: what was written is removed, if that succeeds.
CopyFails(i) ==
    /\ item[i].pc \in {"open", "copy", "compare"} /\ Fault
    /\ Goto(i, "failed") /\ (CleanUp(i) \/ UNCHANGED staging)
    /\ UNCHANGED disk

-----------------------------------------------------------------------------
(* materialize and promote_no_replace *)

Stored(i) == final[item[i].hash]

\* Mutation of Reuse: the file stored under the hash is not verified
ReuseMut(i) ==
    /\ At(i, "staged") /\ Stored(i) # None
    /\ Goto(i, "done") /\ CleanUp(i)
    /\ UNCHANGED <<disk, faults>>

\* The content is stored already: it is read again before it is trusted.
Reuse(i) ==
    /\ At(i, "staged") /\ Stored(i) # None
    /\ IF Stored(i) = item[i].hash
       THEN Goto(i, "done") /\ CleanUp(i)
       ELSE Goto(i, "failed") /\ UNCHANGED staging
    /\ UNCHANGED <<disk, faults>>

Promote(i) ==
    /\ At(i, "staged") /\ Stored(i) = None
    /\ Goto(i, "link")
    /\ UNCHANGED <<disk, staging, faults>>

\* Mutation of Link: os.replace
LinkMut(i) ==
    /\ At(i, "link")
    /\ final' = [final EXCEPT ![item[i].hash] = staging[i]]
    /\ Goto(i, "unlink")
    /\ UNCHANGED <<hints, files, source, writes, staging, faults>>

\* os.link refuses a path that exists; after any other error, which may come
\* before or after the link was made, both files are looked at.
Link(i) ==
    LET linked == final' = [final EXCEPT ![item[i].hash] = staging[i]] IN
    /\ At(i, "link")
    /\ \/ Stored(i) = None /\ linked /\ Goto(i, "unlink") /\ UNCHANGED faults
       \/ Stored(i) # None /\ Goto(i, "failed") /\ UNCHANGED <<final, faults>>
       \/ Stored(i) = None /\ (linked \/ UNCHANGED final) /\ Goto(i, "verify") /\ Fault
    /\ UNCHANGED <<hints, files, source, writes, staging>>

Unlink(i) ==
    /\ At(i, "unlink") /\ Goto(i, "verify")
    /\ \/ CleanUp(i) /\ UNCHANGED faults
       \/ UNCHANGED staging /\ Fault
    /\ UNCHANGED disk

\* Mutation of PromotionState: the final file is not read
PromotionStateMut(i) == IF staging[i] = None THEN "completed" ELSE "resume_verification"

PromotionState(i) ==
    CASE Stored(i) = item[i].hash /\ staging[i] = None -> "completed"
      [] Stored(i) = item[i].hash /\ staging[i] = item[i].hash -> "resume_verification"
      [] Stored(i) = None /\ staging[i] = item[i].hash -> "safe_cleanup"
      [] OTHER -> "manual_attention_required"

\* What materialize does with the outcome; its unlink may fail too.
Verify(i) ==
    /\ At(i, "verify")
    /\ \/ /\ PromotionState(i) = "completed" /\ Goto(i, "done")
          /\ UNCHANGED <<staging, faults>>
       \/ /\ PromotionState(i) = "resume_verification"
          /\ \/ Goto(i, "done") /\ CleanUp(i) /\ UNCHANGED faults
             \/ Goto(i, "failed") /\ UNCHANGED staging /\ Fault
       \/ /\ PromotionState(i) = "safe_cleanup" /\ Goto(i, "failed")
          /\ \/ CleanUp(i) /\ UNCHANGED faults
             \/ UNCHANGED staging /\ Fault
       \/ /\ PromotionState(i) = "manual_attention_required" /\ Goto(i, "failed")
          /\ UNCHANGED <<staging, faults>>
    /\ UNCHANGED disk

-----------------------------------------------------------------------------
(* The program that writes the source, and the machine *)

Active(i) == item[i].pc \notin {"idle", "done", "failed"}

\* Part of the file is written in place: the modification time moves on.
WriteSource(chunk, byte) ==
    LET data == [files[source].data EXCEPT ![chunk] = byte] IN
    /\ writes < MaxWrites /\ writes' = writes + 1
    /\ files' = [files EXCEPT ![source] = [data |-> data, stamp |-> @.stamp + 1]]
    /\ UNCHANGED <<hints, source, final, staging, item, faults>>

\* Another file is moved over the path; its modification time is any.
ReplaceSource(data, stamp) ==
    /\ writes < MaxWrites /\ writes' = writes + 1
    /\ files' = Append(files, [data |-> data, stamp |-> stamp])
    /\ source' = Len(files) + 1
    /\ UNCHANGED <<hints, final, staging, item, faults>>

\* A snapshot is damaged on the disk.
Damage(hash, data) ==
    /\ final[hash] # None /\ data # final[hash] /\ Fault
    /\ final' = [final EXCEPT ![hash] = data]
    /\ UNCHANGED <<hints, files, source, writes, staging, item>>

\* The process dies; the items of the next one are others.
Crash ==
    /\ \E i \in Item : Active(i)
    /\ Fault
    /\ item' = [i \in Item |-> IF Active(i) THEN [item[i] EXCEPT !.pc = "failed"] ELSE item[i]]
    /\ UNCHANGED <<disk, staging>>

-----------------------------------------------------------------------------
Init ==
    /\ hints \in BOOLEAN
    /\ \E data \in Content : files = << [data |-> data, stamp |-> 1] >>
    /\ source = 1
    /\ staging = [i \in Item |-> None]
    /\ final = [hash \in Content |-> None]
    /\ item = [i \in Item |-> Idle]
    /\ writes = 0 /\ faults = 0

Copying(i) ==
    Begin(i) \/ Open(i) \/ CopyChunk(i) \/ CloseSource(i) \/ Compare(i) \/ CopyFails(i)

Promoting(i) == Reuse(i) \/ Promote(i) \/ Link(i) \/ Unlink(i) \/ Verify(i)

Environment ==
    \/ \E chunk \in 1..Chunks, byte \in Byte : WriteSource(chunk, byte)
    \/ \E data \in Content, stamp \in 1..MaxWrites : ReplaceSource(data, stamp)
    \/ \E hash \in Content, data \in Content : Damage(hash, data)
    \/ Crash

Next == (\E i \in Item : Copying(i) \/ Promoting(i)) \/ Environment

Spec == Init /\ [][Next]_vars

-----------------------------------------------------------------------------
(* Properties *)

(* A copy is accepted only while the source path names a file with exactly the
   bytes copied: never a mixture of two states of a file that is written during
   the copy, and never the contents of a file that another one has replaced, on a
   file system with or without file identities. *)
CopyIsTheSource ==
    [][\A i \in Item : item'[i].hash # item[i].hash =>
         item'[i].hash = files[source].data /\ item'[i].hash = staging[i]]_vars

(* A snapshot is written once: no import and no retry changes a file that is
   stored under a hash (the disk may). *)
StoredIsKept ==
    [][\A hash \in Content : final[hash] # None =>
         final'[hash] = final[hash] \/ \E data \in Content : Damage(hash, data)]_vars

(* When materialize returns, the file under the hash holds the bytes the item
   copied, although another item may have stored it and the disk may have
   damaged it before, and nothing is left in staging. *)
MaterializedIsStored ==
    [][\A i \in Item : item[i].pc # "done" /\ item'[i].pc = "done" =>
         final'[item[i].hash] = item[i].hash /\ staging'[i] = None]_vars

=============================================================================

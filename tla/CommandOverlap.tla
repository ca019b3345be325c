---------------------------- MODULE CommandOverlap ----------------------------
(***************************************************************************)
(* What the recovery design promises of protected commands that do not     *)
(* overlap, in a pipeline that lets them overlap.  The design serializes   *)
(* them behind a write/backup lock; the code takes no lock, so whether two *)
(* commands were ever in flight at once is part of the history.            *)
(*                                                                         *)
(* The history variable restricts nothing: every behaviour of              *)
(* ProtectedCommand is one of this module, with any number of workers.  It *)
(* forgets: the change of a command that had nobody beside it ends the     *)
(* consequences of every overlap before it.                                *)
(***************************************************************************)
EXTENDS RecoveryReconciliation

VARIABLE overlap
    \* "now":  two commands have been in flight at once, and since then the
    \*         pipeline has not been empty
    \* "past": it has been, but no command that was alone has committed yet
    \* "none": one has, or no two commands have ever been in flight at once

OneInFlight == \A c, d \in Command : wpc[c] # "none" /\ wpc[d] # "none" => c = d

OverlapInit == overlap = "none"

(* A command in flight while overlap is not "now" has been alone from its   *)
(* submission on.                                                           *)
OverlapStep ==
    overlap' = IF ~OneInFlight' \/ (overlap = "now" /\ InFlight' # {}) THEN "now"
               ELSE IF overlap = "now" THEN "past"
               ELSE IF log' # log THEN "none"
               ELSE overlap

OverlapNext == Next /\ OverlapStep

OverlapSpec == Init /\ OverlapInit /\ [][OverlapNext]_<<vars, overlap>>

-----------------------------------------------------------------------------
(* Properties.                                                              *)

\* No recovery point is registered under the generation g or a later one.
Unregistered(g) == \A c \in Command : pointGen[c] < g

NotBehind ==
    IsImage(current) =>
        \/ current.owner = slot["current"]
        \/ Unregistered(current.gen) /\ current.upTo = Len(log)

(* Recovery generations increase (next_generation, the generation check of  *)
(* create_verified_recovery): from the previous slot to the current one,    *)
(* and from the previous image on disk to the current one, also between two *)
(* renames, after faults and after restarts.  Only an overlap breaks it, by *)
(* two commands that read one generation, and only until a command that is  *)
(* alone has committed.                                                     *)
GenerationsOrdered == overlap = "none" => GenerationsIncrease

(* A command that met no other one changes the domain over its own image in *)
(* recovery/current, taken from exactly the state its transaction starts    *)
(* from, whatever overlaps, failures and crashes came before it.            *)
LoneCommitOverItsOwnImage ==
    [][overlap # "now" =>
          \A c \in Command : Commits(c) => OverItsOwnImage(c)]_<<vars, overlap>>

(* The image in recovery/current is never behind the database: it is that   *)
(* of the current slot, or of a command whose point is not registered yet,  *)
(* and then newer than every registered point and a copy of everything      *)
(* committed.  So it is when a rotation has ended and its command was       *)
(* cancelled meanwhile, failed to register, or died with the process.       *)
CurrentIsNotBehind == overlap = "none" => NotBehind

(* Reconciliation restores the last state wherever the process ends, with   *)
(* directories of failed and interrupted commands around.  After an overlap *)
(* it may take the image of the command that started later for the newer.   *)
LastStateIsRestored == overlap = "none" => RestoresTheLastState

(* A lost update needs two actors: a domain row changed over a row_version  *)
(* its command was not submitted against belongs to an editor that read the *)
(* row again (update_paper, update_idea, the submission editor) while       *)
(* another command was in flight beside it.                                 *)
LostUpdateNeedsOverlap ==
    [][\A c \in Command :
          Commits(c) /\ version[target[c]] # job[c].expected =>
              overlap = "now" /\ job[c].basis = "reread"]_<<vars, overlap>>

-----------------------------------------------------------------------------
(* The inductive invariant behind them, beside IndInv.  The images differ   *)
(* by the generation they were requested under and by how much of the log   *)
(* they hold; each conjunct says of one kind of place what can be there.    *)

(* At any time: a command has no image before its own worker has copied the *)
(* database.                                                                *)
NoImageYet ==
    \A c \in Command : status[c] = "absent" \/ wpc[c] \in {"queued", "copying"} =>
        \A d \in Disk : IsImage(d) => d.owner # c

\* The first generation, or one that a registered point allowed to be read.
Follows(g) == g = 1 \/ \E c \in Command : pointGen[c] + 1 >= g

(* At any time: no generation in use is further than one from a registered  *)
(* one.                                                                     *)
GenerationsFollow ==
    \A c \in Command :
        /\ wpc[c] # "none" => Follows(job[c].gen)
        /\ IsImage(staging[c]) => Follows(staging[c].gen)

(* While a command is alone: the point it registered is the newest, also    *)
(* among the staging directories other commands left.                       *)
IsNewestPoint(c) ==
    /\ pointGen[c] = job[c].gen
    /\ slot["current"] = c
    /\ \A d \in Command : d # c => pointGen[d] < job[c].gen
    /\ \A d \in Command : IsImage(staging[d]) => staging[d].gen <= job[c].gen

(* The generation read at the submission is still nobody else's when the    *)
(* command registers its point.                                             *)
GenerationIsFresh ==
    \A c \in Command : wpc[c] # "none" =>
        IF main = c THEN IsNewestPoint(c) ELSE Unregistered(job[c].gen)

(* Between its steps a rotation finds the directories as it left them.      *)
OwnImage(c) == Image(c, job[c].gen, Len(log))
OlderThan(c, d) == IsImage(d) => d.gen < job[c].gen

RotationIsAlone ==
    \A c \in Command :
        /\ wpc[c] \in {"copying", "verified", "retire", "demote"} => OlderThan(c, current)
        /\ wpc[c] \in {"verified", "retire", "demote", "promote"} => staging[c] = OwnImage(c)
        /\ wpc[c] = "demote" => previous = Absent
        /\ wpc[c] = "promote" => current = Absent
        /\ wpc[c] \in {"drop", "completed"} => current = OwnImage(c)
        /\ wpc[c] \in {"promote", "drop", "completed"} => OlderThan(c, previous)

(* Nothing moves the row_version the command was submitted against.         *)
VersionsHold ==
    \A c \in Command : wpc[c] # "none" => version[target[c]] = job[c].expected

\* An image of the present state, or of the command that led to it.
Latest(d) == d.upTo = Len(log) \/ (log # << >> /\ d.owner = log[Len(log)])

(* Without the consequences of an overlap: the newest image is in its       *)
(* place, and no point is registered beyond it.                             *)
NewestIsLatest ==
    /\ IsImage(current) => Latest(current) /\ Unregistered(current.gen + 1)
    /\ current = Absent /\ IsImage(previous) => Latest(previous) /\ Unregistered(previous.gen + 1)

(* A staging directory, also one that a crash left, is newer than every     *)
(* registered point only if nothing was committed since it was copied.      *)
StagingIsOrdered ==
    \A c \in Command : IsImage(staging[c]) /\ Unregistered(staging[c].gen) =>
        main = Null /\ staging[c].upTo = Len(log)

AnyTimeInv == NoImageYet /\ GenerationsFollow

AloneInv == OneInFlight /\ GenerationIsFresh /\ RotationIsAlone /\ VersionsHold

OrderInv ==
    GenerationsIncrease /\ NewestIsLatest /\ StagingIsOrdered /\ NotBehind

OverlapInv ==
    /\ overlap \in {"none", "now", "past"}
    /\ AnyTimeInv
    /\ overlap # "now" => AloneInv
    /\ overlap = "none" => OrderInv

=============================================================================

----------------------- MODULE RecoveryReconciliation -----------------------
(***************************************************************************)
(* What reconcile_recovery_directories makes of the recovery directory in  *)
(* every state the pipeline of ProtectedCommand can leave it in.  Nothing  *)
(* in the program calls it; the question is what a start that called it    *)
(* before anything else would restore.                                     *)
(***************************************************************************)
EXTENDS ProtectedCommand

Verified(directories) == {d \in directories : IsImage(d)}

\* The verified staging directories with the largest generation.
Newest ==
    LET images == Verified({staging[c] : c \in Command}) IN
    {d \in images : \A e \in images : e.gen <= d.gen}

Result(state, cur, prev) == [state |-> state, current |-> cur, previous |-> prev]

ManualAttention == Result("manual_attention_required", current, previous)

\* Mutation of Promotable: the generation is not compared with previous.
PromotableMut == Newest

(* Staging is promoted only over an older previous image. *)
Promotable == {d \in Newest : IsImage(previous) => d.gen > previous.gen}

AcceptCurrent ==
    Result(IF IsImage(previous) THEN "current_and_previous_verified" ELSE "current_verified",
             current, previous)

(* The outcomes: one, but for two staging directories of one generation, and
   for an empty current directory, which os.rename replaces or refuses. *)
Reconciled ==
    IF IsImage(current) THEN {AcceptCurrent}
    ELSE IF Promotable # {}
         THEN {Result(IF IsImage(previous) THEN "current_and_previous_verified"
                        ELSE "current_verified", d, previous) : d \in Promotable}
              \cup (IF current = Absent THEN {} ELSE {ManualAttention})
    ELSE IF IsImage(previous) /\ current = Absent
         THEN {Result("current_verified", previous, Absent)}
    ELSE {ManualAttention}

-----------------------------------------------------------------------------
(* No rotation has failed or died half way since the last one that completed,
   or the start after it has not yet put an empty directory where current was.
   A retired image is none of the candidates. *)
InReach ==
    /\ current # Unverified
    /\ IsImage(current) \/ IsImage(previous) \/ \E c \in Command : wpc[c] = "promote"

(* Whenever the process ends, between any two renames, with staging directories
   of earlier crashes around, reconciliation finds an image that restores
   everything up to the last change, or that change as well: it is the image of
   the last committed command, or it was taken after that command committed. *)
RestoresTheLastState ==
    InReach /\ log # << >> =>
      \A r \in Reconciled :
        /\ IsImage(r.current)
        /\ r.current.owner = log[Len(log)] \/ r.current.upTo = Len(log)

=============================================================================

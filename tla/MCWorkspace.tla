---------------------------- MODULE MCWorkspace ----------------------------
(* Model values, starting databases and bounds for Workspace.              *)
EXTENDS Workspace

CONSTANTS p1, i1, s1, a, b, x, y

OnePaper == {p1}
OneIdea == {i1}
OneSubmission == {s1}
OneSnapshot == {a}
TwoSnapshots == {a, b}
TwoTexts == {x, y}
OneText == {x}
NoOne == {}

Rows(class, verbs) == {<<class, v>> : v \in verbs}
Crud == {"create", "update", "soft_delete", "restore"}

EntityOperations ==
    Rows("paper", Crud) \cup Rows("idea", Crud) \cup Rows("submission", Crud \cup {"transition"})
        \cup {<<"paper_version", "retract">>, <<"undo", "compensate">>}

VersionOperations ==
    Rows("candidate", {"confirm", "reject", "reconsider"})
        \cup Rows("paper_version", {"retract", "change_context"})
        \cup Rows("paper", {"set_current_version", "soft_delete"})
        \cup {<<"relation", "retract">>, <<"undo", "compensate">>, <<"detector", "register">>, <<"detector", "supersede">>}

(* A pair the detector reports in both directions. *)
Pairs == {<<a, b>>, <<b, a>>}

Empty == [row |-> [e \in Entity |-> NoRow], version |-> [v \in Version |-> NoRow], edge |-> {}]

(* A workspace that migration 0004 adopted: a paper with an active version, and
   a submission of that version that is ready. *)
AdoptedPaper == [text |-> x, current |-> None, deleted |-> 0, rv |-> 1]
AdoptedSubmission == [paper |-> p1, text |-> x, status |-> "ready", version |-> <<p1, a>>,
                      submitted |-> FALSE, deleted |-> 0, rv |-> 1]
AdoptedVersion == [state |-> "active", context |-> None, rv |-> 1]
Adopted(submissions) ==
    [row |-> [e \in Entity |-> IF e \in Paper THEN AdoptedPaper
                               ELSE IF e \in submissions THEN AdoptedSubmission ELSE NoRow],
     version |-> [v \in Version |-> IF v[2] = a THEN AdoptedVersion ELSE NoRow],
     edge |-> {}]

EmptyOrAdopted == {Empty, Adopted(Submission)}
OnlyAdopted == {Adopted({})}

=============================================================================

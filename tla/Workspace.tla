------------------------------ MODULE Workspace ------------------------------
(***************************************************************************)
(* What the protected commands of the workspace do to its tables: papers,  *)
(* ideas and submissions, the memberships of snapshots in papers (paper    *)
(* versions), the successor relations between them, the candidates of the  *)
(* detector, and the compensating undo.                                    *)
(*                                                                         *)
(* ProtectedCommand models how a command gets from its submission to its   *)
(* commit; here that protocol is two steps.  A command is submitted, when  *)
(* bootstrap.py reads what it reads on the user's click and the envelope   *)
(* row is persisted; any time later, when its recovery point exists, the   *)
(* builder and the transaction run in one callback on the main thread, so  *)
(* they are one step here.  Between the two other commands commit.  The    *)
(* step is in three layers, as the code is: the builder makes mutations    *)
(* (the ...Plan operators), the repository accepts or refuses them (the    *)
(* ...Accepted operators), and the coordinator writes rows and audit.      *)
(*                                                                         *)
(* Left out: title, status and content of a row are one field, text, and   *)
(* deadlines are left out; labels of versions are always distinct; active  *)
(* relations of other types and evidence on an entity, which only adopted  *)
(* v0.1 data can hold, are taken to be none.                               *)
(***************************************************************************)
EXTENDS Naturals, Sequences, FiniteSets

CONSTANTS
    Paper, Idea, Submission,  \* the identities a create command may draw
    Snapshot,                 \* imported source snapshots
    Candidate,                \* the <<earlier, later>> pairs the detector can report
    Text,                     \* the contents of a title, venue or idea
    Operation,                \* the command types in use, as <<aggregate, verb>>
    InitialWorkspaces,        \* the databases a session can start from
    MaxCommands,              \* bound: commands submitted
    MaxInFlight,              \* bound: commands between submission and end
    None, NoRow

VARIABLES
    row,        \* tables papers, ideas and submissions
    version,    \* table paper_versions; a version is its paper and snapshot
    edge,       \* the version_successor_of rows of entity_relations
    cand,       \* table paper_version_candidates
    log         \* table application_commands with its audit_changes

vars == <<row, version, edge, cand, log>>

ASSUME Identities ==
    /\ Paper \cap Idea = {} /\ Paper \cap Submission = {} /\ Idea \cap Submission = {}
    /\ MaxCommands \in Nat

Entity == Paper \cup Idea \cup Submission
Version == Paper \X Snapshot
PaperOf(v) == v[1]

PreSubmission == {"preparing", "ready"}
Status == PreSubmission \cup {"submitted", "editorial_review", "external_review",
            "revision", "accepted", "rejected", "withdrawn", "no_response"}

\* A deletion time is the number of the command that deleted the row, 0 for none.
Stamp == 0 .. MaxCommands

RowVersion == Nat \ {0}

PaperRow == [text : Text, current : Version \cup {None}, deleted : Stamp, rv : RowVersion]
IdeaRow == [text : Text, deleted : Stamp, rv : RowVersion]
SubmissionRow == [paper : Paper, text : Text, status : Status,
                  version : Version \cup {None}, submitted : BOOLEAN,
                  deleted : Stamp, rv : RowVersion]
Row == PaperRow \cup IdeaRow \cup SubmissionRow

VersionRow == [state : {"active", "retracted"}, context : Snapshot \cup {None}, rv : RowVersion]
EdgeRow == [id : Stamp, later : Version, earlier : Version,
            state : {"active", "retracted"}, rv : RowVersion]
CandidateRow == [status : {"pending", "confirmed", "rejected", "superseded"}, rv : RowVersion]

ASSUME Tables ==
    /\ Candidate \subseteq Snapshot \X Snapshot
    /\ NoRow \notin Row \cup VersionRow \cup CandidateRow

-----------------------------------------------------------------------------
(* Reading the tables *)

Exists(e) == row[e] # NoRow
IsActive(v) == version[v] # NoRow /\ version[v].state = "active"
Visible(e) == Exists(e) /\ row[e].deleted = 0
ActiveEdges == {e \in edge : e.state = "active"}
EdgesOf(p) == {e \in ActiveEdges : PaperOf(e.later) = p}
TouchingEdges(v) == {e \in ActiveEdges : v \in {e.later, e.earlier}}
VisibleSubmissionsOf(p) == {s \in Submission : Visible(s) /\ row[s].paper = p}
VisibleSubmissionsAt(v) == {s \in Submission : Visible(s) /\ row[s].version = v}

InFlight == {i \in DOMAIN log : log[i].phase = "running"}
Committed == {i \in DOMAIN log : log[i].phase = "committed"}
UndosOf(i) == {j \in DOMAIN log : log[j].undoOf = i}

(* A path of successor relations leads from a to b: every set that holds a
   and is closed under the relations holds b. *)
Closed(S, edges) == \A e \in edges : e.later \in S => e.earlier \in S
Reachable(a, b, edges) ==
    \A S \in SUBSET Version : a \in S /\ Closed(S, edges) => b \in S

-----------------------------------------------------------------------------
(* Submission: what bootstrap.py reads on the click, and the envelope row *)

Envelope(type, target, arg, seen, undoOf) ==
    [type |-> type, target |-> target, arg |-> arg, seen |-> seen,
     undoOf |-> undoOf, phase |-> "running", change |-> None]

UniqueUndo(o) == UndosOf(o) = {}

PersistEnvelope(type, target, arg, seen, undoOf) ==
    /\ type \in Operation
    /\ Len(log) < MaxCommands /\ Cardinality(InFlight) < MaxInFlight
    /\ undoOf # 0 => UniqueUndo(undoOf)
    /\ log' = Append(log, Envelope(type, target, arg, seen, undoOf))
    /\ UNCHANGED <<row, version, edge, cand>>

\* uuid4(): no row and no earlier command has the identity.
Fresh(e) == ~ Exists(e) /\ \A i \in DOMAIN log : log[i].target # e

SubmitPaper ==
    \/ \E p \in Paper, t \in Text :
         Fresh(p) /\ PersistEnvelope(<<"paper", "create">>, p, t, None, 0)
    \/ \E p \in Paper : Exists(p) /\
         \/ \E t \in Text : PersistEnvelope(<<"paper", "update">>, p, t, None, 0)
         \/ PersistEnvelope(<<"paper", "soft_delete">>, p, None, None, 0)
         \/ PersistEnvelope(<<"paper", "restore">>, p, None, None, 0)

SubmitIdea ==
    \/ \E i \in Idea, t \in Text :
         Fresh(i) /\ PersistEnvelope(<<"idea", "create">>, i, t, None, 0)
    \/ \E i \in Idea : Exists(i) /\
         \/ \E t \in Text : PersistEnvelope(<<"idea", "update">>, i, t, None, 0)
         \/ PersistEnvelope(<<"idea", "soft_delete">>, i, None, None, 0)
         \/ PersistEnvelope(<<"idea", "restore">>, i, None, None, 0)

SubmitSubmission ==
    \/ \E s \in Submission, p \in Paper, t \in Text, st \in PreSubmission :
         /\ Fresh(s) /\ Exists(p)
         /\ PersistEnvelope(<<"submission", "create">>, s,
                            [paper |-> p, text |-> t, status |-> st], None, 0)
    \/ \E s \in Submission : Exists(s) /\
         \/ \E t \in Text : PersistEnvelope(<<"submission", "update">>, s, t, None, 0)
         \/ \E st \in Status :
              PersistEnvelope(<<"submission", "transition">>, s, st, None, 0)
         \/ PersistEnvelope(<<"submission", "soft_delete">>, s, None, None, 0)
         \/ PersistEnvelope(<<"submission", "restore">>, s, None, None, 0)

SubmitCandidateDecision ==
    \E c \in Candidate : cand[c] # NoRow /\
      \/ PersistEnvelope(<<"candidate", "reject">>, c, None, None, 0)
      \/ PersistEnvelope(<<"candidate", "reconsider">>, c, None, None, 0)

SubmitConfirm ==
    \E c \in Candidate, p \in Paper :
      /\ cand[c] # NoRow /\ Exists(p)
      /\ PersistEnvelope(<<"candidate", "confirm">>, c, p, None, 0)

\* The paper's row and the version's state are kept for the builder.
SubmitSetCurrent ==
    \E v \in Version :
      /\ version[v] # NoRow
      /\ PersistEnvelope(<<"paper", "set_current_version">>, PaperOf(v), v,
                         [row |-> row[PaperOf(v)], state |-> version[v].state], 0)

SubmitVersionAction ==
    \E v \in Version : version[v] # NoRow /\
      \/ \E x \in Snapshot \cup {None} :
           PersistEnvelope(<<"paper_version", "change_context">>, v, x, None, 0)
      \/ PersistEnvelope(<<"paper_version", "retract">>, v, None, None, 0)

\* The relation's row is kept for the builder.
SubmitRetractRelation ==
    \E e \in edge :
      PersistEnvelope(<<"relation", "retract">>, e.id, None, e, 0)

\* What depends on a row, as the undo history counts it.
HasDependents(e) ==
    e \in Paper /\ (VisibleSubmissionsOf(e) # {} \/ \E v \in Version : PaperOf(v) = e /\ IsActive(v))

\* The current row and its dependents are kept for the builder; a change of
\* a version, a relation or a candidate has no projection.
CurrentSnapshot(o) == IF log[o].change = None THEN NoRow ELSE row[log[o].change.entity]

SubmitUndo ==
    \E o \in Committed :
      PersistEnvelope(<<"undo", "compensate">>, o, None,
          [current |-> CurrentSnapshot(o),
           dependents |-> log[o].change # None /\ HasDependents(log[o].change.entity)], o)

Submit ==
    \/ SubmitPaper \/ SubmitIdea \/ SubmitSubmission
    \/ SubmitCandidateDecision \/ SubmitConfirm
    \/ SubmitSetCurrent \/ SubmitVersionAction \/ SubmitRetractRelation
    \/ SubmitUndo

-----------------------------------------------------------------------------
(* Builders: the mutations a command asks for, none when it is refused *)

Creation(e, r) ==
    [entity |-> e, op |-> "create", before |-> NoRow, after |-> r,
     fields |-> DOMAIN r \ {"rv"}]
Change(e, op, old, new, fields) ==
    [entity |-> e, op |-> op, before |-> old,
     after |-> [new EXCEPT !.rv = old.rv + 1], fields |-> fields]

\* Mutation of CreatePaper: row versions count from 0
CreatePaperMut(c) ==
    {Creation(c.target, [text |-> c.arg, current |-> None, deleted |-> 0, rv |-> 0])}

CreatePaper(c) ==
    {Creation(c.target, [text |-> c.arg, current |-> None, deleted |-> 0, rv |-> 1])}

CreateIdea(c) == {Creation(c.target, [text |-> c.arg, deleted |-> 0, rv |-> 1])}

CreateSubmission(c) ==
    {Creation(c.target, [paper |-> c.arg.paper, text |-> c.arg.text,
                         status |-> c.arg.status, version |-> None,
                         submitted |-> FALSE, deleted |-> 0, rv |-> 1])}

UpdatePaper(c) ==
    {Change(c.target, "update", r, [r EXCEPT !.text = c.arg], {"text"}) :
        r \in {x \in {row[c.target]} : x.deleted = 0 /\ x.text # c.arg}}

UpdateIdea(c) == UpdatePaper(c)

\* The editor sends the version the submission has, which must still be usable.
VersionAssignable(s) ==
    IF s.version = None THEN s.status \in PreSubmission
    ELSE PaperOf(s.version) = s.paper /\ IsActive(s.version)

UpdateSubmission(c) == {m \in UpdatePaper(c) : VersionAssignable(m.after)}

SoftDelete(c, now) ==
    {Change(c.target, "soft_delete", r, [r EXCEPT !.deleted = now], {"deleted"}) :
        r \in {x \in {row[c.target]} : x.deleted = 0}}

Restore(c) ==
    {Change(c.target, "restore", r, [r EXCEPT !.deleted = 0], {"deleted"}) :
        r \in {x \in {row[c.target]} : x.deleted # 0}}

SetCurrentVersion(c) ==
    {Change(c.target, "update", r, [r EXCEPT !.current = c.arg], {"current"}) :
        r \in {x \in {c.seen.row} : c.seen.state = "active"}}

Transitions ==
    [st \in Status |->
       CASE st = "preparing" -> {"ready"}
         [] st = "ready" -> {"preparing", "submitted"}
         [] st = "rejected" -> {"revision"}
         [] st = "accepted" -> {"withdrawn"}
         [] st = "withdrawn" -> {}
         [] st = "revision" -> Status \ (PreSubmission \cup {"revision"})
         [] st = "external_review" ->
              {"revision", "accepted", "rejected", "withdrawn", "no_response"}
         [] OTHER -> Status \ (PreSubmission \cup {"submitted", st})]

\* The accepted submission can be withdrawn only with a confirmation that
\* bootstrap.py never passes; the first submission time is set, and not listed
\* among the changed fields.
TransitionSubmission(c) ==
    {m \in {Change(c.target, "transition", r,
                   [r EXCEPT !.status = c.arg, !.submitted = r.submitted \/ c.arg \notin PreSubmission],
                   {"status"}) :
               r \in {x \in {row[c.target]} :
                        c.arg \in Transitions[x.status] /\ x.status # "accepted"}} :
        VersionAssignable(m.after)}

\* Mutation of Undoable: the fields are not compared
UndoableMut(o, seen) ==
    /\ log[o].undoOf = 0 /\ log[o].change # None
    /\ log[o].change.op = "create" => ~ seen.dependents

(* The preflight compares the fields the original command changed in the row
   as it was read when the undo was submitted. *)
Undoable(o, seen) ==
    /\ log[o].undoOf = 0 /\ log[o].change # None
    /\ log[o].change.op = "create" => ~ seen.dependents
    /\ \A f \in log[o].change.fields : seen.current[f] = log[o].change.after[f]

Compensated(change, current, now) ==
    IF change.op = "create"
    THEN [current EXCEPT !.deleted = now]
    ELSE [f \in DOMAIN current |->
            IF f \in change.fields THEN change.before[f] ELSE current[f]]

Compensate(c, now) ==
    {Change(ch.entity, "undo", c.seen.current, Compensated(ch, c.seen.current, now),
            IF ch.op = "create" THEN {"deleted"} ELSE ch.fields) :
        ch \in {x \in {log[c.undoOf].change} : Undoable(c.undoOf, c.seen)}}

Plan(c, now) ==
    CASE c.type = <<"paper", "create">> -> CreatePaper(c)
      [] c.type = <<"idea", "create">> -> CreateIdea(c)
      [] c.type = <<"submission", "create">> -> CreateSubmission(c)
      [] c.type = <<"paper", "set_current_version">> -> SetCurrentVersion(c)
      [] c.type = <<"submission", "transition">> -> TransitionSubmission(c)
      [] c.type = <<"undo", "compensate">> -> Compensate(c, now)
      [] c.type = <<"paper", "update">> -> UpdatePaper(c)
      [] c.type = <<"idea", "update">> -> UpdateIdea(c)
      [] c.type = <<"submission", "update">> -> UpdateSubmission(c)
      [] c.type[2] = "soft_delete" -> SoftDelete(c, now)
      [] c.type[2] = "restore" -> Restore(c)
      [] OTHER -> {}

-----------------------------------------------------------------------------
(* Repository: the mutations it lets through *)

\* Mutation of Unchanged: the row version is not compared
UnchangedMut(m) == row[m.entity] # NoRow

Unchanged(m) == row[m.entity] # NoRow /\ row[m.entity].rv = m.before.rv

NothingDependsOn(p) == VisibleSubmissionsOf(p) = {} /\ row[p].current = None

\* Mutation of PaperAccepted: the current version is not looked up
PaperAcceptedMut(m) ==
    m.op = "create" \/ (Unchanged(m) /\ (m.op = "soft_delete" => NothingDependsOn(m.entity)))

PaperAccepted(m) ==
    \/ m.op = "create"
    \/ /\ Unchanged(m)
       /\ m.op = "soft_delete" => NothingDependsOn(m.entity)
       /\ m.after.current # None =>
            PaperOf(m.after.current) = m.entity /\ IsActive(m.after.current)

IdeaAccepted(m) == m.op = "create" \/ Unchanged(m)

\* Mutation of SubmissionAccepted: status and submission time are not compared
SubmissionAcceptedMut(m) ==
    LET new == m.after IN
    /\ Visible(new.paper)
    /\ new.version # None => PaperOf(new.version) = new.paper /\ IsActive(new.version)
    /\ m.op = "create" \/ Unchanged(m)

SubmissionAccepted(m) ==
    LET new == m.after IN
    /\ Visible(new.paper)
    /\ new.version # None => PaperOf(new.version) = new.paper /\ IsActive(new.version)
    /\ IF new.status \in PreSubmission
       THEN ~ new.submitted
       ELSE new.submitted /\ new.version # None
    /\ \/ m.op = "create"
       \/ /\ Unchanged(m)
          /\ new.paper = row[m.entity].paper
          /\ row[m.entity].submitted => new.submitted
          /\ m.op = "transition" => new.status \in Transitions[row[m.entity].status]

Accepted(m) ==
    CASE m.entity \in Paper -> PaperAccepted(m)
      [] m.entity \in Idea -> IdeaAccepted(m)
      [] OTHER -> SubmissionAccepted(m)

-----------------------------------------------------------------------------
(* Coordinator: the end of a command *)

\* What later steps still read of a command that has ended.
Ended(i, phase, change) ==
    log' = [log EXCEPT ![i] = [Envelope(@.type, None, None, None, @.undoOf)
                               EXCEPT !.phase = phase, !.change = change]]

CommitRow(i) ==
    \E m \in Plan(log[i], i) :
      /\ Accepted(m)
      /\ row' = [row EXCEPT ![m.entity] = m.after]
      /\ Ended(i, "committed", m)
      /\ UNCHANGED <<version, edge, cand>>

\* Mutation of Decisions: a confirmed candidate can be reconsidered
DecisionsMut == [reject |-> {<<"pending", "rejected">>},
                 reconsider |-> {<<"rejected", "pending">>, <<"confirmed", "pending">>}]

Decisions == [reject |-> {<<"pending", "rejected">>},
              reconsider |-> {<<"rejected", "pending">>}]

Decided(c, status) ==
    cand' = [cand EXCEPT ![c] = [status |-> status, rv |-> @.rv + 1]]

DecideCandidate(i) ==
    LET c == log[i] IN
    /\ c.type[1] = "candidate" /\ c.type[2] \in DOMAIN Decisions
    /\ \E d \in Decisions[c.type[2]] :
         cand[c.target].status = d[1] /\ Decided(c.target, d[2])
    /\ Ended(i, "committed", None)
    /\ UNCHANGED <<row, version, edge>>

NewMembership == [state |-> "active", context |-> None, rv |-> 1]

\* The membership of a snapshot in a paper is taken as it is, retracted or not.
Membership(v) == IF version[v] = NoRow THEN NewMembership ELSE version[v]

EndpointsUsable(later, earlier) ==
    later # earlier /\ \A v \in {later, earlier} : Membership(v).state = "active"

\* Mutation of SuccessorAllowed: no look at the graph
SuccessorAllowedMut(later, earlier, edges) == EndpointsUsable(later, earlier)

SuccessorAllowed(later, earlier, edges) ==
    /\ EndpointsUsable(later, earlier)
    /\ ~ \E e \in edges : e.later = later /\ e.earlier = earlier
    /\ ~ Reachable(earlier, later, edges)

AddMemberships(vs) ==
    LET new == {v \in vs : version[v] = NoRow} IN
    /\ \A v \in new : Visible(PaperOf(v))
    /\ version' = [v \in Version |-> IF v \in new THEN NewMembership ELSE version[v]]

AddRelation(i, later, earlier) ==
    edge' = edge \cup {[id |-> i, later |-> later, earlier |-> earlier,
                       state |-> "active", rv |-> 1]}

\* New memberships, the relation and the decision, in one transaction.
ConfirmCandidate(i) ==
    LET c == log[i]
        earlier == <<c.arg, c.target[1]>>
        later == <<c.arg, c.target[2]>>
    IN  /\ c.type = <<"candidate", "confirm">>
        /\ cand[c.target].status = "pending"
        /\ SuccessorAllowed(later, earlier, EdgesOf(c.arg))
        /\ AddMemberships({later, earlier})
        /\ AddRelation(i, later, earlier)
        /\ Decided(c.target, "confirmed")
        /\ Ended(i, "committed", None)
        /\ UNCHANGED row

RetractVersion(i) ==
    LET c == log[i]
        v == c.target
    IN  /\ c.type = <<"paper_version", "retract">>
        /\ IsActive(v) /\ Visible(PaperOf(v))
        /\ row[PaperOf(v)].current # v /\ TouchingEdges(v) = {} /\ VisibleSubmissionsAt(v) = {}
        /\ version' = [version EXCEPT ![v].state = "retracted", ![v].rv = @ + 1]
        /\ Ended(i, "committed", None)
        /\ UNCHANGED <<row, edge, cand>>

ChangeVersionContext(i) ==
    LET c == log[i]
        v == c.target
    IN  /\ c.type = <<"paper_version", "change_context">>
        /\ IsActive(v) /\ Visible(PaperOf(v))
        /\ c.arg # None => c.arg = v[2]
        /\ c.arg # version[v].context
        /\ version' = [version EXCEPT ![v].context = c.arg, ![v].rv = @ + 1]
        /\ Ended(i, "committed", None)
        /\ UNCHANGED <<row, edge, cand>>

RetractRelation(i) ==
    LET c == log[i] IN
    /\ c.type = <<"relation", "retract">>
    /\ c.seen.state = "active" /\ c.seen \in edge
    /\ edge' = (edge \ {c.seen}) \cup {[c.seen EXCEPT !.state = "retracted", !.rv = @ + 1]}
    /\ Ended(i, "committed", None)
    /\ UNCHANGED <<row, version, cand>>

\* The recovery point could not be made, the builder refused or the
\* transaction was rolled back: one error path for all of them.
MarkCommandFailed(i) ==
    /\ Ended(i, "failed", None)
    /\ UNCHANGED <<row, version, edge, cand>>

CommitMutations(i) ==
    \/ CommitRow(i) \/ DecideCandidate(i) \/ ConfirmCandidate(i)
    \/ RetractVersion(i) \/ ChangeVersionContext(i) \/ RetractRelation(i)

-----------------------------------------------------------------------------
(* Technical writes of the detector, outside the command protocol *)

RegisterVersionCandidate(c) ==
    /\ <<"detector", "register">> \in Operation
    /\ cand[c] = NoRow
    /\ cand' = [cand EXCEPT ![c] = [status |-> "pending", rv |-> 1]]
    /\ UNCHANGED <<row, version, edge, log>>

\* No caller in src/: offered by the write port only.
SupersedeVersionCandidate(c, replacement) ==
    /\ <<"detector", "supersede">> \in Operation
    /\ c # replacement
    /\ \A x \in {c, replacement} : cand[x] # NoRow /\ cand[x].status = "pending"
    /\ cand' = [cand EXCEPT ![c] = [status |-> "superseded", rv |-> @.rv + 1]]
    /\ UNCHANGED <<row, version, edge, log>>

-----------------------------------------------------------------------------
(* In every set of versions some version has no successor relation into the set. *)
Acyclic(edges) ==
    \A S \in SUBSET Version : S # {} =>
        \E v \in S : \A e \in edges : e.later = v => e.earlier \notin S

(* A database a session starts from is one the migrations and earlier sessions
   leave: the rows have their shapes, a version has its paper, and the
   versions that rows name and relations join are usable. *)
ASSUME StartingDatabases ==
    \A w \in InitialWorkspaces :
      LET Usable(v) == w.version[v] # NoRow /\ w.version[v].state = "active"
          related == {e \in w.edge : e.state = "active"}
      IN  /\ w.row \in [Entity -> Row \cup {NoRow}]
          /\ \A p \in Paper : w.row[p] # NoRow =>
               /\ w.row[p] \in PaperRow
               /\ w.row[p].current # None =>
                    PaperOf(w.row[p].current) = p /\ Usable(w.row[p].current)
          /\ \A i \in Idea : w.row[i] \in IdeaRow \cup {NoRow}
          /\ \A s \in Submission : w.row[s] # NoRow =>
               /\ w.row[s] \in SubmissionRow
               /\ w.row[s].submitted <=> w.row[s].status \notin PreSubmission
               /\ w.row[s].submitted => w.row[s].version # None
               /\ w.row[s].deleted = 0 /\ w.row[s].version # None =>
                    PaperOf(w.row[s].version) = w.row[s].paper /\ Usable(w.row[s].version)
          /\ w.version \in [Version -> VersionRow \cup {NoRow}]
          /\ \A v \in Version : w.version[v] # NoRow => w.row[PaperOf(v)] # NoRow
          /\ w.edge \subseteq EdgeRow
          /\ \A e \in w.edge : e.id = 0
          /\ \A e \in related :
               PaperOf(e.later) = PaperOf(e.earlier) /\ Usable(e.later) /\ Usable(e.earlier)
          /\ \A e, f \in related : e.later = f.later /\ e.earlier = f.earlier => e = f
          /\ Acyclic(related)

Init ==
    \E w \in InitialWorkspaces :
      /\ row = w.row /\ version = w.version /\ edge = w.edge
      /\ cand = [c \in Candidate |-> NoRow]
      /\ log = << >>

Next ==
    \/ Submit
    \/ \E i \in InFlight : CommitMutations(i) \/ MarkCommandFailed(i)
    \/ \E c \in Candidate : RegisterVersionCandidate(c)
    \/ \E c, r \in Candidate : SupersedeVersionCandidate(c, r)

Spec == Init /\ [][Next]_vars

-----------------------------------------------------------------------------
(* Properties *)

ChangeRow ==
    [entity : Entity, op : {"create", "update", "soft_delete", "restore", "transition", "undo"},
     before : Row \cup {NoRow}, after : Row,
     fields : SUBSET {"text", "current", "deleted", "paper", "status", "version", "submitted"}]

(* Every table holds rows of its own shape, and every command is in one phase. *)
TypeOK ==
    /\ row \in [Entity -> Row \cup {NoRow}]
    /\ \A p \in Paper : row[p] \in PaperRow \cup {NoRow}
    /\ \A i \in Idea : row[i] \in IdeaRow \cup {NoRow}
    /\ \A s \in Submission : row[s] \in SubmissionRow \cup {NoRow}
    /\ version \in [Version -> VersionRow \cup {NoRow}]
    /\ edge \subseteq EdgeRow
    /\ cand \in [Candidate -> CandidateRow \cup {NoRow}]
    /\ \A i \in DOMAIN log :
         /\ log[i].phase \in {"running", "committed", "failed"}
         /\ log[i].undoOf \in 0 .. i - 1
         /\ log[i].change \in ChangeRow \cup {None}

(* The current version of a paper is an active version of that paper,
   whatever retraction, choice of version or undo commits in between. *)
CurrentVersionUsable ==
    \A p \in Paper : Exists(p) /\ row[p].current # None =>
        PaperOf(row[p].current) = p /\ IsActive(row[p].current)

(* A visible submission names an active version of its own paper or none, and
   it has one, and a submission time, exactly when its status says so. *)
SubmissionVersionUsable ==
    \A s \in Submission : Exists(s) =>
        /\ row[s].submitted <=> row[s].status \notin PreSubmission
        /\ row[s].submitted => row[s].version # None
        /\ row[s].deleted = 0 /\ row[s].version # None =>
             PaperOf(row[s].version) = row[s].paper /\ IsActive(row[s].version)

(* The active successor relations of papers are acyclic, join two active
   versions of one paper, and no two of them join the same versions: a
   retraction and two confirmations planned at the same time included. *)
VersionGraphSound ==
    /\ \A e \in ActiveEdges :
         /\ PaperOf(e.later) = PaperOf(e.earlier)
         /\ IsActive(e.later) /\ IsActive(e.earlier)
    /\ \A e, f \in ActiveEdges : e.later = f.later /\ e.earlier = f.earlier => e = f
    /\ Acyclic(ActiveEdges)

(* A candidate is confirmed together with the one relation it stands for, and
   is never decided again. *)
DecisionHasOneRelation ==
    \A c \in Candidate :
        LET made == {e \in edge : e.id # 0 /\ e.earlier[2] = c[1] /\ e.later[2] = c[2]}
        IN  Cardinality(made) =
              IF cand[c] # NoRow /\ cand[c].status = "confirmed" THEN 1 ELSE 0

(* The audit of the committed commands explains every row: each change starts
   from the row the one before it left, and the row is what the last one
   left.  A write over a row that had changed since it was read breaks it. *)
AuditExplainsRows ==
    LET Audited == {i \in Committed : log[i].change # None}
        ch(i) == log[i].change
    IN  /\ \A i \in Audited :
             LET r == row[ch(i).entity] IN
             /\ ch(i).after.rv <= r.rv
             /\ ch(i).after.rv = r.rv => ch(i).after = r
        /\ \A i, j \in Audited : i # j /\ ch(i).entity = ch(j).entity =>
             /\ ch(i).after.rv # ch(j).after.rv
             /\ ch(j).op # "create" /\ ch(j).before.rv = ch(i).after.rv => ch(j).before = ch(i).after

(* An undo gives the fields of its command their old values back, hides what
   the command created, changes no other field, and only when no later
   command changed those fields. *)
UndoRestoresItsFields ==
    [][\A i \in InFlight : log[i].undoOf # 0 /\ log'[i].phase = "committed" =>
         LET ch == log[log[i].undoOf].change
             e == ch.entity
         IN  /\ \A f \in ch.fields : row[e][f] = ch.after[f]
             /\ \A f \in DOMAIN row[e] \ {"rv"} :
                  row'[e][f] = IF ch.op = "create"
                               THEN IF f = "deleted" THEN i ELSE row[e][f]
                               ELSE IF f \in ch.fields THEN ch.before[f] ELSE row[e][f]]_vars

(* A deleted paper has no visible submission. *)
DeletedPaperHasNoSubmission ==
    \A p \in Paper : Exists(p) /\ row[p].deleted # 0 => VisibleSubmissionsOf(p) = {}

=============================================================================

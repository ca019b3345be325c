--------------------------- MODULE WorkspaceProofs ---------------------------
(***************************************************************************)
(* Proofs about Workspace, for any identities, snapshots, contents and     *)
(* operations and any number of commands in flight.                        *)
(***************************************************************************)
EXTENDS Workspace, FiniteSetTheorems, TLAPS

-----------------------------------------------------------------------------
(* The log *)

\* The log is a sequence, and its commands are numbered within the bound.
LogShape == (\E S : log \in Seq(S)) /\ Len(log) <= MaxCommands

Same(i) == i \in DOMAIN log' /\ log'[i] = log[i]

LEMMA LogDomain ==
    ASSUME LogShape
    PROVE  Len(log) \in Nat /\ DOMAIN log = 1 .. Len(log) /\ \A i \in DOMAIN log : i \in Nat \ {0}
  BY DEF LogShape

LEMMA Appended ==
    ASSUME LogShape, Len(log) < MaxCommands, NEW c, log' = Append(log, c)
    PROVE  /\ LogShape'
           /\ DOMAIN log' = DOMAIN log \cup {Len(log) + 1} /\ Len(log) + 1 \notin DOMAIN log
           /\ log'[Len(log) + 1] = c
           /\ \A i \in DOMAIN log : log'[i] = log[i]
<1>1. PICK S : log \in Seq(S)
  BY DEF LogShape
<1>2. log \in Seq(S \cup {c})
  BY <1>1
<1>3. log' \in Seq(S \cup {c}) /\ Len(log') = Len(log) + 1
  BY <1>2
<1>4. log'[Len(log) + 1] = c /\ \A i \in 1 .. Len(log) : log'[i] = log[i]
  BY <1>2
<1>5. LogShape'
  BY <1>1, <1>3, Identities DEF LogShape
<1> QED
  BY <1>1, <1>3, <1>4, <1>5

LEMMA Replaced ==
    ASSUME LogShape, NEW i \in DOMAIN log, NEW c, log' = [log EXCEPT ![i] = c]
    PROVE  /\ LogShape' /\ Len(log') = Len(log)
           /\ DOMAIN log' = DOMAIN log /\ log'[i] = c
           /\ \A j \in DOMAIN log : j # i => log'[j] = log[j]
<1>1. PICK S : log \in Seq(S)
  BY DEF LogShape
<1>2. log \in Seq(S \cup {c})
  BY <1>1
<1>3. log' \in Seq(S \cup {c}) /\ Len(log') = Len(log)
  BY <1>2
<1>4. LogShape'
  BY <1>3 DEF LogShape
<1> QED
  BY <1>1, <1>3, <1>4

LEMMA EndedCommand ==
    ASSUME LogShape, NEW i \in DOMAIN log, NEW phase, NEW change, Ended(i, phase, change)
    PROVE  /\ LogShape' /\ Len(log') = Len(log) /\ DOMAIN log' = DOMAIN log
           /\ log'[i].type = log[i].type /\ log'[i].undoOf = log[i].undoOf
           /\ log'[i].phase = phase /\ log'[i].change = change /\ log'[i].target = None
           /\ \A j \in DOMAIN log : j # i => log'[j] = log[j]
<1> DEFINE c == [Envelope(log[i].type, None, None, None, log[i].undoOf)
                 EXCEPT !.phase = phase, !.change = change]
<1>1. log' = [log EXCEPT ![i] = c]
  BY DEF Ended
<1>2. /\ c.type = log[i].type /\ c.undoOf = log[i].undoOf /\ c.phase = phase
      /\ c.change = change /\ c.target = None
  BY DEF Envelope
<1> HIDE DEF c
<1> QED
  BY <1>1, <1>2, Replaced

-----------------------------------------------------------------------------
(* Rows *)

RowOf(e) == IF e \in Paper THEN PaperRow ELSE IF e \in Idea THEN IdeaRow ELSE SubmissionRow

\* A row that e had at some time; nothing has been written since if the row
\* versions agree.
Known(e, r) ==
    /\ r \in RowOf(e) /\ row[e] \in RowOf(e)
    /\ r.rv <= row[e].rv /\ (r.rv = row[e].rv => r = row[e])

RowsOK == \A e \in Entity : row[e] \in RowOf(e) \cup {NoRow}

RowsShape == row \in [Entity -> Row \cup {NoRow}] /\ RowsOK

LEMMA RowFacts ==
    ASSUME NEW e, NEW r \in RowOf(e)
    PROVE  /\ r.rv \in Nat \ {0} /\ r \in Row /\ r # NoRow /\ "rv" \in DOMAIN r
           /\ r.deleted \in Stamp /\ "deleted" \in DOMAIN r /\ r.text \in Text
  BY Tables DEF RowOf, Row, PaperRow, IdeaRow, SubmissionRow, RowVersion

LEMMA KnownNow ==
    ASSUME RowsOK, NEW e \in Entity, Exists(e)
    PROVE  Known(e, row[e])
<1>1. row[e] \in RowOf(e)
  BY DEF RowsOK, Exists
<1> QED
  BY <1>1, RowFacts DEF Known

\* Every accepted write counts the row version up, so what was known stays so.
Advances(e, r) ==
    /\ r \in RowOf(e) /\ row' = [row EXCEPT ![e] = r]
    /\ row[e] = NoRow \/ (row[e] \in RowOf(e) /\ r.rv = row[e].rv + 1)

LEMMA KnownStays ==
    ASSUME RowsShape, NEW e \in Entity, NEW r, Advances(e, r), NEW f \in Entity, NEW s, Known(f, s)
    PROVE  Known(f, s)'
<1>1. CASE f # e
  BY <1>1 DEF Known, Advances, RowsShape
<1>2. CASE f = e
  <2>1. row[e] \in RowOf(e) /\ row'[e] = r /\ s \in RowOf(e) /\ s.rv <= row[e].rv
    BY <1>2 DEF Known, Advances, RowsShape
  <2>2. row[e] # NoRow /\ row[e].rv \in Nat /\ s.rv \in Nat
    BY <2>1, RowFacts
  <2>3. r.rv = row[e].rv + 1
    BY <2>2 DEF Advances
  <2> QED
    BY <1>2, <2>1, <2>2, <2>3 DEF Known, Advances
<1> QED
  BY <1>1, <1>2

LEMMA AdvanceKeepsRows ==
    ASSUME RowsShape, NEW e \in Entity, NEW r, Advances(e, r)
    PROVE  /\ RowsShape' /\ Known(e, r)'
           /\ \A f \in Entity : (row[f] # NoRow => row'[f] # NoRow) /\ (f # e => row'[f] = row[f])
<1>1. r \in Row /\ r # NoRow /\ r.rv \in Nat
  BY RowFacts DEF Advances
<1>2. row' \in [Entity -> Row \cup {NoRow}] /\ row'[e] = r
  BY <1>1 DEF Advances, RowsShape
<1>3. \A f \in Entity : f # e => row'[f] = row[f]
  BY DEF Advances, RowsShape
<1>4. RowsOK'
  BY <1>2, <1>3 DEF RowsShape, RowsOK, Advances
<1>5. Known(e, r)'
  BY <1>1, <1>2 DEF Known, Advances
<1> QED
  BY <1>1, <1>2, <1>3, <1>4, <1>5 DEF RowsShape

-----------------------------------------------------------------------------
(* Mutations *)

Fields == {"text", "current", "deleted", "paper", "status", "version", "submitted"}

Creates(m) ==
    /\ m.op = "create" /\ row[m.entity] = NoRow
    /\ m.fields = DOMAIN m.after \ {"rv"}
    /\ m.entity \in Paper => m.after.current = None

Rewrites(m) ==
    /\ m.op # "create" /\ m.before \in RowOf(m.entity) /\ Known(m.entity, m.before)
    /\ m.after.rv = m.before.rv + 1
    /\ m.fields \subseteq DOMAIN m.after \ {"rv"}

\* What every builder makes.
Sound(m) ==
    /\ m \in ChangeRow /\ m.after \in RowOf(m.entity)
    /\ Creates(m) \/ Rewrites(m)

LEMMA FieldsOfRows ==
    ASSUME NEW e, NEW r \in RowOf(e)
    PROVE  DOMAIN r \ {"rv"} \in SUBSET Fields
  BY DEF RowOf, PaperRow, IdeaRow, SubmissionRow, Fields

LEMMA Counted ==
    ASSUME NEW e, NEW r \in RowOf(e), NEW n \in RowVersion
    PROVE  /\ [r EXCEPT !.rv = n] \in RowOf(e)
           /\ [r EXCEPT !.rv = n].rv = n
           /\ DOMAIN [r EXCEPT !.rv = n] = DOMAIN r
           /\ \A f \in DOMAIN r \ {"rv"} : [r EXCEPT !.rv = n][f] = r[f]
  BY DEF RowOf, PaperRow, IdeaRow, SubmissionRow

LEMMA ChangeIsSound ==
    ASSUME NEW e \in Entity, NEW op \in {"update", "soft_delete", "restore", "transition", "undo"},
           NEW old, Known(e, old), NEW new \in RowOf(e), NEW F, F \subseteq DOMAIN new \ {"rv"}
    PROVE  /\ Sound(Change(e, op, old, new, F))
           /\ \A f \in DOMAIN new \ {"rv"} : Change(e, op, old, new, F).after[f] = new[f]
<1> DEFINE after == [new EXCEPT !.rv = old.rv + 1]
           m == Change(e, op, old, new, F)
<1>1. old \in RowOf(e) /\ old \in Row /\ old.rv \in Nat \ {0}
  BY RowFacts DEF Known
<1>2. old.rv + 1 \in RowVersion
  BY <1>1 DEF RowVersion
<1>3. /\ after \in RowOf(e) /\ after.rv = old.rv + 1 /\ DOMAIN after = DOMAIN new
      /\ \A f \in DOMAIN new \ {"rv"} : after[f] = new[f]
  BY <1>2, Counted
<1>4. after \in Row /\ F \in SUBSET Fields
  BY <1>3, RowFacts, FieldsOfRows
<1>5. /\ m.entity = e /\ m.op = op /\ m.before = old /\ m.after = after /\ m.fields = F
      /\ m = [entity |-> e, op |-> op, before |-> old, after |-> after, fields |-> F]
  BY DEF Change
<1> HIDE DEF m, after
<1>6. m \in ChangeRow
  BY <1>1, <1>4, <1>5 DEF ChangeRow, Fields
<1>7. Rewrites(m)
  BY <1>1, <1>3, <1>5 DEF Rewrites
<1> QED
  BY <1>3, <1>5, <1>6, <1>7 DEF Sound, m

LEMMA CreationIsSound ==
    ASSUME NEW e \in Entity, row[e] = NoRow, NEW r \in RowOf(e), e \in Paper => r.current = None
    PROVE  Sound(Creation(e, r))
<1> DEFINE m == Creation(e, r)
<1>1. r \in Row /\ DOMAIN r \ {"rv"} \in SUBSET Fields
  BY RowFacts, FieldsOfRows
<1>2. /\ m.entity = e /\ m.op = "create" /\ m.after = r /\ m.fields = DOMAIN r \ {"rv"}
      /\ m = [entity |-> e, op |-> "create", before |-> NoRow, after |-> r,
             fields |-> DOMAIN r \ {"rv"}]
  BY DEF Creation
<1> HIDE DEF m
<1>3. m \in ChangeRow
  BY <1>1, <1>2 DEF ChangeRow, Fields
<1> QED
  BY <1>2, <1>3 DEF Sound, Creates, m

\* What the log keeps of a command until its builder runs.
Creating(c) ==
    /\ row[c.target] = NoRow
    /\ \/ c.type = <<"paper", "create">> /\ c.target \in Paper /\ c.arg \in Text
       \/ c.type = <<"idea", "create">> /\ c.target \in Idea /\ c.arg \in Text
       \/ /\ c.type = <<"submission", "create">> /\ c.target \in Submission
          /\ c.arg \in [paper : Paper, text : Text, status : PreSubmission]

Updating(c) ==
    /\ Exists(c.target) /\ c.arg \in Text
    /\ \/ c.type = <<"paper", "update">> /\ c.target \in Paper
       \/ c.type = <<"idea", "update">> /\ c.target \in Idea
       \/ c.type = <<"submission", "update">> /\ c.target \in Submission

Hiding(c) ==
    /\ c.target \in Entity /\ Exists(c.target)
    /\ c.type \in {"paper", "idea", "submission"} \X {"soft_delete", "restore"}

Transiting(c) ==
    /\ c.type = <<"submission", "transition">> /\ c.target \in Submission
    /\ Exists(c.target) /\ c.arg \in Status

Choosing(c) ==
    /\ c.type = <<"paper", "set_current_version">> /\ c.arg \in Version
    /\ c.target = PaperOf(c.arg) /\ Known(c.target, c.seen.row)

Undoing(c) ==
    /\ c.type = <<"undo", "compensate">> /\ c.undoOf \in DOMAIN log
    /\ log[c.undoOf].phase = "committed"
    /\ log[c.undoOf].change # None => Known(log[c.undoOf].change.entity, c.seen.current)

Deciding(c) ==
    /\ c.target \in Candidate /\ cand[c.target] # NoRow
    /\ \/ c.type \in {<<"candidate", "reject">>, <<"candidate", "reconsider">>}
       \/ c.type = <<"candidate", "confirm">> /\ c.arg \in Paper

Versioning(c) ==
    \/ /\ c.type \in {<<"paper_version", "change_context">>, <<"paper_version", "retract">>}
       /\ c.target \in Version /\ c.arg \in Snapshot \cup {None}
    \/ c.type = <<"relation", "retract">> /\ c.seen \in EdgeRow

Planned(c) ==
    \/ Creating(c) \/ Updating(c) \/ Hiding(c) \/ Transiting(c) \/ Choosing(c) \/ Undoing(c)
    \/ Deciding(c) \/ Versioning(c)

LEMMA CreatingIsSound ==
    ASSUME NEW c, NEW now, Creating(c), NEW m \in Plan(c, now)
    PROVE  Sound(m)
<1>1. CASE c.type = <<"paper", "create">>
  <2> DEFINE r == [text |-> c.arg, current |-> None, deleted |-> 0, rv |-> 1]
  <2>1. m = Creation(c.target, r)
    BY <1>1 DEF Plan, CreatePaper
  <2>2. c.target \in Paper /\ c.arg \in Text
    BY <1>1 DEF Creating
  <2>3. r \in PaperRow /\ r.current = None
    BY <2>2, Identities DEF PaperRow, Stamp, RowVersion
  <2> QED
    BY <2>1, <2>2, <2>3, CreationIsSound DEF Creating, RowOf, Entity
<1>2. CASE c.type = <<"idea", "create">>
  <2> DEFINE r == [text |-> c.arg, deleted |-> 0, rv |-> 1]
  <2>1. m = Creation(c.target, r)
    BY <1>2 DEF Plan, CreateIdea
  <2>2. c.target \in Idea /\ c.target \notin Paper /\ c.arg \in Text
    BY <1>2, Identities DEF Creating
  <2>3. r \in IdeaRow
    BY <2>2, Identities DEF IdeaRow, Stamp, RowVersion
  <2> QED
    BY <2>1, <2>2, <2>3, CreationIsSound DEF Creating, RowOf, Entity
<1>3. CASE c.type = <<"submission", "create">>
  <2> DEFINE r == [paper |-> c.arg.paper, text |-> c.arg.text, status |-> c.arg.status,
                   version |-> None, submitted |-> FALSE, deleted |-> 0, rv |-> 1]
  <2>1. m = Creation(c.target, r)
    BY <1>3 DEF Plan, CreateSubmission
  <2>2. /\ c.target \in Submission /\ c.target \notin Paper /\ c.target \notin Idea
        /\ c.arg \in [paper : Paper, text : Text, status : PreSubmission]
    BY <1>3, Identities DEF Creating
  <2>3. r \in SubmissionRow
    BY <2>2, Identities DEF SubmissionRow, Stamp, RowVersion, Status
  <2> QED
    BY <2>1, <2>2, <2>3, CreationIsSound DEF Creating, RowOf, Entity
<1> QED
  BY <1>1, <1>2, <1>3 DEF Creating

LEMMA FieldsFit ==
    ASSUME NEW e, NEW r \in RowOf(e)
    PROVE  /\ \A t \in Text : [r EXCEPT !.text = t] \in RowOf(e) /\ DOMAIN [r EXCEPT !.text = t] = DOMAIN r
           /\ \A d \in Stamp : [r EXCEPT !.deleted = d] \in RowOf(e)
                            /\ DOMAIN [r EXCEPT !.deleted = d] = DOMAIN r
           /\ {"text", "deleted"} \subseteq DOMAIN r \ {"rv"}
  BY DEF RowOf, PaperRow, IdeaRow, SubmissionRow

LEMMA UpdatingIsSound ==
    ASSUME RowsOK, NEW c, NEW now, Updating(c), NEW m \in Plan(c, now)
    PROVE  Sound(m) /\ m.op # "create"
<1>1. c.target \in Entity /\ Known(c.target, row[c.target])
  BY KnownNow DEF Updating, Entity
<1>2. m \in UpdatePaper(c)
  <2>1. CASE c.type = <<"paper", "update">>
    BY <2>1 DEF Plan
  <2>2. CASE c.type = <<"idea", "update">>
    BY <2>2 DEF Plan, UpdateIdea
  <2>3. CASE c.type = <<"submission", "update">>
    BY <2>3 DEF Plan, UpdateSubmission
  <2> QED
    BY <2>1, <2>2, <2>3 DEF Updating
<1> DEFINE r == row[c.target]
           new == [r EXCEPT !.text = c.arg]
<1>3. m = Change(c.target, "update", r, new, {"text"})
  BY <1>2 DEF UpdatePaper
<1>4. new \in RowOf(c.target) /\ {"text"} \subseteq DOMAIN new \ {"rv"}
  BY <1>1, FieldsFit DEF Known, Updating
<1> HIDE DEF new
<1>5. m.op = "update"
  BY <1>3 DEF Change
<1> QED
  BY <1>1, <1>3, <1>4, <1>5, ChangeIsSound

LEMMA HidingIsSound ==
    ASSUME RowsOK, NEW c, NEW now \in Stamp, Hiding(c), NEW m \in Plan(c, now)
    PROVE  Sound(m) /\ m.op # "create"
<1>1. c.target \in Entity /\ Known(c.target, row[c.target])
  BY KnownNow DEF Hiding
<1>2. m \in SoftDelete(c, now) \/ m \in Restore(c)
  <2>1. PICK k \in {"paper", "idea", "submission"}, v \in {"soft_delete", "restore"} : c.type = <<k, v>>
    BY DEF Hiding
  <2>2. CASE v = "soft_delete"
    BY <2>1, <2>2 DEF Plan
  <2>3. CASE v = "restore"
    BY <2>1, <2>3 DEF Plan
  <2> QED
    BY <2>1, <2>2, <2>3
<1> DEFINE r == row[c.target]
           new(d) == [r EXCEPT !.deleted = d]
<1>3. PICK d \in {0, now}, op \in {"soft_delete", "restore"} :
        m = Change(c.target, op, r, new(d), {"deleted"})
  BY <1>2 DEF SoftDelete, Restore
<1>4. 0 \in Stamp
  BY Identities DEF Stamp
<1>5. new(d) \in RowOf(c.target) /\ {"deleted"} \subseteq DOMAIN new(d) \ {"rv"}
  BY <1>1, <1>4, FieldsFit DEF Known
<1> HIDE DEF new
<1>6. m.op # "create"
  BY <1>3 DEF Change
<1> QED
  BY <1>1, <1>3, <1>5, <1>6, ChangeIsSound

LEMMA TransitingIsSound ==
    ASSUME RowsOK, NEW c, NEW now, Transiting(c), NEW m \in Plan(c, now)
    PROVE  Sound(m) /\ m.op # "create"
<1>1. c.target \in Entity /\ Known(c.target, row[c.target]) /\ c.target \notin Paper \cup Idea
  BY KnownNow, Identities DEF Transiting, Entity
<1>2. m \in TransitionSubmission(c)
  BY DEF Plan, Transiting
<1> DEFINE r == row[c.target]
           new == [r EXCEPT !.status = c.arg, !.submitted = r.submitted \/ c.arg \notin PreSubmission]
<1>3. m = Change(c.target, "transition", r, new, {"status"})
  BY <1>2 DEF TransitionSubmission
<1>4. r \in SubmissionRow /\ c.arg \in Status
  BY <1>1 DEF Known, RowOf, Transiting
<1>5. new \in SubmissionRow /\ DOMAIN new = DOMAIN r
  <2>1. (r.submitted \/ c.arg \notin PreSubmission) \in BOOLEAN
    OBVIOUS
  <2> QED
    BY <1>4, <2>1 DEF SubmissionRow
<1>6. {"status"} \subseteq DOMAIN new \ {"rv"}
  BY <1>4, <1>5 DEF SubmissionRow
<1>7. new \in RowOf(c.target)
  BY <1>1, <1>5 DEF RowOf
<1> HIDE DEF new
<1>8. m.op = "transition"
  BY <1>3 DEF Change
<1> QED
  BY <1>1, <1>3, <1>6, <1>7, <1>8, ChangeIsSound

LEMMA ChoosingIsSound ==
    ASSUME NEW c, NEW now, Choosing(c), NEW m \in Plan(c, now)
    PROVE  Sound(m) /\ m.op # "create"
<1>1. c.arg \in Version /\ c.target \in Paper /\ c.target \in Entity /\ Known(c.target, c.seen.row)
  BY DEF Choosing, Version, PaperOf, Entity
<1>2. m \in SetCurrentVersion(c)
  BY DEF Plan, Choosing
<1> DEFINE r == c.seen.row
           new == [r EXCEPT !.current = c.arg]
<1>3. m = Change(c.target, "update", r, new, {"current"})
  BY <1>2 DEF SetCurrentVersion
<1>4. r \in PaperRow
  BY <1>1 DEF Known, RowOf
<1>5. new \in PaperRow /\ {"current"} \subseteq DOMAIN new \ {"rv"}
  BY <1>1, <1>4 DEF PaperRow
<1>6. new \in RowOf(c.target)
  BY <1>1, <1>5 DEF RowOf
<1> HIDE DEF new
<1>7. m.op = "update"
  BY <1>3 DEF Change
<1> QED
  BY <1>1, <1>3, <1>5, <1>6, <1>7, ChangeIsSound

\* A committed change, as long as nothing later is known of its row.
Audited(ch) ==
    /\ ch \in ChangeRow /\ Known(ch.entity, ch.after)
    /\ \/ ch.op = "create" /\ ch.fields = DOMAIN ch.after \ {"rv"}
       \/ /\ ch.op # "create" /\ ch.before \in RowOf(ch.entity)
          /\ ch.after.rv = ch.before.rv + 1 /\ ch.fields \subseteq DOMAIN ch.after \ {"rv"}

LEMMA SameFields ==
    ASSUME NEW e, NEW old \in RowOf(e), NEW current \in RowOf(e)
    PROVE  DOMAIN old = DOMAIN current
  BY DEF RowOf, PaperRow, IdeaRow, SubmissionRow

LEMMA MixedFits ==
    ASSUME NEW e, NEW old \in RowOf(e), NEW current \in RowOf(e), NEW g,
           DOMAIN g = DOMAIN current, g = [f \in DOMAIN g |-> g[f]],
           \A f \in DOMAIN g : g[f] \in {old[f], current[f]}
    PROVE  g \in RowOf(e)
<1>1. CASE e \in Paper
  BY <1>1 DEF RowOf, PaperRow
<1>2. CASE e \notin Paper /\ e \in Idea
  BY <1>2 DEF RowOf, IdeaRow
<1>3. CASE e \notin Paper /\ e \notin Idea
  BY <1>3 DEF RowOf, SubmissionRow
<1> QED
  BY <1>1, <1>2, <1>3

\* What an undo writes, when its command is undoable.
LEMMA UndoingIsSound ==
    ASSUME NEW c, NEW now \in Stamp, Undoing(c), NEW m \in Plan(c, now),
           log[c.undoOf].change # None => Audited(log[c.undoOf].change)
    PROVE  LET ch == log[c.undoOf].change IN
           /\ Sound(m) /\ m.op # "create"
           /\ m.entity = ch.entity /\ m.before = c.seen.current /\ Undoable(c.undoOf, c.seen)
           /\ \A f \in DOMAIN m.before \ {"rv"} :
                 m.after[f] = IF ch.op = "create" THEN IF f = "deleted" THEN now ELSE m.before[f]
                              ELSE IF f \in ch.fields THEN ch.before[f] ELSE m.before[f]
<1> DEFINE ch == log[c.undoOf].change
           cur == c.seen.current
           new == Compensated(ch, cur, now)
           F == IF ch.op = "create" THEN {"deleted"} ELSE ch.fields
<1>1. m = Change(ch.entity, "undo", cur, new, F) /\ Undoable(c.undoOf, c.seen)
  BY DEF Plan, Compensate, Undoing
<1>2. ch # None /\ Audited(ch) /\ Known(ch.entity, cur) /\ ch.entity \in Entity
  BY <1>1 DEF Undoable, Undoing, Audited, ChangeRow
<1>3. cur \in RowOf(ch.entity)
  BY <1>2 DEF Known
<1>4. /\ new \in RowOf(ch.entity) /\ DOMAIN new = DOMAIN cur /\ F \subseteq DOMAIN new \ {"rv"}
      /\ \A f \in DOMAIN cur \ {"rv"} :
            new[f] = IF ch.op = "create" THEN IF f = "deleted" THEN now ELSE cur[f]
                     ELSE IF f \in ch.fields THEN ch.before[f] ELSE cur[f]
  <2>1. CASE ch.op = "create"
    <3>1. new = [cur EXCEPT !.deleted = now]
      BY <2>1 DEF Compensated
    <3>2. \A f \in DOMAIN cur : [cur EXCEPT !.deleted = now][f] = IF f = "deleted" THEN now ELSE cur[f]
      BY <1>3 DEF RowOf, PaperRow, IdeaRow, SubmissionRow
    <3> QED
      BY <1>3, <2>1, <3>1, <3>2, FieldsFit
  <2>2. CASE ch.op # "create"
    <3>1. new = [f \in DOMAIN cur |-> IF f \in ch.fields THEN ch.before[f] ELSE cur[f]]
      BY <2>2 DEF Compensated
    <3>2. ch.before \in RowOf(ch.entity) /\ ch.fields \subseteq DOMAIN ch.after \ {"rv"}
          /\ ch.after \in RowOf(ch.entity)
      BY <1>2, <2>2 DEF Audited, Known
    <3> DEFINE both == [f \in DOMAIN cur |-> IF f \in ch.fields THEN ch.before[f] ELSE cur[f]]
    <3>3. /\ DOMAIN both = DOMAIN cur /\ both = [f \in DOMAIN both |-> both[f]]
          /\ \A f \in DOMAIN both : both[f] \in {ch.before[f], cur[f]}
      OBVIOUS
    <3>4. both \in RowOf(ch.entity)
      <4> HIDE DEF both
      <4> QED
        BY <1>3, <3>2, <3>3, MixedFits
    <3>5. new \in RowOf(ch.entity) /\ DOMAIN new = DOMAIN cur
      BY <3>1, <3>4, <3>3
    <3>6. DOMAIN ch.after = DOMAIN cur
      BY <1>3, <3>2, SameFields
    <3> QED
      BY <2>2, <3>1, <3>2, <3>5, <3>6
  <2> QED
    BY <2>1, <2>2
<1>5. m.op = "undo" /\ m.entity = ch.entity /\ m.before = cur
  BY <1>1 DEF Change
<1> HIDE DEF new, F
<1>6. Sound(m) /\ \A f \in DOMAIN new \ {"rv"} : m.after[f] = new[f]
  <2>1. /\ ch.entity \in Entity /\ Known(ch.entity, cur)
        /\ new \in RowOf(ch.entity) /\ F \subseteq DOMAIN new \ {"rv"}
    BY <1>2, <1>4
  <2> HIDE DEF ch, cur
  <2>2. LET n == Change(ch.entity, "undo", cur, new, F)
        IN  Sound(n) /\ \A f \in DOMAIN new \ {"rv"} : n.after[f] = new[f]
    BY ONLY <2>1, ChangeIsSound
  <2> QED
    BY ONLY <1>1, <2>2
<1> QED
  BY <1>1, <1>4, <1>5, <1>6

-----------------------------------------------------------------------------
(* Commands between submission and end *)

\* What no step takes back.
Monotone ==
    /\ \A e \in Entity : \A r : Known(e, r) => Known(e, r)'
    /\ \A e \in Entity : row[e] # NoRow => row'[e] # NoRow
    /\ \A c \in Candidate : cand[c] # NoRow => cand'[c] # NoRow
    /\ \A i \in DOMAIN log :
         i \in DOMAIN log' /\ (log[i].phase = "committed" => log'[i] = log[i])

LEMMA AuditedStays ==
    ASSUME Monotone, NEW i \in DOMAIN log, log'[i] = log[i], Audited(log[i].change)
    PROVE  Audited(log[i].change)'
<1> PICK ch : ch = log[i].change
  OBVIOUS
<1>1. ch.entity \in Entity /\ Known(ch.entity, ch.after)
  BY DEF Audited, ChangeRow
<1>2. Known(ch.entity, ch.after)'
  BY <1>1 DEF Monotone
<1>3. Audited(ch)'
  BY <1>2 DEF Audited, RowOf, ChangeRow
<1> QED
  BY <1>3, log'[i].change = ch DEF Audited, Known, RowOf, ChangeRow

LEMMA PlannedStays ==
    ASSUME Monotone, NEW i \in DOMAIN log, log'[i] = log[i], Planned(log[i]),
           log[i].undoOf \in DOMAIN log /\ log[log[i].undoOf].change # None =>
                log[log[i].undoOf].change.entity \in Entity,
           Creating(log[i]) => row'[log[i].target] = NoRow
    PROVE  Planned(log[i])'
<1>1. CASE Creating(log[i])
  BY <1>1 DEF Planned, Creating
<1>2. CASE Updating(log[i])
  BY <1>2 DEF Planned, Updating, Monotone, Exists, Entity
<1>3. CASE Hiding(log[i])
  BY <1>3 DEF Planned, Hiding, Monotone, Exists
<1>4. CASE Transiting(log[i])
  BY <1>4 DEF Planned, Transiting, Monotone, Exists, Entity
<1>5. CASE Choosing(log[i])
  <2>1. log[i].target \in Entity
    BY <1>5 DEF Choosing, Version, PaperOf, Entity
  <2> QED
    BY <1>5, <2>1 DEF Planned, Choosing, Monotone, Known, RowOf
<1>6. CASE Undoing(log[i])
  BY <1>6 DEF Planned, Undoing, Monotone, Known, RowOf
<1>7. CASE Deciding(log[i])
  BY <1>7 DEF Planned, Deciding, Monotone
<1>8. CASE Versioning(log[i])
  BY <1>8 DEF Planned, Versioning
<1> QED
  BY <1>1, <1>2, <1>3, <1>4, <1>5, <1>6, <1>7, <1>8 DEF Planned

VersionsOK ==
    /\ version \in [Version -> VersionRow \cup {NoRow}]
    /\ \A v \in Version : version[v] # NoRow => Exists(PaperOf(v))

TablesOK == RowsShape /\ VersionsOK /\ edge \subseteq EdgeRow
            /\ cand \in [Candidate -> CandidateRow \cup {NoRow}]

CommandOK(i) ==
    /\ log[i].phase \in {"running", "committed", "failed"}
    /\ log[i].undoOf \in 0 .. i - 1
    /\ log[i].undoOf # 0 <=> log[i].type = <<"undo", "compensate">>
    /\ log[i].phase = "running" => Planned(log[i]) /\ log[i].change = None
    /\ log[i].change # None => Audited(log[i].change) /\ log[i].phase = "committed"

CreatesApart ==
    \A i, j \in DOMAIN log :
        /\ i # j /\ log[i].phase = "running" /\ log[j].phase = "running"
        /\ Creating(log[i]) /\ Creating(log[j])
        => log[i].target # log[j].target

LogOK == LogShape /\ (\A i \in DOMAIN log : CommandOK(i)) /\ CreatesApart

Submitted(type, target, arg, seen, undoOf) ==
    /\ PersistEnvelope(type, target, arg, seen, undoOf)
    /\ Planned(Envelope(type, target, arg, seen, undoOf))
    /\ undoOf \in {0} \cup DOMAIN log /\ (undoOf # 0 <=> type = <<"undo", "compensate">>)
    /\ Creating(Envelope(type, target, arg, seen, undoOf)) =>
         \A j \in DOMAIN log : log[j].target # target

LEMMA SubmitRowCommand ==
    ASSUME TablesOK, SubmitPaper \/ SubmitIdea \/ SubmitSubmission
    PROVE  \E type, target, arg, seen : Submitted(type, target, arg, seen, 0)
<1> USE DEF Submitted, Envelope, Planned, Entity
<1>1. CASE SubmitPaper
  <2>1. ASSUME NEW p \in Paper, NEW t \in Text, Fresh(p),
               PersistEnvelope(<<"paper", "create">>, p, t, None, 0)
        PROVE  Submitted(<<"paper", "create">>, p, t, None, 0)
    BY <2>1 DEF Creating, Fresh, Exists
  <2>2. ASSUME NEW p \in Paper, NEW t \in Text, Exists(p),
               PersistEnvelope(<<"paper", "update">>, p, t, None, 0)
        PROVE  Submitted(<<"paper", "update">>, p, t, None, 0)
    BY <2>2 DEF Creating, Updating
  <2>3. ASSUME NEW p \in Paper, Exists(p), NEW verb \in {"soft_delete", "restore"},
               PersistEnvelope(<<"paper", verb>>, p, None, None, 0)
        PROVE  Submitted(<<"paper", verb>>, p, None, None, 0)
    BY <2>3 DEF Creating, Hiding
  <2> QED
    BY <1>1, <2>1, <2>2, <2>3, Zenon DEF SubmitPaper
<1>2. CASE SubmitIdea
  <2>1. ASSUME NEW i \in Idea, NEW t \in Text, Fresh(i),
               PersistEnvelope(<<"idea", "create">>, i, t, None, 0)
        PROVE  Submitted(<<"idea", "create">>, i, t, None, 0)
    BY <2>1 DEF Creating, Fresh, Exists
  <2>2. ASSUME NEW i \in Idea, NEW t \in Text, Exists(i),
               PersistEnvelope(<<"idea", "update">>, i, t, None, 0)
        PROVE  Submitted(<<"idea", "update">>, i, t, None, 0)
    BY <2>2 DEF Creating, Updating
  <2>3. ASSUME NEW i \in Idea, Exists(i), NEW verb \in {"soft_delete", "restore"},
               PersistEnvelope(<<"idea", verb>>, i, None, None, 0)
        PROVE  Submitted(<<"idea", verb>>, i, None, None, 0)
    BY <2>3 DEF Creating, Hiding
  <2> QED
    BY <1>2, <2>1, <2>2, <2>3, Zenon DEF SubmitIdea
<1>3. CASE SubmitSubmission
  <2>1. ASSUME NEW e \in Submission, NEW p \in Paper, NEW t \in Text, NEW st \in PreSubmission, Fresh(e),
               PersistEnvelope(<<"submission", "create">>, e,
                               [paper |-> p, text |-> t, status |-> st], None, 0)
        PROVE  Submitted(<<"submission", "create">>, e,
                         [paper |-> p, text |-> t, status |-> st], None, 0)
    BY <2>1 DEF Creating, Fresh, Exists
  <2>2. ASSUME NEW e \in Submission, NEW t \in Text, Exists(e),
               PersistEnvelope(<<"submission", "update">>, e, t, None, 0)
        PROVE  Submitted(<<"submission", "update">>, e, t, None, 0)
    BY <2>2 DEF Creating, Updating
  <2>3. ASSUME NEW e \in Submission, Exists(e), NEW verb \in {"soft_delete", "restore"},
               PersistEnvelope(<<"submission", verb>>, e, None, None, 0)
        PROVE  Submitted(<<"submission", verb>>, e, None, None, 0)
    BY <2>3 DEF Creating, Hiding
  <2>4. ASSUME NEW e \in Submission, NEW st \in Status, Exists(e),
               PersistEnvelope(<<"submission", "transition">>, e, st, None, 0)
        PROVE  Submitted(<<"submission", "transition">>, e, st, None, 0)
    BY <2>4 DEF Creating, Transiting
  <2> HIDE DEF Submitted, Envelope, Planned, Entity
  <2> QED
    BY <1>3, <2>1, <2>2, <2>3, <2>4, Zenon DEF SubmitSubmission
<1> QED
  BY <1>1, <1>2, <1>3

LEMMA SubmitVersionCommand ==
    ASSUME TablesOK, SubmitCandidateDecision \/ SubmitConfirm \/ SubmitSetCurrent
                     \/ SubmitVersionAction \/ SubmitRetractRelation
    PROVE  \E type, target, arg, seen : Submitted(type, target, arg, seen, 0)
<1> USE DEF Submitted, Envelope, Planned
<1>1. ASSUME NEW c \in Candidate, cand[c] # NoRow, NEW verb \in {"reject", "reconsider"},
             PersistEnvelope(<<"candidate", verb>>, c, None, None, 0)
      PROVE  Submitted(<<"candidate", verb>>, c, None, None, 0)
  BY <1>1 DEF Creating, Deciding
<1>2. ASSUME NEW c \in Candidate, cand[c] # NoRow, NEW p \in Paper,
             PersistEnvelope(<<"candidate", "confirm">>, c, p, None, 0)
      PROVE  Submitted(<<"candidate", "confirm">>, c, p, None, 0)
  BY <1>2 DEF Creating, Deciding
<1>3. ASSUME NEW v \in Version, version[v] # NoRow,
             PersistEnvelope(<<"paper", "set_current_version">>, PaperOf(v), v,
                             [row |-> row[PaperOf(v)], state |-> version[v].state], 0)
      PROVE  Submitted(<<"paper", "set_current_version">>, PaperOf(v), v,
                       [row |-> row[PaperOf(v)], state |-> version[v].state], 0)
  <2>1. Exists(PaperOf(v)) /\ PaperOf(v) \in Entity
    BY <1>3 DEF TablesOK, VersionsOK, Entity, Version, PaperOf
  <2>2. Known(PaperOf(v), row[PaperOf(v)])
    BY <2>1, KnownNow DEF TablesOK, RowsShape
  <2> QED
    BY <1>3, <2>2 DEF Creating, Choosing
<1>4. ASSUME NEW v \in Version, NEW x \in Snapshot \cup {None}, NEW verb \in {"change_context", "retract"},
             PersistEnvelope(<<"paper_version", verb>>, v, x, None, 0)
      PROVE  Submitted(<<"paper_version", verb>>, v, x, None, 0)
  BY <1>4 DEF Creating, Versioning
<1>5. ASSUME NEW e \in edge, PersistEnvelope(<<"relation", "retract">>, e.id, None, e, 0)
      PROVE  Submitted(<<"relation", "retract">>, e.id, None, e, 0)
  BY <1>5 DEF Creating, Versioning, TablesOK
<1>6. SubmitCandidateDecision => \E type, target, arg, seen : Submitted(type, target, arg, seen, 0)
  BY <1>1, Zenon DEF SubmitCandidateDecision
<1>7. SubmitConfirm => \E type, target, arg, seen : Submitted(type, target, arg, seen, 0)
  BY <1>2, Zenon DEF SubmitConfirm
<1>8. SubmitSetCurrent => \E type, target, arg, seen : Submitted(type, target, arg, seen, 0)
  BY <1>3, Zenon DEF SubmitSetCurrent
<1>9. SubmitVersionAction => \E type, target, arg, seen : Submitted(type, target, arg, seen, 0)
  BY <1>4, ZenonT(60) DEF SubmitVersionAction
<1>10. SubmitRetractRelation => \E type, target, arg, seen : Submitted(type, target, arg, seen, 0)
  BY <1>5, Zenon DEF SubmitRetractRelation
<1> QED
  BY <1>6, <1>7, <1>8, <1>9, <1>10

LEMMA SubmitUndoCommand ==
    ASSUME TablesOK, LogOK, SubmitUndo
    PROVE  \E target, arg, seen, undoOf : Submitted(<<"undo", "compensate">>, target, arg, seen, undoOf)
<1>1. PICK o \in Committed :
        PersistEnvelope(<<"undo", "compensate">>, o, None,
          [current |-> CurrentSnapshot(o),
           dependents |-> log[o].change # None /\ HasDependents(log[o].change.entity)], o)
  BY DEF SubmitUndo
<1>2. o \in DOMAIN log /\ log[o].phase = "committed" /\ o # 0
  BY LogDomain DEF Committed, LogOK
<1>3. log[o].change # None => Known(log[o].change.entity, CurrentSnapshot(o))
  <2>1. ASSUME log[o].change # None PROVE Known(log[o].change.entity, CurrentSnapshot(o))
    <3>1. Audited(log[o].change)
      BY <1>2, <2>1 DEF LogOK, CommandOK
    <3>2. log[o].change.entity \in Entity /\ Exists(log[o].change.entity)
      BY <3>1, RowFacts DEF Audited, ChangeRow, Known, Exists
    <3> QED
      BY <2>1, <3>2, KnownNow DEF CurrentSnapshot, TablesOK, RowsShape
  <2> QED
    BY <2>1
<1> DEFINE seen == [current |-> CurrentSnapshot(o),
                    dependents |-> log[o].change # None /\ HasDependents(log[o].change.entity)]
<1>4. seen.current = CurrentSnapshot(o)
  OBVIOUS
<1> HIDE DEF seen
<1>5. Submitted(<<"undo", "compensate">>, o, None, seen, o)
  BY <1>1, <1>2, <1>3, <1>4 DEF seen, Submitted, Envelope, Planned, Undoing, Creating
<1> QED
  BY <1>5, Zenon

LEMMA PersistKeepsLog ==
    ASSUME TablesOK, LogOK, NEW type, NEW target, NEW arg, NEW seen, NEW undoOf,
           Submitted(type, target, arg, seen, undoOf)
    PROVE  LogOK' /\ Monotone /\ TablesOK'
<1> DEFINE c == Envelope(type, target, arg, seen, undoOf)
<1>0. PICK n : n = Len(log) + 1
  OBVIOUS
<1>1. /\ log' = Append(log, c) /\ Len(log) < MaxCommands /\ Planned(c)
      /\ UNCHANGED <<row, version, edge, cand>>
  BY DEF Submitted, PersistEnvelope
<1>2. c.undoOf = undoOf /\ c.type = type /\ c.phase = "running" /\ c.change = None /\ c.target = target
  BY DEF Envelope
<1> HIDE DEF c
<1>3. LogShape
  BY DEF LogOK
<1>4. /\ LogShape' /\ DOMAIN log' = DOMAIN log \cup {n} /\ n \notin DOMAIN log /\ log'[n] = c
      /\ \A i \in DOMAIN log : log'[i] = log[i]
  BY <1>0, <1>1, <1>3, Appended
<1>5. Monotone
  BY <1>1, <1>4 DEF Monotone, Known, RowOf
<1>6. TablesOK'
  BY <1>1 DEF TablesOK, RowsShape, RowsOK, VersionsOK, Exists, RowOf
<1>7. ASSUME NEW i \in DOMAIN log PROVE CommandOK(i)'
  <2>1. CommandOK(i) /\ log'[i] = log[i]
    BY <1>4 DEF LogOK
  <2>2. log[i].change # None => Audited(log[i].change)'
    BY <1>5, <2>1, AuditedStays DEF CommandOK
  <2>3. log[i].phase = "running" => Planned(log[i])'
    <3>1. log[i].undoOf \in DOMAIN log /\ log[log[i].undoOf].change # None =>
              log[log[i].undoOf].change.entity \in Entity
      BY DEF LogOK, CommandOK, Audited, ChangeRow
    <3>2. Creating(log[i]) => row'[log[i].target] = NoRow
      BY <1>1 DEF Creating
    <3> QED
      BY <1>5, <2>1, <3>1, <3>2, PlannedStays DEF CommandOK
  <2> QED
    BY <2>1, <2>2, <2>3 DEF CommandOK
<1>8. CommandOK(n)'
  <2>1. n \in Nat /\ DOMAIN log = 1 .. Len(log) /\ Len(log) \in Nat
    BY <1>0, <1>3, LogDomain
  <2>2. undoOf \in 0 .. n - 1 /\ (undoOf # 0 <=> type = <<"undo", "compensate">>)
    BY <1>0, <2>1 DEF Submitted
  <2>3. Planned(c)'
    <3>1. CASE Undoing(c)
      <4>1. Undoing(c)'
        BY <1>1, <1>4, <3>1 DEF Undoing, Known, RowOf
      <4> QED
        BY <4>1 DEF Planned
    <3>2. CASE ~Undoing(c)
      <4>1. Creating(c) \/ Updating(c) \/ Hiding(c) \/ Transiting(c) \/ Choosing(c) \/ Deciding(c)
            \/ Versioning(c)
        BY <1>1, <3>2 DEF Planned
      <4>2. (Creating(c) \/ Updating(c) \/ Hiding(c) \/ Transiting(c) \/ Choosing(c) \/ Deciding(c)
            \/ Versioning(c))'
        BY <1>1, <4>1
           DEF Creating, Updating, Hiding, Transiting, Choosing, Deciding, Versioning, Exists, Known, RowOf
      <4> QED
        BY <4>2 DEF Planned
    <3> QED
      BY <3>1, <3>2
  <2> QED
    BY <1>2, <1>4, <2>2, <2>3 DEF CommandOK
<1>9. CreatesApart'
  <2> SUFFICES ASSUME NEW i \in DOMAIN log', NEW j \in DOMAIN log', i # j,
                      log'[i].phase = "running", log'[j].phase = "running",
                      Creating(log'[i]), Creating(log'[j])
               PROVE  log'[i].target # log'[j].target
    <3>1. \A d \in {log'[k] : k \in DOMAIN log'} : Creating(d)' <=> Creating(d)
      BY <1>1 DEF Creating
    <3> QED
      BY <3>1, ZenonT(60) DEF CreatesApart
  <2>1. ASSUME Creating(c) PROVE \A k \in DOMAIN log : log[k].target # c.target
    BY <1>2, <2>1 DEF Submitted, c
  <2>2. CASE i \in DOMAIN log /\ j \in DOMAIN log
    BY <1>4, <2>2 DEF LogOK, CreatesApart
  <2>3. CASE i = n /\ j \in DOMAIN log
    BY <1>4, <2>1, <2>3
  <2>4. CASE j = n /\ i \in DOMAIN log
    BY <1>4, <2>1, <2>4
  <2> QED
    BY <1>4, <2>2, <2>3, <2>4
<1> QED
  BY <1>4, <1>5, <1>6, <1>7, <1>8, <1>9 DEF LogOK

LEMMA SubmitStep ==
    ASSUME TablesOK, LogOK, Submit
    PROVE  LogOK' /\ Monotone /\ TablesOK'
<1>1. CASE SubmitUndo
  BY <1>1, SubmitUndoCommand, PersistKeepsLog
<1>2. CASE ~SubmitUndo
  <2>1. \E type, target, arg, seen : Submitted(type, target, arg, seen, 0)
    BY <1>2, SubmitRowCommand, SubmitVersionCommand DEF Submit
  <2> QED
    BY <2>1, PersistKeepsLog
<1> QED
  BY <1>1, <1>2

\* Commands on candidates, versions and relations write no row of an entity.
LEMMA PlansNoRow ==
    ASSUME NEW c, NEW now,
           c.type \in {<<"candidate", "reject">>, <<"candidate", "reconsider">>, <<"candidate", "confirm">>,
                       <<"paper_version", "change_context">>, <<"paper_version", "retract">>,
                       <<"relation", "retract">>}
    PROVE  Plan(c, now) = {}
<1>1. c.type \notin {<<"paper", "create">>, <<"paper", "set_current_version">>, <<"paper", "update">>}
  OBVIOUS
<1>2. c.type \notin {<<"submission", "create">>, <<"submission", "transition">>, <<"submission", "update">>}
  OBVIOUS
<1>3. c.type \notin {<<"idea", "create">>, <<"idea", "update">>, <<"undo", "compensate">>}
  OBVIOUS
<1>4. c.type[2] # "soft_delete" /\ c.type[2] # "restore"
  OBVIOUS
<1>5. /\ c.type # <<"paper", "create">> /\ c.type # <<"idea", "create">>
      /\ c.type # <<"submission", "create">> /\ c.type # <<"paper", "set_current_version">>
      /\ c.type # <<"submission", "transition">> /\ c.type # <<"undo", "compensate">>
      /\ c.type # <<"paper", "update">> /\ c.type # <<"idea", "update">>
      /\ c.type # <<"submission", "update">>
  BY ONLY <1>1, <1>2, <1>3
<1> QED
  BY ONLY <1>4, <1>5 DEF Plan

\* Commands that create plan a creation only.
LEMMA PlansCreation ==
    ASSUME NEW c, NEW now,
           c.type \in {<<"paper", "create">>, <<"idea", "create">>, <<"submission", "create">>}
    PROVE  Plan(c, now) \subseteq CreatePaper(c) \cup CreateIdea(c) \cup CreateSubmission(c)
<1>1. CASE c.type = <<"paper", "create">>
  BY ONLY <1>1 DEF Plan
<1>2. CASE c.type = <<"idea", "create">>
  <2>1. c.type # <<"paper", "create">>
    BY ONLY <1>2
  <2> QED
    BY ONLY <1>2, <2>1 DEF Plan
<1>3. CASE c.type = <<"submission", "create">>
  <2>1. c.type # <<"paper", "create">> /\ c.type # <<"idea", "create">>
    BY ONLY <1>3
  <2> QED
    BY ONLY <1>3, <2>1 DEF Plan
<1> QED
  BY <1>1, <1>2, <1>3

LEMMA PlanIsSound ==
    ASSUME TablesOK, LogOK, NEW i \in InFlight, NEW m \in Plan(log[i], i)
    PROVE  Sound(m) /\ (m.op = "create" => Creating(log[i]) /\ m.entity = log[i].target)
<1>1. i \in DOMAIN log /\ Planned(log[i]) /\ RowsOK /\ log[i].undoOf \in 0 .. i - 1
  BY DEF InFlight, LogOK, CommandOK, TablesOK, RowsShape
<1>2. i \in Stamp
  BY <1>1, LogDomain, Identities DEF LogOK, LogShape, Stamp
<1>3. CASE Creating(log[i])
  <2>1. log[i].type \in {<<"paper", "create">>, <<"idea", "create">>, <<"submission", "create">>}
    BY <1>3 DEF Creating
  <2>2. m \in CreatePaper(log[i]) \cup CreateIdea(log[i]) \cup CreateSubmission(log[i])
    BY <2>1, PlansCreation
  <2>3. m.entity = log[i].target
    BY ONLY <2>2 DEF CreatePaper, CreateIdea, CreateSubmission, Creation
  <2> QED
    BY <1>3, <2>3, CreatingIsSound
<1>4. CASE Updating(log[i])
  BY <1>1, <1>4, UpdatingIsSound
<1>5. CASE Hiding(log[i])
  BY <1>1, <1>2, <1>5, HidingIsSound
<1>6. CASE Transiting(log[i])
  BY <1>1, <1>6, TransitingIsSound
<1>7. CASE Choosing(log[i])
  BY <1>7, ChoosingIsSound
<1>8. CASE Undoing(log[i])
  <2>1. log[log[i].undoOf].change # None => Audited(log[log[i].undoOf].change)
    BY <1>8 DEF Undoing, LogOK, CommandOK
  <2> QED
    BY <1>2, <1>8, <2>1, UndoingIsSound
<1>9. CASE Deciding(log[i])
  <2>1. log[i].type \in {<<"candidate", "reject">>, <<"candidate", "reconsider">>, <<"candidate", "confirm">>}
    BY <1>9 DEF Deciding
  <2>2. Plan(log[i], i) = {}
    BY <2>1, PlansNoRow
  <2> QED
    BY <2>2
<1>10. CASE Versioning(log[i])
  <2>1. log[i].type \in {<<"paper_version", "change_context">>, <<"paper_version", "retract">>,
                         <<"relation", "retract">>}
    BY <1>10 DEF Versioning
  <2>2. Plan(log[i], i) = {}
    BY <2>1, PlansNoRow
  <2> QED
    BY <2>2
<1> QED
  BY <1>1, <1>3, <1>4, <1>5, <1>6, <1>7, <1>8, <1>9, <1>10 DEF Planned

-----------------------------------------------------------------------------
(* The end of a command *)

LEMMA AcceptedIsCurrent ==
    ASSUME RowsShape, NEW m, Sound(m), Accepted(m)
    PROVE  /\ m.op # "create" => m.before = row[m.entity]
           /\ row' = [row EXCEPT ![m.entity] = m.after] => Advances(m.entity, m.after)
<1>1. m.entity \in Entity
  BY DEF Sound, ChangeRow
<1>2. m.op # "create" => m.before = row[m.entity]
  <2>1. ASSUME m.op # "create" PROVE m.before = row[m.entity]
    <3>1. Unchanged(m)
      BY <2>1 DEF Accepted, PaperAccepted, IdeaAccepted, SubmissionAccepted
    <3> QED
      BY <2>1, <3>1 DEF Sound, Creates, Rewrites, Known, Unchanged
  <2> QED
    BY <2>1
<1>3. ASSUME row' = [row EXCEPT ![m.entity] = m.after] PROVE Advances(m.entity, m.after)
  BY <1>2, <1>3 DEF Sound, Creates, Rewrites, Known, Advances
<1> QED
  BY <1>2, <1>3

RowsMonotone ==
    /\ \A e \in Entity : \A r : Known(e, r) => Known(e, r)'
    /\ \A e \in Entity : row[e] # NoRow => row'[e] # NoRow

LEMMA UnchangedIsMonotone == ASSUME row' = row PROVE RowsMonotone
  BY DEF RowsMonotone, Known, RowOf

LEMMA AdvanceIsMonotone ==
    ASSUME RowsShape, NEW e \in Entity, NEW r, Advances(e, r)
    PROVE  RowsMonotone
  BY KnownStays, AdvanceKeepsRows DEF RowsMonotone

LEMMA EndIsMonotone ==
    ASSUME LogOK, NEW i \in InFlight, NEW phase, NEW change, Ended(i, phase, change), RowsMonotone,
           \A c \in Candidate : cand[c] # NoRow => cand'[c] # NoRow
    PROVE  Monotone
<1>1. i \in DOMAIN log /\ log[i].phase = "running" /\ LogShape
  BY DEF InFlight, LogOK
<1>2. DOMAIN log' = DOMAIN log /\ \A j \in DOMAIN log : j # i => log'[j] = log[j]
  BY <1>1, EndedCommand
<1> QED
  BY <1>1, <1>2 DEF Monotone, RowsMonotone

LEMMA EndKeepsLog ==
    ASSUME LogOK, NEW i \in InFlight, NEW phase \in {"committed", "failed"}, NEW change,
           Ended(i, phase, change), Monotone,
           change # None => phase = "committed" /\ Audited(change)',
           \A j \in InFlight : j # i /\ Creating(log[j]) => row'[log[j].target] = NoRow
    PROVE  LogOK'
<1>1. i \in DOMAIN log /\ log[i].phase = "running" /\ LogShape
  BY DEF InFlight, LogOK
<1>2. /\ LogShape' /\ DOMAIN log' = DOMAIN log
      /\ log'[i].type = log[i].type /\ log'[i].undoOf = log[i].undoOf
      /\ log'[i].phase = phase /\ log'[i].change = change
      /\ \A j \in DOMAIN log : j # i => log'[j] = log[j]
  BY <1>1, EndedCommand
<1>3. CommandOK(i)'
  <2>1. CommandOK(i)
    BY <1>1 DEF LogOK
  <2>2. change # None => Audited(log[i].change)'
    BY <1>2 DEF Audited, Known, RowOf, ChangeRow
  <2> QED
    BY <1>2, <2>1, <2>2 DEF CommandOK
<1>4. ASSUME NEW j \in DOMAIN log, j # i PROVE CommandOK(j)'
  <2>1. CommandOK(j) /\ log'[j] = log[j]
    BY <1>2, <1>4 DEF LogOK
  <2>2. log[j].change # None => Audited(log[j].change)'
    BY <2>1, AuditedStays DEF CommandOK
  <2>3. log[j].phase = "running" => Planned(log[j])'
    <3>1. log[j].undoOf \in DOMAIN log /\ log[log[j].undoOf].change # None =>
              log[log[j].undoOf].change.entity \in Entity
      BY DEF LogOK, CommandOK, Audited, ChangeRow
    <3>2. log[j].phase = "running" /\ Creating(log[j]) => row'[log[j].target] = NoRow
      BY <1>4 DEF InFlight
    <3> QED
      BY <2>1, <3>1, <3>2, PlannedStays DEF CommandOK
  <2> QED
    BY <2>1, <2>2, <2>3 DEF CommandOK
<1>5. CreatesApart'
  <2> SUFFICES ASSUME NEW k \in DOMAIN log, NEW j \in DOMAIN log, k # j,
                      log'[k].phase = "running", log'[j].phase = "running",
                      Creating(log[k])', Creating(log[j])'
               PROVE  log'[k].target # log'[j].target
    BY <1>2 DEF CreatesApart
  <2>1. ASSUME NEW a \in {j, k} PROVE log'[a] = log[a] /\ log[a].phase = "running" /\ Creating(log[a])
    <3>1. log'[a] = log[a] /\ log[a].phase = "running"
      BY <1>2, <2>1
    <3>2. Creating(log[a])'
      BY <2>1
    <3>3. log[a].target \in Entity /\ row'[log[a].target] = NoRow
      BY <3>1, <3>2 DEF Creating, Entity
    <3>4. row[log[a].target] = NoRow
      BY <3>3 DEF Monotone
    <3> QED
      BY <3>1, <3>2, <3>4 DEF Creating
  <2> QED
    BY <2>1 DEF LogOK, CreatesApart
<1> QED
  BY <1>2, <1>3, <1>4, <1>5 DEF LogOK

LEMMA CommitRowStep ==
    ASSUME TablesOK, LogOK, NEW i \in InFlight, NEW m \in Plan(log[i], i), Accepted(m),
           row' = [row EXCEPT ![m.entity] = m.after], Ended(i, "committed", m),
           UNCHANGED <<version, edge, cand>>
    PROVE  /\ TablesOK' /\ LogOK' /\ Monotone /\ Audited(m)'
           /\ Advances(m.entity, m.after) /\ m.entity \in Entity
           /\ m.op # "create" => m.before = row[m.entity]
<1>1. Sound(m) /\ (m.op = "create" => Creating(log[i]) /\ m.entity = log[i].target)
  BY PlanIsSound
<1>2. m.entity \in Entity /\ m \in ChangeRow
  BY <1>1 DEF Sound, ChangeRow
<1>3. Advances(m.entity, m.after) /\ (m.op # "create" => m.before = row[m.entity])
  BY <1>1, AcceptedIsCurrent DEF TablesOK
<1>4. RowsMonotone /\ RowsShape' /\ Known(m.entity, m.after)'
  BY <1>2, <1>3, AdvanceIsMonotone, AdvanceKeepsRows DEF TablesOK
<1>5. Monotone
  BY <1>4, EndIsMonotone
<1>6. TablesOK'
  <2>1. VersionsOK'
    <3>1. \A v \in Version : PaperOf(v) \in Entity
      BY DEF Version, PaperOf, Entity
    <3> QED
      BY <1>4, <3>1 DEF TablesOK, VersionsOK, Exists, RowsMonotone
  <2> QED
    BY <1>4, <2>1 DEF TablesOK
<1>7. Audited(m)'
  BY <1>1, <1>2, <1>4 DEF Audited, Sound, Creates, Rewrites, RowOf, ChangeRow
<1>8. ASSUME NEW j \in InFlight, j # i, Creating(log[j]) PROVE row'[log[j].target] = NoRow
  <2>1. row[log[j].target] = NoRow
    BY <1>8 DEF Creating
  <2>2. m.entity # log[j].target
    <3>1. CASE m.op = "create"
      BY <1>1, <1>8, <3>1 DEF LogOK, CreatesApart, InFlight
    <3>2. CASE m.op # "create"
      BY <1>1, <2>1, <3>2, RowFacts DEF Sound, Creates, Rewrites, Known
    <3> QED
      BY <3>1, <3>2
  <2>3. log[j].target \in Entity
    BY <1>8 DEF Creating, Entity
  <2> QED
    BY <2>1, <2>2, <2>3 DEF TablesOK, RowsShape
<1>9. LogOK'
  BY <1>5, <1>7, <1>8, EndKeepsLog
<1> QED
  BY <1>2, <1>3, <1>5, <1>6, <1>7, <1>9

LEMMA EndWithoutRow ==
    ASSUME LogOK, NEW i \in InFlight, NEW phase \in {"committed", "failed"}, Ended(i, phase, None),
           row' = row, \A c \in Candidate : cand[c] # NoRow => cand'[c] # NoRow
    PROVE  LogOK' /\ Monotone
<1>1. Monotone
  BY UnchangedIsMonotone, EndIsMonotone
<1>2. \A j \in InFlight : Creating(log[j]) => row'[log[j].target] = NoRow
  BY DEF Creating
<1> QED
  BY <1>1, <1>2, EndKeepsLog

CandidatesOK == cand \in [Candidate -> CandidateRow \cup {NoRow}]

LEMMA DecidedFits ==
    ASSUME CandidatesOK, NEW c \in Candidate, cand[c] # NoRow,
           NEW status \in {"pending", "confirmed", "rejected", "superseded"}, Decided(c, status)
    PROVE  /\ CandidatesOK' /\ cand'[c] # NoRow /\ cand'[c].status = status
           /\ \A d \in Candidate : d # c => cand'[d] = cand[d]
<1> DEFINE r == [status |-> status, rv |-> cand[c].rv + 1]
<1>1. cand[c] \in CandidateRow
  BY DEF CandidatesOK
<1>2. r \in CandidateRow /\ r.status = status
  BY <1>1 DEF CandidateRow, RowVersion
<1>3. cand' = [cand EXCEPT ![c] = r]
  BY DEF Decided
<1> HIDE DEF r
<1> QED
  BY <1>2, <1>3, Tables DEF CandidatesOK

LEMMA UnchangedTables ==
    ASSUME TablesOK, UNCHANGED row
    PROVE  RowsShape'
  BY DEF TablesOK, RowsShape, RowsOK, RowOf

LEMMA DecideStep ==
    ASSUME TablesOK, LogOK, NEW i \in InFlight, DecideCandidate(i)
    PROVE  /\ TablesOK' /\ LogOK'
           /\ log[i].target \in Candidate /\ cand[log[i].target] # NoRow
           /\ \E d \in {<<"pending", "rejected">>, <<"rejected", "pending">>} :
                cand[log[i].target].status = d[1] /\ Decided(log[i].target, d[2])
<1>1. Planned(log[i]) /\ log[i].type[1] = "candidate" /\ log[i].type[2] \in {"reject", "reconsider"}
  BY DEF DecideCandidate, Decisions, LogOK, CommandOK, InFlight
<1>2. log[i].target \in Candidate /\ cand[log[i].target] # NoRow
  BY <1>1 DEF Planned, Creating, Updating, Hiding, Transiting, Choosing, Undoing, Deciding, Versioning
<1>3. PICK d \in {<<"pending", "rejected">>, <<"rejected", "pending">>} :
        cand[log[i].target].status = d[1] /\ Decided(log[i].target, d[2])
  BY <1>1 DEF DecideCandidate, Decisions
<1>4. PICK c \in Candidate : c = log[i].target
  BY <1>2
<1>5. CandidatesOK' /\ \A x \in Candidate : cand[x] # NoRow => cand'[x] # NoRow
  BY <1>2, <1>3, <1>4, DecidedFits DEF TablesOK, CandidatesOK
<1>6. UNCHANGED <<row, version, edge>> /\ Ended(i, "committed", None)
  BY DEF DecideCandidate
<1>7. LogOK'
  BY <1>5, <1>6, EndWithoutRow
<1>8. TablesOK'
  BY <1>5, <1>6, UnchangedTables DEF TablesOK, VersionsOK, Exists, CandidatesOK
<1> QED
  BY <1>2, <1>3, <1>7, <1>8

\* What a confirmation works on.
LEMMA ConfirmFacts ==
    ASSUME TablesOK, LogOK, NEW i \in InFlight, ConfirmCandidate(i)
    PROVE  \E c \in Candidate, p \in Paper :
             /\ c = log[i].target /\ p = log[i].arg /\ <<p, c[1]>> \in Version /\ <<p, c[2]>> \in Version
             /\ cand[c] # NoRow /\ cand[c].status = "pending"
             /\ SuccessorAllowed(<<p, c[2]>>, <<p, c[1]>>, EdgesOf(p))
             /\ AddMemberships({<<p, c[2]>>, <<p, c[1]>>})
             /\ AddRelation(i, <<p, c[2]>>, <<p, c[1]>>)
             /\ Decided(c, "confirmed")
<1>1. Planned(log[i]) /\ log[i].type = <<"candidate", "confirm">>
  BY DEF ConfirmCandidate, LogOK, CommandOK, InFlight
<1>2. log[i].target \in Candidate /\ cand[log[i].target] # NoRow /\ log[i].arg \in Paper
  BY <1>1 DEF Planned, Creating, Updating, Hiding, Transiting, Choosing, Undoing, Deciding, Versioning
<1>3. PICK c \in Candidate, p \in Paper : c = log[i].target /\ p = log[i].arg
  BY <1>2
<1>4. <<p, c[1]>> \in Version /\ <<p, c[2]>> \in Version
  BY Tables DEF Version
<1>5. /\ cand[c].status = "pending"
      /\ SuccessorAllowed(<<p, c[2]>>, <<p, c[1]>>, EdgesOf(p))
      /\ AddMemberships({<<p, c[2]>>, <<p, c[1]>>})
      /\ AddRelation(i, <<p, c[2]>>, <<p, c[1]>>)
      /\ Decided(c, "confirmed")
  BY <1>3 DEF ConfirmCandidate
<1> QED
  BY <1>2, <1>3, <1>4, <1>5

LEMMA MembershipsFit ==
    ASSUME VersionsOK, NEW vs \in SUBSET Version, AddMemberships(vs), row' = row
    PROVE  /\ VersionsOK'
           /\ \A v \in Version : IsActive(v) => IsActive(v)'
           /\ \A v \in vs : Membership(v).state = "active" => IsActive(v)'
           /\ \A v \in Version : version[v] # NoRow => version'[v] = version[v]
<1>1. NewMembership \in VersionRow /\ NewMembership.state = "active"
  BY DEF NewMembership, VersionRow, RowVersion
<1> DEFINE new == {v \in vs : version[v] = NoRow}
<1>2. /\ version' = [v \in Version |-> IF v \in new THEN NewMembership ELSE version[v]]
      /\ \A v \in new : Exists(PaperOf(v))
  BY DEF AddMemberships, Visible
<1>3. NewMembership # NoRow
  BY <1>1, Tables
<1> QED
  BY <1>1, <1>2, <1>3 DEF VersionsOK, IsActive, Membership, Exists

LEMMA ConfirmStep ==
    ASSUME TablesOK, LogOK, NEW i \in InFlight, ConfirmCandidate(i)
    PROVE  TablesOK' /\ LogOK' /\ \A v \in Version : IsActive(v) => IsActive(v)'
<1>1. PICK c \in Candidate, p \in Paper :
             /\ <<p, c[1]>> \in Version /\ <<p, c[2]>> \in Version
             /\ cand[c] # NoRow
             /\ AddMemberships({<<p, c[2]>>, <<p, c[1]>>})
             /\ AddRelation(i, <<p, c[2]>>, <<p, c[1]>>)
             /\ Decided(c, "confirmed")
  BY ConfirmFacts
<1>2. row' = row /\ Ended(i, "committed", None)
  BY DEF ConfirmCandidate
<1>3. CandidatesOK' /\ \A x \in Candidate : cand[x] # NoRow => cand'[x] # NoRow
  BY <1>1, DecidedFits DEF TablesOK, CandidatesOK
<1>4. VersionsOK' /\ \A v \in Version : IsActive(v) => IsActive(v)'
  BY <1>1, <1>2, MembershipsFit DEF TablesOK
<1>5. i \in Stamp
  BY LogDomain, Identities DEF InFlight, LogOK, LogShape, Stamp
<1>6. edge' \subseteq EdgeRow
  BY <1>1, <1>5 DEF AddRelation, EdgeRow, RowVersion, TablesOK
<1>7. LogOK'
  BY <1>2, <1>3, EndWithoutRow
<1> QED
  BY <1>2, <1>3, <1>4, <1>6, <1>7, UnchangedTables DEF TablesOK, CandidatesOK

LEMMA VersioningFacts ==
    ASSUME LogOK, NEW i \in InFlight
    PROVE  /\ RetractVersion(i) => log[i].target \in Version
           /\ ChangeVersionContext(i) =>
                log[i].target \in Version /\ log[i].arg \in Snapshot \cup {None}
           /\ RetractRelation(i) => log[i].seen \in EdgeRow
<1> PICK c : c = log[i]
  OBVIOUS
<1>1. Planned(c)
  BY DEF LogOK, CommandOK, InFlight
<1>2. ASSUME c.type \in {<<"paper_version", "retract">>, <<"paper_version", "change_context">>,
                         <<"relation", "retract">>}
      PROVE  Versioning(c)
  <2>1. c.type \notin {"paper", "idea", "submission"} \X {"soft_delete", "restore"}
    BY <1>2
  <2>2. ~ Creating(c) /\ ~ Updating(c) /\ ~ Transiting(c)
    BY <1>2 DEF Creating, Updating, Transiting
  <2>3. ~ Hiding(c) /\ ~ Choosing(c) /\ ~ Undoing(c) /\ ~ Deciding(c)
    BY <1>2, <2>1 DEF Hiding, Choosing, Undoing, Deciding
  <2> QED
    BY <1>1, <2>2, <2>3 DEF Planned
<1>3. ASSUME c.type \in {<<"paper_version", "retract">>, <<"paper_version", "change_context">>}
      PROVE  c.target \in Version /\ c.arg \in Snapshot \cup {None}
  <2>1. Versioning(c)
    BY <1>2, <1>3
  <2> QED
    BY <1>3, <2>1 DEF Versioning
<1>4. ASSUME c.type = <<"relation", "retract">> PROVE c.seen \in EdgeRow
  <2>1. Versioning(c)
    BY <1>2, <1>4
  <2> QED
    BY <1>4, <2>1 DEF Versioning
<1>5. RetractVersion(i) => c.type = <<"paper_version", "retract">>
  BY DEF RetractVersion
<1>6. ChangeVersionContext(i) => c.type = <<"paper_version", "change_context">>
  BY DEF ChangeVersionContext
<1>7. RetractRelation(i) => c.type = <<"relation", "retract">>
  BY DEF RetractRelation
<1> QED
  BY <1>3, <1>4, <1>5, <1>6, <1>7

LEMMA RetractVersionStep ==
    ASSUME TablesOK, LogOK, NEW i \in InFlight, RetractVersion(i)
    PROVE  /\ TablesOK' /\ LogOK'
           /\ \A v \in Version : v # log[i].target => version'[v] = version[v]
<1>1. PICK v \in Version : v = log[i].target
  BY VersioningFacts
<1>2. /\ version' = [version EXCEPT ![v].state = "retracted", ![v].rv = @ + 1]
      /\ UNCHANGED <<row, edge, cand>> /\ Ended(i, "committed", None) /\ version[v] # NoRow
  BY <1>1 DEF RetractVersion, IsActive
<1>3. version[v] \in VersionRow
  BY <1>2 DEF TablesOK, VersionsOK
<1>4. /\ [[version[v] EXCEPT !.state = "retracted"] EXCEPT !.rv = version[v].rv + 1] \in VersionRow
      /\ version' = [version EXCEPT
            ![v] = [[version[v] EXCEPT !.state = "retracted"] EXCEPT !.rv = version[v].rv + 1]]
  BY <1>2, <1>3 DEF VersionRow, RowVersion, TablesOK, VersionsOK
<1>5. VersionsOK'
  BY <1>2, <1>4 DEF TablesOK, VersionsOK, Exists
<1>6. LogOK'
  BY <1>2, EndWithoutRow
<1> QED
  BY <1>1, <1>2, <1>4, <1>5, <1>6, UnchangedTables DEF TablesOK, VersionsOK

LEMMA ContextStep ==
    ASSUME TablesOK, LogOK, NEW i \in InFlight, ChangeVersionContext(i)
    PROVE  TablesOK' /\ LogOK' /\ \A v \in Version : IsActive(v) => IsActive(v)'
<1>1. PICK v \in Version, x \in Snapshot \cup {None} : v = log[i].target /\ x = log[i].arg
  BY VersioningFacts
<1>2. /\ version' = [version EXCEPT ![v].context = x, ![v].rv = @ + 1]
      /\ UNCHANGED <<row, edge, cand>> /\ Ended(i, "committed", None) /\ version[v] # NoRow
  BY <1>1 DEF ChangeVersionContext, IsActive
<1>3. version[v] \in VersionRow
  BY <1>2 DEF TablesOK, VersionsOK
<1> DEFINE r == [[version[v] EXCEPT !.context = x] EXCEPT !.rv = version[v].rv + 1]
<1>4. r \in VersionRow /\ r.state = version[v].state /\ version' = [version EXCEPT ![v] = r]
  BY <1>2, <1>3 DEF VersionRow, RowVersion, TablesOK, VersionsOK
<1> HIDE DEF r
<1>5. VersionsOK' /\ \A u \in Version : IsActive(u) => IsActive(u)'
  BY <1>2, <1>4, Tables, ZenonT(60) DEF TablesOK, VersionsOK, Exists, IsActive
<1>6. LogOK'
  BY <1>2, EndWithoutRow
<1> QED
  BY <1>2, <1>5, <1>6, UnchangedTables DEF TablesOK

LEMMA RetractRelationStep ==
    ASSUME TablesOK, LogOK, NEW i \in InFlight, RetractRelation(i)
    PROVE  /\ TablesOK' /\ LogOK' /\ ActiveEdges' \subseteq ActiveEdges
           /\ UNCHANGED <<row, version, cand>>
           /\ \E old \in edge, new \in EdgeRow :
                /\ edge' = (edge \ {old}) \cup {new} /\ new.id = old.id
                /\ new.later = old.later /\ new.earlier = old.earlier
<1>1. PICK old \in EdgeRow : old = log[i].seen
  BY VersioningFacts
<1> DEFINE new == [[old EXCEPT !.state = "retracted"] EXCEPT !.rv = old.rv + 1]
<1>2. /\ new \in EdgeRow /\ new.state = "retracted" /\ new.id = old.id /\ new.later = old.later
      /\ new.earlier = old.earlier
      /\ [old EXCEPT !.state = "retracted", !.rv = @ + 1] = new
  <2>1. new \in EdgeRow /\ new.state = "retracted"
    <3>1. ASSUME NEW r \in EdgeRow PROVE [r EXCEPT !.state = "retracted"] \in EdgeRow
      BY DEF EdgeRow
    <3>2. ASSUME NEW r \in EdgeRow, NEW n \in RowVersion PROVE [r EXCEPT !.rv = n] \in EdgeRow
      BY DEF EdgeRow
    <3>3. old.rv + 1 \in RowVersion
      BY DEF EdgeRow, RowVersion
    <3>4. new.state = "retracted"
      BY DEF EdgeRow
    <3> QED
      BY <3>1, <3>2, <3>3, <3>4
  <2>2. new.id = old.id /\ new.later = old.later /\ new.earlier = old.earlier
    BY DEF EdgeRow
  <2>3. [old EXCEPT !.state = "retracted", !.rv = @ + 1] = new
    <3>1. ASSUME NEW r \in EdgeRow, NEW n
          PROVE  [r EXCEPT !.state = "retracted", !.rv = n] = [[r EXCEPT !.state = "retracted"] EXCEPT !.rv = n]
      BY DEF EdgeRow
    <3> QED
      BY <3>1
  <2> QED
    BY <2>1, <2>2, <2>3
<1> HIDE DEF new
<1>3. /\ edge' = (edge \ {old}) \cup {new} /\ old \in edge
      /\ UNCHANGED <<row, version, cand>> /\ Ended(i, "committed", None)
  BY <1>1, <1>2 DEF RetractRelation
<1>4. ActiveEdges' \subseteq ActiveEdges
  BY <1>2, <1>3 DEF ActiveEdges
<1>5. LogOK'
  BY <1>3, EndWithoutRow
<1>6. edge' \subseteq EdgeRow
  BY <1>2, <1>3 DEF TablesOK
<1> QED
  BY <1>2, <1>3, <1>4, <1>5, <1>6, UnchangedTables DEF TablesOK, VersionsOK, Exists

LEMMA FailStep ==
    ASSUME TablesOK, LogOK, NEW i \in InFlight, MarkCommandFailed(i)
    PROVE  TablesOK' /\ LogOK'
<1>1. Ended(i, "failed", None) /\ UNCHANGED <<row, version, edge, cand>>
  BY DEF MarkCommandFailed
<1>2. LogOK'
  BY <1>1, EndWithoutRow
<1> QED
  BY <1>1, <1>2, UnchangedTables DEF TablesOK, VersionsOK, Exists

LEMMA DetectorStep ==
    ASSUME TablesOK, LogOK, NEW c \in Candidate, NEW r \in Candidate,
           RegisterVersionCandidate(c) \/ SupersedeVersionCandidate(c, r)
    PROVE  /\ TablesOK' /\ LogOK'
           /\ \A d \in Candidate : d # c => cand'[d] = cand[d]
           /\ cand'[c].status \in {"pending", "superseded"}
           /\ cand[c] = NoRow \/ cand[c].status = "pending"
<1>1. UNCHANGED <<row, version, edge, log>>
  BY DEF RegisterVersionCandidate, SupersedeVersionCandidate
<1> DEFINE Rewritten ==
      /\ CandidatesOK' /\ cand'[c] # NoRow /\ cand'[c].status \in {"pending", "superseded"}
      /\ \A d \in Candidate : d # c => cand'[d] = cand[d]
      /\ cand[c] = NoRow \/ cand[c].status = "pending"
<1>2. ASSUME RegisterVersionCandidate(c) PROVE Rewritten
  <2> DEFINE new == [status |-> "pending", rv |-> 1]
  <2>1. cand' = [cand EXCEPT ![c] = new] /\ new \in CandidateRow /\ new.status = "pending" /\ cand[c] = NoRow
    BY <1>2 DEF RegisterVersionCandidate, CandidateRow, RowVersion
  <2> HIDE DEF new
  <2> QED
    BY <2>1, Tables DEF TablesOK, CandidatesOK
<1>3. ASSUME SupersedeVersionCandidate(c, r) PROVE Rewritten
  <2>1. /\ cand[c] # NoRow /\ cand[c].status = "pending" /\ Decided(c, "superseded")
    BY <1>3 DEF SupersedeVersionCandidate, Decided
  <2> QED
    BY <2>1, DecidedFits DEF TablesOK, CandidatesOK
<1>4. Rewritten
  BY <1>2, <1>3
<1>5. Monotone
  BY <1>1, <1>4, UnchangedIsMonotone DEF Monotone, RowsMonotone
<1>6. LogOK'
  <2>1. ASSUME NEW i \in DOMAIN log PROVE CommandOK(i)'
    <3>1. CommandOK(i) /\ log'[i] = log[i]
      BY <1>1 DEF LogOK
    <3>2. log[i].change # None => Audited(log[i].change)'
      BY <1>5, <3>1, AuditedStays DEF CommandOK
    <3>3. log[i].phase = "running" => Planned(log[i])'
      <4>1. log[i].undoOf \in DOMAIN log /\ log[log[i].undoOf].change # None =>
                log[log[i].undoOf].change.entity \in Entity
        BY DEF LogOK, CommandOK, Audited, ChangeRow
      <4>2. Creating(log[i]) => row'[log[i].target] = NoRow
        BY <1>1 DEF Creating
      <4> QED
        BY <1>5, <3>1, <4>1, <4>2, PlannedStays DEF CommandOK
    <3> QED
      BY <3>1, <3>2, <3>3 DEF CommandOK
  <2>2. LogShape' /\ CreatesApart'
    BY <1>1 DEF LogOK, LogShape, CreatesApart, Creating
  <2> QED
    BY <1>1, <2>1, <2>2 DEF LogOK
<1> QED
  BY <1>1, <1>4, <1>6, UnchangedTables DEF TablesOK, CandidatesOK, VersionsOK, Exists

-----------------------------------------------------------------------------
(* The version graph *)

\* A set that holds the earlier end of a new relation, not the later one, and
\* is closed under the relations there are, shows that no cycle appears.
LEMMA AcyclicAdd ==
    ASSUME NEW edges, Acyclic(edges), NEW new, NEW C \in SUBSET Version, Closed(C, edges),
           new.earlier \in C, new.later \notin C
    PROVE  Acyclic(edges \cup {new})
<1> SUFFICES ASSUME NEW S \in SUBSET Version, S # {}
             PROVE  \E v \in S : \A e \in edges \cup {new} : e.later = v => e.earlier \notin S
  BY DEF Acyclic
<1>1. CASE S \cap C = {}
  <2>1. PICK v \in S : \A e \in edges : e.later = v => e.earlier \notin S
    BY DEF Acyclic
  <2> QED
    BY <1>1, <2>1
<1>2. CASE S \cap C # {}
  <2>1. S \cap C \in SUBSET Version
    OBVIOUS
  <2>2. PICK v \in S \cap C : \A e \in edges : e.later = v => e.earlier \notin S \cap C
    BY <1>2, <2>1 DEF Acyclic
  <2> QED
    BY <2>2 DEF Closed
<1> QED
  BY <1>1, <1>2

LEMMA AcyclicSubset ==
    ASSUME NEW edges, Acyclic(edges), NEW fewer, fewer \subseteq edges
    PROVE  Acyclic(fewer)
  BY DEF Acyclic

LEMMA ConfirmKeepsGraph ==
    ASSUME TablesOK, LogOK, VersionGraphSound, NEW i \in InFlight, ConfirmCandidate(i)
    PROVE  VersionGraphSound'
<1>1. PICK c \in Candidate, p \in Paper :
             /\ <<p, c[1]>> \in Version /\ <<p, c[2]>> \in Version
             /\ SuccessorAllowed(<<p, c[2]>>, <<p, c[1]>>, EdgesOf(p))
             /\ AddMemberships({<<p, c[2]>>, <<p, c[1]>>})
             /\ AddRelation(i, <<p, c[2]>>, <<p, c[1]>>)
  BY ConfirmFacts
<1>2. PICK earlier \in Version, later \in Version :
        earlier = <<p, c[1]>> /\ later = <<p, c[2]>> /\ PaperOf(earlier) = p /\ PaperOf(later) = p
  BY <1>1 DEF PaperOf
<1> DEFINE new == [id |-> i, later |-> later, earlier |-> earlier, state |-> "active", rv |-> 1]
<1>3. /\ edge' = edge \cup {new} /\ new.later = later /\ new.earlier = earlier /\ new.state = "active"
      /\ AddMemberships({later, earlier}) /\ SuccessorAllowed(later, earlier, EdgesOf(p))
  BY <1>1, <1>2 DEF AddRelation
<1> HIDE DEF new
<1>4. ActiveEdges' = ActiveEdges \cup {new}
  BY <1>3 DEF ActiveEdges
<1>5. row' = row
  BY DEF ConfirmCandidate
<1>6. /\ \A v \in Version : IsActive(v) => IsActive(v)'
      /\ IsActive(later)' /\ IsActive(earlier)'
  <2>1. \A v \in {later, earlier} : Membership(v).state = "active"
    BY <1>3 DEF SuccessorAllowed, EndpointsUsable
  <2> QED
    BY <1>3, <1>5, <2>1, MembershipsFit DEF TablesOK
<1>7. \A e \in ActiveEdges : e.later \in Version /\ e.earlier \in Version
  BY DEF ActiveEdges, TablesOK, EdgeRow
<1>8. \A e \in ActiveEdges' :
         /\ PaperOf(e.later) = PaperOf(e.earlier)
         /\ IsActive(e.later)' /\ IsActive(e.earlier)'
  <2>1. \A e \in ActiveEdges : PaperOf(e.later) = PaperOf(e.earlier)
                              /\ IsActive(e.later) /\ IsActive(e.earlier)
    BY DEF VersionGraphSound
  <2>2. \A e \in ActiveEdges : IsActive(e.later)' /\ IsActive(e.earlier)'
    BY <1>6, <1>7, <2>1 DEF IsActive
  <2>3. IsActive(new.later)' /\ IsActive(new.earlier)'
    BY <1>3, <1>6 DEF IsActive, new
  <2> QED
    BY <1>2, <1>3, <1>4, <2>1, <2>2, <2>3
<1>9. \A e, f \in ActiveEdges' : e.later = f.later /\ e.earlier = f.earlier => e = f
  <2>1. ASSUME NEW e \in ActiveEdges, e.later = later, e.earlier = earlier PROVE FALSE
    BY <1>2, <1>3, <2>1 DEF SuccessorAllowed, EdgesOf
  <2> QED
    BY <1>3, <1>4, <2>1 DEF VersionGraphSound
<1>10. Acyclic(ActiveEdges')
  <2>1. PICK S \in SUBSET Version : earlier \in S /\ Closed(S, EdgesOf(p)) /\ later \notin S
    BY <1>3 DEF SuccessorAllowed, Reachable
  <2> DEFINE C == {v \in S : PaperOf(v) = p}
  <2>2. C \in SUBSET Version /\ earlier \in C /\ later \notin C
    BY <1>2, <2>1
  <2>3. Closed(C, ActiveEdges)
    BY <2>1 DEF Closed, EdgesOf, VersionGraphSound
  <2> QED
    BY <1>3, <1>4, <2>2, <2>3, AcyclicAdd DEF VersionGraphSound
<1> QED
  BY <1>8, <1>9, <1>10 DEF VersionGraphSound, IsActive, Acyclic

LEMMA RetractVersionKeepsGraph ==
    ASSUME TablesOK, LogOK, VersionGraphSound, NEW i \in InFlight, RetractVersion(i)
    PROVE  VersionGraphSound'
<1>1. PICK v \in Version : v = log[i].target
  BY VersioningFacts
<1>2. TouchingEdges(v) = {} /\ edge' = edge
  BY <1>1 DEF RetractVersion
<1>3. \A u \in Version : u # v => version'[u] = version[u]
  BY <1>1, RetractVersionStep
<1>4. \A e \in ActiveEdges : e.later \in Version /\ e.earlier \in Version /\ v \notin {e.later, e.earlier}
  BY <1>2 DEF ActiveEdges, TablesOK, EdgeRow, TouchingEdges
<1>5. ActiveEdges' = ActiveEdges
  BY <1>2 DEF ActiveEdges
<1> QED
  BY <1>3, <1>4, <1>5 DEF VersionGraphSound, IsActive, Acyclic

LEMMA GraphStays ==
    ASSUME TablesOK, VersionGraphSound, ActiveEdges' \subseteq ActiveEdges,
           \A v \in Version : IsActive(v) => IsActive(v)'
    PROVE  VersionGraphSound'
<1>1. \A e \in ActiveEdges : e.later \in Version /\ e.earlier \in Version
  BY DEF ActiveEdges, TablesOK, EdgeRow
<1>2. \A e \in ActiveEdges' : e \in ActiveEdges
  OBVIOUS
<1>3. Acyclic(ActiveEdges')
  BY AcyclicSubset DEF VersionGraphSound
<1> QED
  BY <1>1, <1>2, <1>3 DEF VersionGraphSound, IsActive, Acyclic

-----------------------------------------------------------------------------
(* The versions that rows name *)

Usable == CurrentVersionUsable /\ SubmissionVersionUsable

LEMMA NamedVersions ==
    ASSUME TablesOK
    PROVE  /\ \A p \in Paper : Exists(p) /\ row[p].current # None => row[p].current \in Version
           /\ \A s \in Submission : Exists(s) /\ row[s].version # None => row[s].version \in Version
<1>1. ASSUME NEW p \in Paper, Exists(p) PROVE row[p] \in PaperRow
  BY <1>1 DEF TablesOK, RowsShape, RowsOK, RowOf, Entity, Exists
<1>2. ASSUME NEW s \in Submission, Exists(s) PROVE row[s] \in SubmissionRow
  BY <1>2, Identities DEF TablesOK, RowsShape, RowsOK, RowOf, Entity, Exists
<1> QED
  BY <1>1, <1>2 DEF PaperRow, SubmissionRow

LEMMA UsableStays ==
    ASSUME TablesOK, Usable, row' = row, \A v \in Version : IsActive(v) => IsActive(v)'
    PROVE  Usable'
  BY NamedVersions DEF Usable, CurrentVersionUsable, SubmissionVersionUsable, Exists, IsActive

LEMMA RetractVersionKeepsUsable ==
    ASSUME TablesOK, LogOK, Usable, NEW i \in InFlight, RetractVersion(i)
    PROVE  Usable'
<1>1. PICK v \in Version : v = log[i].target
  BY VersioningFacts
<1>2. /\ row' = row /\ row[PaperOf(v)].current # v /\ VisibleSubmissionsAt(v) = {}
      /\ \A u \in Version : u # v => version'[u] = version[u]
  BY <1>1, RetractVersionStep DEF RetractVersion
<1>3. CurrentVersionUsable'
  BY <1>2, NamedVersions DEF Usable, CurrentVersionUsable, Exists, IsActive
<1>4. SubmissionVersionUsable'
  <2>1. \A s \in Submission : Exists(s) /\ row[s].deleted = 0 => row[s].version # v
    BY <1>2 DEF VisibleSubmissionsAt, Visible
  <2> QED
    BY <1>2, <2>1, NamedVersions DEF Usable, SubmissionVersionUsable, Exists, IsActive
<1> QED
  BY <1>3, <1>4 DEF Usable

LEMMA CommitRowKeepsUsable ==
    ASSUME TablesOK, LogOK, Usable, NEW i \in InFlight, NEW m \in Plan(log[i], i), Accepted(m),
           row' = [row EXCEPT ![m.entity] = m.after], Ended(i, "committed", m),
           UNCHANGED <<version, edge, cand>>
    PROVE  Usable'
<1>1. Sound(m) /\ m.entity \in Entity
  BY PlanIsSound DEF Sound, ChangeRow
<1>2. row'[m.entity] = m.after /\ \A e \in Entity : e # m.entity => row'[e] = row[e]
  BY <1>1 DEF TablesOK, RowsShape
<1>3. CurrentVersionUsable'
  <2> SUFFICES ASSUME NEW p \in Paper, row'[p] # NoRow, row'[p].current # None
               PROVE  PaperOf(row'[p].current) = p /\ IsActive(row[p].current)'
    BY DEF CurrentVersionUsable, Exists
  <2>1. CASE p # m.entity
    BY <1>2, <2>1 DEF Usable, CurrentVersionUsable, Exists, IsActive, Entity
  <2>2. CASE p = m.entity
    <3>1. PaperAccepted(m)
      BY <2>2, Identities DEF Accepted
    <3>2. m.op # "create"
      BY <1>1, <1>2, <2>2 DEF Sound, Creates, Rewrites
    <3> QED
      BY <1>2, <2>2, <3>1, <3>2 DEF PaperAccepted, IsActive
  <2> QED
    BY <2>1, <2>2
<1>4. SubmissionVersionUsable'
  <2> SUFFICES ASSUME NEW s \in Submission, row'[s] # NoRow
               PROVE  /\ row'[s].submitted <=> row'[s].status \notin PreSubmission
                      /\ row'[s].submitted => row'[s].version # None
                      /\ row'[s].deleted = 0 /\ row'[s].version # None =>
                           PaperOf(row'[s].version) = row'[s].paper /\ IsActive(row[s].version)'
    BY DEF SubmissionVersionUsable, Exists
  <2>1. CASE s # m.entity
    BY <1>2, <2>1 DEF Usable, SubmissionVersionUsable, Exists, IsActive, Entity
  <2>2. CASE s = m.entity
    <3>1. SubmissionAccepted(m)
      BY <2>2, Identities DEF Accepted
    <3> QED
      BY <1>2, <2>2, <3>1 DEF SubmissionAccepted, IsActive
  <2> QED
    BY <2>1, <2>2
<1> QED
  BY <1>3, <1>4 DEF Usable

-----------------------------------------------------------------------------
(* The audit *)

LEMMA CommitRowKeepsAudit ==
    ASSUME TablesOK, LogOK, AuditExplainsRows, NEW i \in InFlight, NEW m \in Plan(log[i], i),
           Accepted(m), row' = [row EXCEPT ![m.entity] = m.after], Ended(i, "committed", m),
           UNCHANGED <<version, edge, cand>>
    PROVE  AuditExplainsRows'
<1> DEFINE Now(k) == k \in DOMAIN log' /\ log'[k].phase = "committed" /\ log'[k].change # None
           Then(k) == k \in DOMAIN log /\ log[k].phase = "committed" /\ log[k].change # None
<1>1. /\ LogOK' /\ Advances(m.entity, m.after) /\ m.entity \in Entity
      /\ m.op # "create" => m.before = row[m.entity]
  BY CommitRowStep
<1>2. /\ DOMAIN log' = DOMAIN log /\ log'[i].change = m /\ i \in DOMAIN log
      /\ \A k \in DOMAIN log : k # i => log'[k] = log[k]
  BY EndedCommand DEF LogOK, InFlight
<1>3. Sound(m)
  BY PlanIsSound
<1>4. ASSUME NEW k, Now(k), k # i PROVE Then(k) /\ Audited(log[k].change) /\ log'[k] = log[k]
  BY <1>2, <1>4 DEF LogOK, CommandOK
<1>5. ASSUME NEW k, Now(k)
      PROVE  LET ch == log'[k].change IN
             ch.after.rv <= row'[ch.entity].rv /\ (ch.after.rv = row'[ch.entity].rv => ch.after = row'[ch.entity])
  <2>1. Audited(log[k].change)'
    BY <1>1, <1>5 DEF LogOK, CommandOK
  <2> QED
    BY <2>1 DEF Audited, Known
\* The new change comes after every change of the same row.
<1>6. ASSUME NEW k, Now(k), k # i, log'[k].change.entity = m.entity
      PROVE  LET ch == log'[k].change IN
             /\ m.op # "create" /\ ch.after.rv < m.after.rv
             /\ m.before.rv = ch.after.rv => m.before = ch.after
             /\ ch.op # "create" => ch.before.rv < m.after.rv
  <2>1. PICK ch : ch = log[k].change /\ ch = log'[k].change
    BY <1>4, <1>6
  <2>2. Audited(ch) /\ ch.entity = m.entity /\ Known(m.entity, ch.after)
    BY <1>4, <1>6, <2>1 DEF Audited
  <2>3. /\ row[m.entity] # NoRow /\ row[m.entity].rv \in Nat /\ ch.after.rv \in Nat
        /\ ch.after.rv <= row[m.entity].rv
    BY <2>2, RowFacts DEF Known
  <2>4. m.op # "create" /\ m.before = row[m.entity] /\ m.after.rv = row[m.entity].rv + 1
    BY <1>1, <1>3, <2>3 DEF Sound, Creates, Rewrites
  <2>5. ch.op # "create" => ch.before.rv \in Nat /\ ch.after.rv = ch.before.rv + 1
    BY <2>2, RowFacts DEF Audited
  <2>6. m.before.rv = ch.after.rv => m.before = ch.after
    BY <2>2, <2>4 DEF Known
  <2> QED
    BY <2>1, <2>3, <2>4, <2>5, <2>6
<1>7. ASSUME NEW j, NEW k, Now(j), Now(k), j # k, log'[j].change.entity = log'[k].change.entity
      PROVE  /\ log'[j].change.after.rv # log'[k].change.after.rv
             /\ log'[k].change.op # "create" /\ log'[k].change.before.rv = log'[j].change.after.rv =>
                  log'[k].change.before = log'[j].change.after
  <2>1. CASE j # i /\ k # i
    BY <1>4, <1>7, <2>1 DEF AuditExplainsRows, Committed
  <2>2. m.after.rv \in Nat
    BY <1>3, RowFacts DEF Sound
  <2>3. ASSUME NEW l, Now(l), l # i PROVE log'[l].change.after.rv \in Nat
    BY <1>4, <2>3, RowFacts DEF Audited, Known
  <2>4. ASSUME NEW l, Now(l), l # i, log'[l].change.op # "create" PROVE log'[l].change.before.rv \in Nat
    BY <1>4, <2>4, RowFacts DEF Audited
  <2>5. CASE j = i
    BY <1>2, <1>6, <1>7, <2>2, <2>3, <2>4, <2>5
  <2>6. CASE k = i
    BY <1>2, <1>6, <1>7, <2>2, <2>3, <2>6
  <2> QED
    BY <2>1, <2>5, <2>6
<1> QED
  BY <1>5, <1>7 DEF AuditExplainsRows, Committed

LEMMA AuditStays ==
    ASSUME AuditExplainsRows, row' = row,
           \A k \in DOMAIN log' : log'[k].change # None /\ log'[k].phase = "committed" =>
                k \in DOMAIN log /\ log'[k] = log[k]
    PROVE  AuditExplainsRows'
  BY DEF AuditExplainsRows, Committed

-----------------------------------------------------------------------------
(* Decisions *)

Makes(e, c) == e.id # 0 /\ e.earlier[2] = c[1] /\ e.later[2] = c[2]

Confirmed(c) == cand[c] # NoRow /\ cand[c].status = "confirmed"

\* What DecisionHasOneRelation counts, without the cardinality.
OneRelation ==
    \A c \in Candidate :
        /\ Confirmed(c) => \E e \in edge : Makes(e, c)
        /\ \A e \in edge : Makes(e, c) => Confirmed(c)
        /\ \A e, f \in edge : Makes(e, c) /\ Makes(f, c) => e = f

LEMMA OneRelationStays ==
    ASSUME OneRelation, edge' = edge, \A c \in Candidate : Confirmed(c)' <=> Confirmed(c)
    PROVE  OneRelation'
  BY DEF OneRelation, Makes

LEMMA DecideKeepsRelations ==
    ASSUME TablesOK, LogOK, OneRelation, NEW i \in InFlight, DecideCandidate(i)
    PROVE  OneRelation'
<1>1. PICK c \in Candidate : c = log[i].target /\ cand[c] # NoRow
  BY DecideStep
<1>2. PICK d \in {<<"pending", "rejected">>, <<"rejected", "pending">>} :
        cand[c].status = d[1] /\ Decided(c, d[2])
  BY <1>1, DecideStep
<1>3. /\ cand'[c].status = d[2] /\ \A x \in Candidate : x # c => cand'[x] = cand[x]
      /\ d[1] # "confirmed" /\ d[2] # "confirmed"
  BY <1>1, <1>2, DecidedFits DEF TablesOK, CandidatesOK
<1>4. edge' = edge
  BY DEF DecideCandidate
<1> QED
  BY <1>2, <1>3, <1>4, OneRelationStays DEF Confirmed

LEMMA ConfirmKeepsRelations ==
    ASSUME TablesOK, LogOK, OneRelation, NEW i \in InFlight, ConfirmCandidate(i)
    PROVE  OneRelation'
<1>1. PICK c \in Candidate, p \in Paper :
             /\ cand[c] # NoRow /\ cand[c].status = "pending"
             /\ AddRelation(i, <<p, c[2]>>, <<p, c[1]>>)
             /\ Decided(c, "confirmed")
  BY ConfirmFacts
<1>2. /\ cand'[c] # NoRow /\ cand'[c].status = "confirmed"
      /\ \A x \in Candidate : x # c => cand'[x] = cand[x]
  BY <1>1, DecidedFits DEF TablesOK, CandidatesOK
<1>3. PICK new : /\ edge' = edge \cup {new} /\ new.id = i
                 /\ new.earlier[2] = c[1] /\ new.later[2] = c[2]
  <2> DEFINE n == [id |-> i, later |-> <<p, c[2]>>, earlier |-> <<p, c[1]>>,
                   state |-> "active", rv |-> 1]
  <2>1. edge' = edge \cup {n}
    BY <1>1 DEF AddRelation
  <2>2. n.id = i /\ n.earlier[2] = c[1] /\ n.later[2] = c[2]
    OBVIOUS
  <2> HIDE DEF n
  <2> QED
    BY <2>1, <2>2
<1>4. i # 0
  BY LogDomain DEF InFlight, LogOK
<1>5. \A d \in Candidate : Makes(new, d) <=> d = c
  BY <1>3, <1>4, Tables DEF Makes
<1>6. \A e \in edge : ~ Makes(e, c)
  BY <1>1 DEF OneRelation, Confirmed
<1>7. \A d \in Candidate : Confirmed(d)' <=> (d = c \/ Confirmed(d))
  BY <1>2 DEF Confirmed
<1> SUFFICES ASSUME NEW d \in Candidate
             PROVE  /\ Confirmed(d)' => \E e \in edge' : Makes(e, d)
                    /\ \A e \in edge' : Makes(e, d) => Confirmed(d)'
                    /\ \A e, f \in edge' : Makes(e, d) /\ Makes(f, d) => e = f
  BY DEF OneRelation, Makes
<1>8. CASE d = c
  BY <1>3, <1>5, <1>6, <1>7, <1>8
<1>9. CASE d # c
  BY <1>3, <1>5, <1>7, <1>9 DEF OneRelation
<1> QED
  BY <1>8, <1>9

LEMMA RetractKeepsRelations ==
    ASSUME TablesOK, LogOK, OneRelation, NEW i \in InFlight, RetractRelation(i)
    PROVE  OneRelation'
<1>1. PICK old \in edge, new \in EdgeRow :
        /\ edge' = (edge \ {old}) \cup {new} /\ new.id = old.id
        /\ new.later = old.later /\ new.earlier = old.earlier
  BY RetractRelationStep
<1>2. \A c \in Candidate : (Makes(new, c) <=> Makes(old, c)) /\ (Confirmed(c)' <=> Confirmed(c))
  BY <1>1, RetractRelationStep DEF Makes, Confirmed
<1> SUFFICES ASSUME NEW d \in Candidate
             PROVE  /\ Confirmed(d) => \E e \in edge' : Makes(e, d)
                    /\ \A e \in edge' : Makes(e, d) => Confirmed(d)
                    /\ \A e, f \in edge' : Makes(e, d) /\ Makes(f, d) => e = f
  BY <1>2 DEF OneRelation, Makes
<1> QED
  BY <1>1, <1>2 DEF OneRelation

LEMMA DetectorKeepsRelations ==
    ASSUME TablesOK, LogOK, OneRelation, NEW c \in Candidate, NEW r \in Candidate,
           RegisterVersionCandidate(c) \/ SupersedeVersionCandidate(c, r)
    PROVE  OneRelation'
<1>1. /\ \A d \in Candidate : d # c => cand'[d] = cand[d]
      /\ cand'[c].status # "confirmed" /\ (cand[c] = NoRow \/ cand[c].status = "pending")
  BY DetectorStep
<1>2. edge' = edge
  BY DEF RegisterVersionCandidate, SupersedeVersionCandidate
<1> QED
  BY <1>1, <1>2, OneRelationStays DEF Confirmed

LEMMA OneRelationCounts ==
    ASSUME OneRelation
    PROVE  DecisionHasOneRelation
<1> SUFFICES ASSUME NEW c \in Candidate
             PROVE  Cardinality({e \in edge : e.id # 0 /\ e.earlier[2] = c[1] /\ e.later[2] = c[2]}) =
                      IF cand[c] # NoRow /\ cand[c].status = "confirmed" THEN 1 ELSE 0
  BY DEF DecisionHasOneRelation
<1> DEFINE made == {e \in edge : e.id # 0 /\ e.earlier[2] = c[1] /\ e.later[2] = c[2]}
<1>1. CASE Confirmed(c)
  <2>1. PICK e \in edge : Makes(e, c)
    BY <1>1 DEF OneRelation
  <2>2. made = {e}
    BY <2>1 DEF OneRelation, Makes
  <2>3. Cardinality(made) = 1
    BY <2>2, FS_Singleton
  <2> QED
    BY <1>1, <2>3 DEF Confirmed
<1>2. CASE ~ Confirmed(c)
  <2>1. made = {}
    BY <1>2 DEF OneRelation, Makes
  <2>2. Cardinality(made) = 0
    BY <2>1, FS_EmptySet
  <2> QED
    BY <1>2, <2>2 DEF Confirmed
<1> QED
  BY <1>1, <1>2

-----------------------------------------------------------------------------
(* The inductive invariant *)

Inductive ==
    /\ TablesOK /\ LogOK /\ VersionGraphSound /\ Usable /\ AuditExplainsRows /\ OneRelation

LEMMA SubmitAppends ==
    ASSUME TablesOK, LogOK, Submit
    PROVE  /\ UNCHANGED <<row, version, edge, cand>>
           /\ \A k \in DOMAIN log : k \in DOMAIN log' /\ log'[k] = log[k]
           /\ \A k \in DOMAIN log' : k \notin DOMAIN log => log'[k].phase = "running"
<1>1. PICK type, target, arg, seen, undoOf : PersistEnvelope(type, target, arg, seen, undoOf)
  <2>1. CASE SubmitUndo
    BY <2>1, SubmitUndoCommand DEF Submitted
  <2>2. CASE ~SubmitUndo
    <3>1. \E type, target, arg, seen : Submitted(type, target, arg, seen, 0)
      BY <2>2, SubmitRowCommand, SubmitVersionCommand DEF Submit
    <3> QED
      BY <3>1 DEF Submitted
  <2> QED
    BY <2>1, <2>2
<1> DEFINE c == Envelope(type, target, arg, seen, undoOf)
<1>2. c.phase = "running"
  BY DEF Envelope
<1>3. log' = Append(log, c) /\ Len(log) < MaxCommands /\ UNCHANGED <<row, version, edge, cand>>
  BY <1>1 DEF PersistEnvelope
<1> HIDE DEF c
<1>4. LogShape
  BY DEF LogOK
<1>5. /\ DOMAIN log' = DOMAIN log \cup {Len(log) + 1} /\ log'[Len(log) + 1] = c
      /\ \A k \in DOMAIN log : log'[k] = log[k]
  BY <1>3, <1>4, Appended
<1> QED
  BY <1>2, <1>3, <1>5

\* A command that ends without a change of a row leaves the audit alone.
LEMMA EndKeepsAudit ==
    ASSUME LogOK, AuditExplainsRows, NEW i \in InFlight, NEW phase \in {"committed", "failed"},
           Ended(i, phase, None), row' = row
    PROVE  AuditExplainsRows'
<1>1. i \in DOMAIN log /\ LogShape
  BY DEF InFlight, LogOK
<1>2. /\ DOMAIN log' = DOMAIN log /\ log'[i].change = None
      /\ \A j \in DOMAIN log : j # i => log'[j] = log[j]
  BY <1>1, EndedCommand
<1> QED
  BY <1>2, AuditStays

LEMMA CommitRowKeepsInductive ==
    ASSUME Inductive, NEW i \in InFlight, CommitRow(i)
    PROVE  Inductive'
<1>1. PICK m \in Plan(log[i], i) :
        /\ Accepted(m) /\ row' = [row EXCEPT ![m.entity] = m.after]
        /\ Ended(i, "committed", m) /\ UNCHANGED <<version, edge, cand>>
  BY DEF CommitRow
<1>2. TablesOK' /\ LogOK'
  BY <1>1, CommitRowStep DEF Inductive
<1>3. VersionGraphSound'
  BY <1>1, GraphStays DEF Inductive, ActiveEdges, IsActive
<1>4. Usable'
  BY <1>1, CommitRowKeepsUsable DEF Inductive
<1>5. AuditExplainsRows'
  BY <1>1, CommitRowKeepsAudit DEF Inductive
<1>6. OneRelation'
  BY <1>1, OneRelationStays DEF Inductive, Confirmed
<1> QED
  BY <1>2, <1>3, <1>4, <1>5, <1>6 DEF Inductive

LEMMA DecideKeepsInductive ==
    ASSUME Inductive, NEW i \in InFlight, DecideCandidate(i)
    PROVE  Inductive'
<1>1. UNCHANGED <<row, version, edge>> /\ Ended(i, "committed", None)
  BY DEF DecideCandidate
<1>2. TablesOK' /\ LogOK'
  BY DecideStep DEF Inductive
<1>3. VersionGraphSound' /\ Usable'
  BY <1>1, GraphStays, UsableStays DEF Inductive, ActiveEdges, IsActive
<1>4. AuditExplainsRows'
  BY <1>1, EndKeepsAudit DEF Inductive
<1>5. OneRelation'
  BY DecideKeepsRelations DEF Inductive
<1> QED
  BY <1>2, <1>3, <1>4, <1>5 DEF Inductive

LEMMA ConfirmKeepsInductive ==
    ASSUME Inductive, NEW i \in InFlight, ConfirmCandidate(i)
    PROVE  Inductive'
<1>1. row' = row /\ Ended(i, "committed", None)
  BY DEF ConfirmCandidate
<1>2. TablesOK' /\ LogOK' /\ \A v \in Version : IsActive(v) => IsActive(v)'
  BY ConfirmStep DEF Inductive
<1>3. VersionGraphSound'
  BY ConfirmKeepsGraph DEF Inductive
<1>4. Usable'
  BY <1>1, <1>2, UsableStays DEF Inductive
<1>5. AuditExplainsRows'
  BY <1>1, EndKeepsAudit DEF Inductive
<1>6. OneRelation'
  BY ConfirmKeepsRelations DEF Inductive
<1> QED
  BY <1>2, <1>3, <1>4, <1>5, <1>6 DEF Inductive

LEMMA RetractVersionKeepsInductive ==
    ASSUME Inductive, NEW i \in InFlight, RetractVersion(i)
    PROVE  Inductive'
<1>1. UNCHANGED <<row, edge, cand>> /\ Ended(i, "committed", None)
  BY DEF RetractVersion
<1>2. TablesOK' /\ LogOK'
  BY RetractVersionStep DEF Inductive
<1>3. VersionGraphSound'
  BY RetractVersionKeepsGraph DEF Inductive
<1>4. Usable'
  BY RetractVersionKeepsUsable DEF Inductive
<1>5. AuditExplainsRows'
  BY <1>1, EndKeepsAudit DEF Inductive
<1>6. OneRelation'
  BY <1>1, OneRelationStays DEF Inductive, Confirmed
<1> QED
  BY <1>2, <1>3, <1>4, <1>5, <1>6 DEF Inductive

LEMMA ContextKeepsInductive ==
    ASSUME Inductive, NEW i \in InFlight, ChangeVersionContext(i)
    PROVE  Inductive'
<1>1. UNCHANGED <<row, edge, cand>> /\ Ended(i, "committed", None)
  BY DEF ChangeVersionContext
<1>2. TablesOK' /\ LogOK' /\ \A v \in Version : IsActive(v) => IsActive(v)'
  BY ContextStep DEF Inductive
<1>3. VersionGraphSound'
  BY <1>1, <1>2, GraphStays DEF Inductive, ActiveEdges
<1>4. Usable'
  BY <1>1, <1>2, UsableStays DEF Inductive
<1>5. AuditExplainsRows'
  BY <1>1, EndKeepsAudit DEF Inductive
<1>6. OneRelation'
  BY <1>1, OneRelationStays DEF Inductive, Confirmed
<1> QED
  BY <1>2, <1>3, <1>4, <1>5, <1>6 DEF Inductive

LEMMA RetractRelationKeepsInductive ==
    ASSUME Inductive, NEW i \in InFlight, RetractRelation(i)
    PROVE  Inductive'
<1>1. UNCHANGED <<row, version, cand>> /\ Ended(i, "committed", None)
  BY DEF RetractRelation
<1>2. TablesOK' /\ LogOK' /\ ActiveEdges' \subseteq ActiveEdges
  BY RetractRelationStep DEF Inductive
<1>3. VersionGraphSound' /\ Usable'
  BY <1>1, <1>2, GraphStays, UsableStays DEF Inductive, IsActive
<1>4. AuditExplainsRows'
  BY <1>1, EndKeepsAudit DEF Inductive
<1>5. OneRelation'
  BY RetractKeepsRelations DEF Inductive
<1> QED
  BY <1>2, <1>3, <1>4, <1>5 DEF Inductive

LEMMA FailKeepsInductive ==
    ASSUME Inductive, NEW i \in InFlight, MarkCommandFailed(i)
    PROVE  Inductive'
<1>1. UNCHANGED <<row, version, edge, cand>> /\ Ended(i, "failed", None)
  BY DEF MarkCommandFailed
<1>2. TablesOK' /\ LogOK'
  BY FailStep DEF Inductive
<1>3. VersionGraphSound' /\ Usable' /\ OneRelation'
  BY <1>1, GraphStays, UsableStays, OneRelationStays DEF Inductive, ActiveEdges, IsActive, Confirmed
<1>4. AuditExplainsRows'
  BY <1>1, EndKeepsAudit DEF Inductive
<1> QED
  BY <1>2, <1>3, <1>4 DEF Inductive

LEMMA SubmitKeepsInductive ==
    ASSUME Inductive, Submit
    PROVE  Inductive'
<1>1. /\ UNCHANGED <<row, version, edge, cand>>
      /\ \A k \in DOMAIN log : k \in DOMAIN log' /\ log'[k] = log[k]
      /\ \A k \in DOMAIN log' : k \notin DOMAIN log => log'[k].phase = "running"
  BY SubmitAppends DEF Inductive
<1>2. TablesOK' /\ LogOK'
  BY SubmitStep DEF Inductive
<1>3. VersionGraphSound' /\ Usable' /\ OneRelation'
  BY <1>1, GraphStays, UsableStays, OneRelationStays DEF Inductive, ActiveEdges, IsActive, Confirmed
<1>4. AuditExplainsRows'
  BY <1>1, AuditStays DEF Inductive
<1> QED
  BY <1>2, <1>3, <1>4 DEF Inductive

LEMMA DetectorKeepsInductive ==
    ASSUME Inductive, NEW c \in Candidate, NEW r \in Candidate,
           RegisterVersionCandidate(c) \/ SupersedeVersionCandidate(c, r)
    PROVE  Inductive'
<1>1. UNCHANGED <<row, version, edge, log>>
  BY DEF RegisterVersionCandidate, SupersedeVersionCandidate
<1>2. TablesOK' /\ LogOK'
  BY DetectorStep DEF Inductive
<1>3. VersionGraphSound' /\ Usable'
  BY <1>1, GraphStays, UsableStays DEF Inductive, ActiveEdges, IsActive
<1>4. AuditExplainsRows'
  BY <1>1, AuditStays DEF Inductive
<1>5. OneRelation'
  BY DetectorKeepsRelations DEF Inductive
<1> QED
  BY <1>2, <1>3, <1>4, <1>5 DEF Inductive

LEMMA StutterKeepsInductive ==
    ASSUME Inductive, UNCHANGED vars
    PROVE  Inductive'
<1>1. UNCHANGED <<row, version, edge, cand, log>>
  BY DEF vars
<1>2. TablesOK'
  BY <1>1 DEF Inductive, TablesOK, RowsShape, RowsOK, RowOf, VersionsOK, Exists
<1>3. LogOK'
  <2>1. ASSUME NEW i \in DOMAIN log PROVE CommandOK(i)'
    <3>1. CommandOK(i) /\ Monotone
      BY <1>1 DEF Inductive, LogOK, Monotone, Known, RowOf
    <3>2. log[i].change # None => Audited(log[i].change)'
      BY <1>1, <3>1, AuditedStays DEF CommandOK
    <3>3. Planned(log[i]) => Planned(log[i])'
      <4>1. log[i].undoOf \in DOMAIN log /\ log[log[i].undoOf].change # None =>
              log[log[i].undoOf].change.entity \in Entity
        BY DEF Inductive, LogOK, CommandOK, Audited, ChangeRow
      <4>2. Creating(log[i]) => row'[log[i].target] = NoRow
        BY <1>1 DEF Creating
      <4> QED
        BY <1>1, <3>1, <4>1, <4>2, PlannedStays
    <3> QED
      BY <1>1, <3>1, <3>2, <3>3 DEF CommandOK
  <2>2. LogShape' /\ CreatesApart'
    BY <1>1 DEF Inductive, LogOK, LogShape, CreatesApart, Creating
  <2> QED
    BY <1>1, <2>1, <2>2 DEF LogOK
<1>4. VersionGraphSound' /\ Usable' /\ OneRelation'
  BY <1>1, GraphStays, UsableStays, OneRelationStays DEF Inductive, ActiveEdges, IsActive, Confirmed
<1>5. AuditExplainsRows'
  BY <1>1, AuditStays DEF Inductive
<1> QED
  BY <1>2, <1>3, <1>4, <1>5 DEF Inductive

LEMMA NextKeepsInductive ==
    ASSUME Inductive, [Next]_vars
    PROVE  Inductive'
<1>1. CASE UNCHANGED vars
  BY <1>1, StutterKeepsInductive
<1>2. CASE Submit
  BY <1>2, SubmitKeepsInductive
<1>3. ASSUME NEW i \in InFlight, CommitMutations(i) \/ MarkCommandFailed(i) PROVE Inductive'
  BY <1>3, CommitRowKeepsInductive, DecideKeepsInductive, ConfirmKeepsInductive,
     RetractVersionKeepsInductive, ContextKeepsInductive, RetractRelationKeepsInductive,
     FailKeepsInductive DEF CommitMutations
<1>4. ASSUME NEW c \in Candidate, NEW r \in Candidate,
             RegisterVersionCandidate(c) \/ SupersedeVersionCandidate(c, r)
      PROVE  Inductive'
  BY <1>4, DetectorKeepsInductive
<1> QED
  BY <1>1, <1>2, <1>3, <1>4 DEF Next

LEMMA InitIsInductive ==
    ASSUME Init
    PROVE  Inductive
<1>1. PICK w \in InitialWorkspaces :
        /\ row = w.row /\ version = w.version /\ edge = w.edge
        /\ cand = [c \in Candidate |-> NoRow] /\ log = << >>
  BY DEF Init
<1>2. /\ w.row \in [Entity -> Row \cup {NoRow}]
      /\ \A p \in Paper : w.row[p] # NoRow =>
           /\ w.row[p] \in PaperRow
           /\ w.row[p].current # None =>
                PaperOf(w.row[p].current) = p /\ IsActive(w.row[p].current)
      /\ \A i \in Idea : w.row[i] \in IdeaRow \cup {NoRow}
      /\ \A s \in Submission : w.row[s] # NoRow =>
           /\ w.row[s] \in SubmissionRow
           /\ w.row[s].submitted <=> w.row[s].status \notin PreSubmission
           /\ w.row[s].submitted => w.row[s].version # None
           /\ w.row[s].deleted = 0 /\ w.row[s].version # None =>
                PaperOf(w.row[s].version) = w.row[s].paper /\ IsActive(w.row[s].version)
  BY <1>1, StartingDatabases DEF IsActive
<1>3. /\ w.version \in [Version -> VersionRow \cup {NoRow}]
      /\ \A v \in Version : w.version[v] # NoRow => w.row[PaperOf(v)] # NoRow
      /\ w.edge \subseteq EdgeRow /\ \A e \in w.edge : e.id = 0
      /\ \A e \in ActiveEdges :
           PaperOf(e.later) = PaperOf(e.earlier) /\ IsActive(e.later) /\ IsActive(e.earlier)
      /\ \A e, f \in ActiveEdges : e.later = f.later /\ e.earlier = f.earlier => e = f
      /\ Acyclic(ActiveEdges)
  BY <1>1, StartingDatabases, ZenonT(60) DEF IsActive, ActiveEdges
<1>4. RowsShape
  BY <1>1, <1>2, Identities DEF RowsShape, RowsOK, RowOf, Entity
<1>5. TablesOK
  BY <1>1, <1>3, <1>4 DEF TablesOK, VersionsOK, Exists
<1>6. DOMAIN log = {} /\ LogShape
  BY <1>1, Identities DEF LogShape
<1>7. LogOK
  BY <1>6 DEF LogOK, CreatesApart
<1>8. VersionGraphSound
  BY <1>3 DEF VersionGraphSound
<1>9. Usable
  BY <1>1, <1>2 DEF Usable, CurrentVersionUsable, SubmissionVersionUsable, Exists
<1>10. AuditExplainsRows
  BY <1>6 DEF AuditExplainsRows, Committed
<1>11. OneRelation
  BY <1>1, <1>3 DEF OneRelation, Makes, Confirmed
<1> QED
  BY <1>5, <1>7, <1>8, <1>9, <1>10, <1>11 DEF Inductive

LEMMA InductiveIsInvariant == Spec => []Inductive
<1>1. Init => Inductive
  BY InitIsInductive
<1>2. Inductive /\ [Next]_vars => Inductive'
  BY NextKeepsInductive
<1> QED
  BY <1>1, <1>2, PTL DEF Spec

-----------------------------------------------------------------------------
(* Results *)

(* Every table holds rows of its own shape and every command is in one phase,
   however many commands run at the same time. *)
THEOREM TypeCorrect == Spec => []TypeOK
<1>1. Inductive => TypeOK
  <2> SUFFICES ASSUME Inductive PROVE TypeOK
    OBVIOUS
  <2>1. /\ row \in [Entity -> Row \cup {NoRow}]
        /\ \A p \in Paper : row[p] \in PaperRow \cup {NoRow}
        /\ \A i \in Idea : row[i] \in IdeaRow \cup {NoRow}
        /\ \A s \in Submission : row[s] \in SubmissionRow \cup {NoRow}
    BY Identities DEF Inductive, TablesOK, RowsShape, RowsOK, RowOf, Entity
  <2>2. \A i \in DOMAIN log :
          /\ log[i].phase \in {"running", "committed", "failed"} /\ log[i].undoOf \in 0 .. i - 1
          /\ log[i].change \in ChangeRow \cup {None}
    BY DEF Inductive, LogOK, CommandOK, Audited
  <2> QED
    BY <2>1, <2>2 DEF Inductive, TablesOK, VersionsOK, TypeOK
<1> QED
  BY <1>1, InductiveIsInvariant, PTL

(* The current version of a paper stays an active version of that paper:
   the repository looks the version up in the transaction that writes the
   paper, and a version that is current is not retracted. *)
THEOREM CurrentIsUsable == Spec => []CurrentVersionUsable
<1>1. Inductive => CurrentVersionUsable
  BY DEF Inductive, Usable
<1> QED
  BY <1>1, InductiveIsInvariant, PTL

(* A visible submission keeps naming an active version of its own paper, and
   its submission time agrees with its status. *)
THEOREM SubmittedIsUsable == Spec => []SubmissionVersionUsable
<1>1. Inductive => SubmissionVersionUsable
  BY DEF Inductive, Usable
<1> QED
  BY <1>1, InductiveIsInvariant, PTL

(* No sequence of confirmations and retractions, overlapping or not, makes a
   cycle of successor relations, doubles a relation or leaves a retracted
   version in one. *)
THEOREM GraphIsSound == Spec => []VersionGraphSound
<1>1. Inductive => VersionGraphSound
  BY DEF Inductive
<1> QED
  BY <1>1, InductiveIsInvariant, PTL

(* A candidate is confirmed together with exactly one relation. *)
THEOREM ConfirmedOnce == Spec => []DecisionHasOneRelation
<1>1. Inductive => DecisionHasOneRelation
  BY OneRelationCounts DEF Inductive
<1> QED
  BY <1>1, InductiveIsInvariant, PTL

(* The audit explains every row: no command writes over a row that changed
   since the command read it. *)
THEOREM AuditIsComplete == Spec => []AuditExplainsRows
<1>1. Inductive => AuditExplainsRows
  BY DEF Inductive
<1> QED
  BY <1>1, InductiveIsInvariant, PTL

-----------------------------------------------------------------------------
(* Undo *)

\* An undo commits only by writing a row.
LEMMA UndoCommitsRow ==
    ASSUME Inductive, [Next]_vars, NEW i \in InFlight, log[i].undoOf # 0, log'[i].phase = "committed"
    PROVE  CommitRow(i)
<1>1. /\ i \in DOMAIN log /\ log[i].phase = "running" /\ LogShape
      /\ log[i].type = <<"undo", "compensate">>
  BY DEF Inductive, LogOK, CommandOK, InFlight
<1>2. CASE UNCHANGED log
  BY <1>1, <1>2
<1>3. CASE Submit
  BY <1>1, <1>3, SubmitAppends DEF Inductive
<1>4. ASSUME NEW j \in InFlight, j # i, \E phase, change : Ended(j, phase, change) PROVE FALSE
  <2>1. j \in DOMAIN log
    BY DEF InFlight
  <2> QED
    BY <1>1, <1>4, <2>1, EndedCommand
<1>5. ASSUME NEW j \in InFlight, CommitMutations(j) \/ MarkCommandFailed(j)
      PROVE  \E phase, change : Ended(j, phase, change)
  BY <1>5 DEF CommitMutations, CommitRow, DecideCandidate, ConfirmCandidate, RetractVersion,
              ChangeVersionContext, RetractRelation, MarkCommandFailed
<1>6. CASE MarkCommandFailed(i)
  <2>1. Ended(i, "failed", None)
    BY <1>6 DEF MarkCommandFailed
  <2> QED
    BY <1>1, <2>1, EndedCommand
<1>7. ASSUME CommitMutations(i) PROVE CommitRow(i)
  BY <1>1, <1>7 DEF CommitMutations, DecideCandidate, ConfirmCandidate, RetractVersion,
                    ChangeVersionContext, RetractRelation
<1>8. ASSUME NEW c \in Candidate, NEW r \in Candidate,
             RegisterVersionCandidate(c) \/ SupersedeVersionCandidate(c, r)
      PROVE  UNCHANGED log
  BY <1>8 DEF RegisterVersionCandidate, SupersedeVersionCandidate
<1>9. CASE UNCHANGED vars
  BY <1>2, <1>9 DEF vars
<1>10. ASSUME NEW j \in InFlight, CommitMutations(j) \/ MarkCommandFailed(j) PROVE CommitRow(i)
  BY <1>4, <1>5, <1>6, <1>7, <1>10
<1> QED
  BY <1>2, <1>3, <1>8, <1>9, <1>10 DEF Next

UndoWrites(i) ==
    LET ch == log[log[i].undoOf].change
        e == ch.entity
    IN  /\ \A f \in ch.fields : row[e][f] = ch.after[f]
        /\ \A f \in DOMAIN row[e] \ {"rv"} :
             row'[e][f] = IF ch.op = "create"
                          THEN IF f = "deleted" THEN i ELSE row[e][f]
                          ELSE IF f \in ch.fields THEN ch.before[f] ELSE row[e][f]

LEMMA UndoRestores ==
    ASSUME Inductive, NEW i \in InFlight, log[i].undoOf # 0, CommitRow(i)
    PROVE  UndoWrites(i)
<1>1. PICK m \in Plan(log[i], i) :
        /\ Accepted(m) /\ row' = [row EXCEPT ![m.entity] = m.after]
        /\ Ended(i, "committed", m) /\ UNCHANGED <<version, edge, cand>>
  BY DEF CommitRow
<1>2. TablesOK /\ LogOK /\ i \in DOMAIN log /\ i \in Stamp
  BY LogDomain, Identities DEF Inductive, InFlight, LogOK, LogShape, Stamp
<1>3. Undoing(log[i])
  <2>1. Planned(log[i]) /\ log[i].type = <<"undo", "compensate">>
    BY <1>2 DEF LogOK, CommandOK, InFlight
  <2>2. log[i].type \notin {"paper", "idea", "submission"} \X {"soft_delete", "restore"}
    BY <2>1
  <2> QED
    BY <2>1, <2>2 DEF Planned, Creating, Updating, Hiding, Transiting, Choosing, Deciding, Versioning
<1>4. PICK ch : ch = log[log[i].undoOf].change
  OBVIOUS
<1>5. ch # None => Audited(ch)
  BY <1>2, <1>3, <1>4 DEF Undoing, LogOK, CommandOK
<1>6. /\ Sound(m) /\ m.op # "create" /\ m.entity = ch.entity /\ m.before = log[i].seen.current
      /\ Undoable(log[i].undoOf, log[i].seen)
      /\ \A f \in DOMAIN m.before \ {"rv"} :
            m.after[f] = IF ch.op = "create" THEN IF f = "deleted" THEN i ELSE m.before[f]
                         ELSE IF f \in ch.fields THEN ch.before[f] ELSE m.before[f]
  BY <1>2, <1>3, <1>4, <1>5, UndoingIsSound
<1>7. m.before = row[m.entity] /\ m.entity \in Entity
  BY <1>1, <1>2, <1>6, CommitRowStep
<1>8. row'[m.entity] = m.after
  BY <1>1, <1>2, <1>7 DEF TablesOK, RowsShape
<1>9. \A f \in ch.fields : row[m.entity][f] = ch.after[f]
  BY <1>4, <1>6, <1>7, ZenonT(60) DEF Undoable
<1>10. \A f \in DOMAIN row[m.entity] \ {"rv"} :
         row'[m.entity][f] = IF ch.op = "create" THEN IF f = "deleted" THEN i ELSE row[m.entity][f]
                             ELSE IF f \in ch.fields THEN ch.before[f] ELSE row[m.entity][f]
  BY <1>6, <1>7, <1>8, Zenon
<1>11. m.entity = ch.entity
  BY <1>6
<1> QED
  BY <1>4, <1>9, <1>10, <1>11, Zenon DEF UndoWrites

(* An undo gives exactly the fields of its command their old values back, and
   only when no later command changed them: the row read at its submission is
   still the row when it commits, and the preflight compared those fields. *)
THEOREM UndoIsExact == Spec => UndoRestoresItsFields
<1>1. Inductive /\ [Next]_vars =>
        \A i \in InFlight : log[i].undoOf # 0 /\ log'[i].phase = "committed" => UndoWrites(i)
  BY UndoCommitsRow, UndoRestores
<1>2. Inductive /\ [Next]_vars =>
        [\A i \in InFlight : log[i].undoOf # 0 /\ log'[i].phase = "committed" =>
           LET ch == log[log[i].undoOf].change
               e == ch.entity
           IN  /\ \A f \in ch.fields : row[e][f] = ch.after[f]
               /\ \A f \in DOMAIN row[e] \ {"rv"} :
                    row'[e][f] = IF ch.op = "create"
                                 THEN IF f = "deleted" THEN i ELSE row[e][f]
                                 ELSE IF f \in ch.fields THEN ch.before[f] ELSE row[e][f]]_vars
  BY <1>1, Zenon DEF UndoWrites
<1> QED
  BY <1>2, InductiveIsInvariant, PTL DEF Spec, UndoRestoresItsFields

=============================================================================

---------------------------- MODULE DataDirectory ----------------------------
(***************************************************************************)
(* Which data directory the application works in: the configuration file,  *)
(* the choice of another directory, and its promotion at the next start.   *)
(*                                                                         *)
(* A choice is recorded as pending (WorkspaceDataDirectoryService and      *)
(* ChangeDataDirectory); the next start validates it and makes it active,  *)
(* or drops it (InitializeApplication), and then opens the database there  *)
(* (bootstrap_application).  Every step between two accesses to the disk   *)
(* is an action of its own, so that a crash, an unplugged disk or another  *)
(* process can come between them.  The configuration file is replaced by   *)
(* os.replace, so a save happens or does not.                              *)
(*                                                                         *)
(* A database is abstracted to what inspect and the migrations can tell:   *)
(* it is missing, empty (the file of a first migration that was rolled     *)
(* back), at an older revision, current, foreign (no SQLite file, or one   *)
(* the migrations fail on), other (a SQLite file of another program, to    *)
(* which they add the workspace) or mixed (what they make of that).        *)
(***************************************************************************)
EXTENDS Naturals

CONSTANTS
    Process, Directory, Default, None,
    MaxStarts,   \* bound: starts of the application
    MaxFaults    \* bound: faults of the disk and changes made by hand

ASSUME Locations ==
    /\ Default \in Directory /\ None \notin Directory
    /\ None \notin [active : Directory, pending : Directory \cup {None}]

VARIABLES
    config,    \* config.json, None when there is no file
    writable,  \* whether a directory can be created and written
    db,        \* what research_workspace.db in a directory is
    proc,      \* the processes of the application
    starts, faults

vars == <<config, writable, db, proc, starts, faults>>

AppConfig == [active : Directory, pending : Directory \cup {None}]

Databases == {"none", "empty", "old", "current", "foreign", "other", "mixed"}

\* seen: the configuration bootstrap_application read first; found: the one the
\* step at hand has read; next: the one it is going to write; dir: the directory
\* opened; target: the one chosen; home: where a choice returns to.
Off == [pc |-> "off", home |-> "off", seen |-> None, found |-> None, next |-> None,
        dir |-> None, target |-> None]

Goto(p, change) == proc' = [proc EXCEPT ![p] = change]
At(p, pc) == proc[p].pc = pc
Fault == faults < MaxFaults /\ faults' = faults + 1

-----------------------------------------------------------------------------
(* Directories and databases *)

Inspect(d) ==
    CASE db[d] = "none" -> "new" [] db[d] = "current" -> "existing" [] OTHER -> "invalid"

\* command.upgrade: one transaction over every revision, rolled back on failure.
Migrate(d) ==
    /\ db[d] # "foreign"
    /\ db' = [db EXCEPT ![d] = IF @ \in {"other", "mixed"} THEN "mixed" ELSE "current"]
MigrationFails(d) == db' = [db EXCEPT ![d] = IF @ = "none" THEN "empty" ELSE @]

-----------------------------------------------------------------------------
(* Startup *)

(* bootstrap_application reads the configuration for its own validator, and a
   failure to read it counts as no configuration. *)
Start(p) ==
    /\ At(p, "off") /\ starts < MaxStarts
    /\ starts' = starts + 1
    /\ \/ Goto(p, [Off EXCEPT !.pc = "starting", !.seen = config]) /\ UNCHANGED faults
       \/ Goto(p, [Off EXCEPT !.pc = "starting"]) /\ Fault
    /\ UNCHANGED <<config, writable, db>>

Initialize(p) ==
    /\ At(p, "starting")
    /\ \/ /\ Goto(p, [proc[p] EXCEPT !.pc = "validating", !.found = config])
          /\ UNCHANGED faults
       \/ Goto(p, [proc[p] EXCEPT !.pc = "error"]) /\ Fault
    /\ UNCHANGED <<config, writable, db, starts>>

\* Mutation of StartupDirectoryValid: the database is not inspected
StartupDirectoryValidMut(p, d) == writable[d]

StartupDirectoryValid(p, d) ==
    /\ writable[d]
    /\ proc[p].seen # None /\ proc[p].seen.pending = d => Inspect(d) = "existing"

\* No configuration yet: the default directory.
ValidateFirst(p) ==
    /\ At(p, "validating") /\ proc[p].found = None
    /\ IF StartupDirectoryValid(p, Default)
       THEN Goto(p, [proc[p] EXCEPT !.pc = "promoting", !.dir = Default,
                                    !.next = [active |-> Default, pending |-> None]])
       ELSE Goto(p, [proc[p] EXCEPT !.pc = "error"])
    /\ UNCHANGED <<config, writable, db, starts, faults>>

\* A pending directory becomes the active one, or is dropped.
ValidatePending(p) ==
    LET found == proc[p].found IN
    /\ At(p, "validating") /\ found # None /\ found.pending # None
    /\ IF StartupDirectoryValid(p, found.pending)
       THEN Goto(p, [proc[p] EXCEPT !.pc = "promoting", !.dir = found.pending,
                                    !.next = [active |-> found.pending, pending |-> None]])
       ELSE Goto(p, [proc[p] EXCEPT !.pc = "retaining",
                                    !.next = [found EXCEPT !.pending = None]])
    /\ UNCHANGED <<config, writable, db, starts, faults>>

ValidateActive(p) ==
    LET found == proc[p].found IN
    /\ At(p, "validating") /\ found # None /\ found.pending = None
    /\ IF StartupDirectoryValid(p, found.active)
       THEN Goto(p, [proc[p] EXCEPT !.pc = "opening", !.dir = found.active])
       ELSE Goto(p, [proc[p] EXCEPT !.pc = "error"])
    /\ UNCHANGED <<config, writable, db, starts, faults>>

\* Both saves of a startup; after a dropped choice the start ends in the error
\* page although the active directory could be opened.
SaveStartup(p) ==
    /\ proc[p].pc \in {"promoting", "retaining"}
    /\ \/ /\ config' = proc[p].next
          /\ Goto(p, [proc[p] EXCEPT !.pc = IF At(p, "promoting") THEN "opening" ELSE "error"])
          /\ UNCHANGED faults
       \/ Goto(p, [proc[p] EXCEPT !.pc = "error"]) /\ Fault /\ UNCHANGED config
    /\ UNCHANGED <<writable, db, starts>>

\* The layout, the migrations, the seed data and the session, in this order.
Open(p) ==
    /\ At(p, "opening") /\ writable[proc[p].dir] /\ Migrate(proc[p].dir)
    /\ Goto(p, [proc[p] EXCEPT !.pc = "running"])
    /\ UNCHANGED <<config, writable, starts, faults>>

OpenFails(p) ==
    /\ At(p, "opening")
    /\ IF writable[proc[p].dir] /\ db[proc[p].dir] # "foreign"
       THEN Fault /\ (MigrationFails(proc[p].dir) \/ Migrate(proc[p].dir))
       ELSE UNCHANGED <<db, faults>>
    /\ Goto(p, [proc[p] EXCEPT !.pc = "error"])
    /\ UNCHANGED <<config, writable, starts>>

-----------------------------------------------------------------------------
(* Choosing another directory, on the settings page or on the error page *)

\* Mutation of Selectable: a directory that can be written is enough
SelectableMut(p, d) == proc[p].pc \in {"running", "error"} /\ writable[d]

Selectable(p, d) ==
    proc[p].pc \in {"running", "error"} /\ writable[d] /\ Inspect(d) # "invalid"

\* The user confirms d: the service probes, inspects and initializes it.
Prepare(p, d) ==
    /\ Selectable(p, d) /\ Migrate(d)
    /\ Goto(p, [proc[p] EXCEPT !.pc = "choosing", !.home = proc[p].pc, !.target = d])
    /\ UNCHANGED <<config, writable, starts, faults>>

PrepareFails(p, d) ==
    /\ Selectable(p, d) /\ MigrationFails(d) /\ Fault
    /\ UNCHANGED <<config, writable, proc, starts>>

LoadChoice(p) ==
    /\ At(p, "choosing")
    /\ \/ Goto(p, [proc[p] EXCEPT !.pc = "deciding", !.found = config]) /\ UNCHANGED faults
       \/ Goto(p, [proc[p] EXCEPT !.pc = proc[p].home]) /\ Fault
    /\ UNCHANGED <<config, writable, db, starts>>

\* Mutation of Chosen: the first choice is pending with nothing active
FirstChosenMut(p) ==
    IF proc[p].found = None THEN [active |-> None, pending |-> proc[p].target]
    ELSE [proc[p].found EXCEPT !.pending = proc[p].target]

\* Mutation of Chosen: the choice is made active at once
ChosenMut(p) == [active |-> proc[p].target, pending |-> None]

Chosen(p) ==
    IF proc[p].found = None THEN [active |-> proc[p].target, pending |-> None]
    ELSE [proc[p].found EXCEPT !.pending = proc[p].target]

\* The directory is probed once more before the save.
SaveChoice(p) ==
    /\ At(p, "deciding")
    /\ \/ writable[proc[p].target] /\ config' = Chosen(p) /\ UNCHANGED faults
       \/ writable[proc[p].target] /\ Fault /\ UNCHANGED config
       \/ ~ writable[proc[p].target] /\ UNCHANGED <<config, faults>>
    /\ Goto(p, [proc[p] EXCEPT !.pc = proc[p].home])
    /\ UNCHANGED <<writable, db, starts>>

-----------------------------------------------------------------------------
(* The user and the disk *)

\* The user closes the window, restarts, or the process ends at any point.
End(p) ==
    /\ ~ At(p, "off") /\ Goto(p, Off)
    /\ UNCHANGED <<config, writable, db, starts, faults>>

\* A disk is unplugged, filled up or comes back.
DiskChanges(d) ==
    /\ Fault /\ writable' = [writable EXCEPT ![d] = ~ @]
    /\ UNCHANGED <<config, db, proc, starts>>

\* While no process runs a directory is emptied or other files are put there.
ChangedByHand(d, kind) ==
    /\ \A p \in Process : At(p, "off")
    /\ Fault /\ db' = [db EXCEPT ![d] = kind]
    /\ UNCHANGED <<config, writable, proc, starts>>

-----------------------------------------------------------------------------
\* A first start, or one after the application worked in a directory, at this
\* revision or at an older one.
Init ==
    /\ config \in {None} \cup [active : Directory, pending : {None}]
    /\ db \in [Directory -> Databases \ {"empty", "mixed"}]
    /\ config # None => db[config.active] \in {"old", "current"}
    /\ writable = [d \in Directory |-> TRUE]
    /\ proc = [p \in Process |-> Off]
    /\ starts = 0 /\ faults = 0

Startup(p) ==
    \/ Start(p) \/ Initialize(p)
    \/ ValidateFirst(p) \/ ValidatePending(p) \/ ValidateActive(p)
    \/ SaveStartup(p) \/ Open(p) \/ OpenFails(p)

Choice(p) ==
    \/ \E d \in Directory : Prepare(p, d) \/ PrepareFails(p, d)
    \/ LoadChoice(p) \/ SaveChoice(p)

Environment ==
    \/ \E p \in Process : End(p)
    \/ \E d \in Directory : DiskChanges(d)
    \/ \E d \in Directory, kind \in {"none", "old", "foreign", "other"} : ChangedByHand(d, kind)

Next == (\E p \in Process : Startup(p) \/ Choice(p)) \/ Environment

Spec == Init /\ [][Next]_vars

-----------------------------------------------------------------------------
(* Properties *)

ProcessStates ==
    {"off", "starting", "validating", "promoting", "retaining", "opening",
     "running", "error", "choosing", "deciding"}

(* The configuration is a whole one or none at any time, and every process is
   in one state of the start or of a choice. *)
TypeOK ==
    /\ config \in AppConfig \cup {None}
    /\ writable \in [Directory -> BOOLEAN]
    /\ db \in [Directory -> Databases]
    /\ proc \in [Process ->
         [pc : ProcessStates, home : {"off", "running", "error"},
          seen : AppConfig \cup {None}, found : AppConfig \cup {None},
          next : AppConfig \cup {None}, dir : Directory \cup {None},
          target : Directory \cup {None}]]

(* The active directory changes only at a start, to the one the user chose, and
   the choice is then used up.  It changes only to a current workspace, whatever
   crashes, faults and changes by hand came between the choice and the start,
   unless that start could not read the configuration it validates against
   (one process of the application). *)
Blind(p) == At(p, "promoting") /\ proc[p].seen = None

Activated(chosen) ==
    config # None /\ config' # None /\ config'.active # config.active
      => config'.active = config.pending /\ config'.pending = None /\ chosen

ActivationIsValidated ==
    [][Activated(db[config'.active] = "current" \/ \E p \in Process : Blind(p))]_vars

(* Every switch to a chosen directory is to one that bootstrap has inspected
   (foundation design, "On the next startup, bootstrap validates ..."). *)
SwitchesAreInspected == [][Activated(db[config'.active] = "current")]_vars

(* The application works in the directory the configuration names as active,
   from its start to its end, choices of other directories included (one
   process of the application). *)
Working(p) == At(p, "running") \/ (proc[p].pc \in {"choosing", "deciding"} /\ proc[p].home = "running")
RunningUsesActive ==
    \A p \in Process : Working(p) => config # None /\ proc[p].dir = config.active

(* Existing data is left alone: no step of the application changes a database
   outside the active directory, except to initialize a new one, and the
   database of an older revision, or of another program, is migrated only when
   it is opened. *)
ExistingDataUntouched ==
    [][\A d \in Directory : db'[d] # db[d] =>
         \/ db[d] = "none"
         \/ config # None /\ config.active = d /\ \E p \in Process : At(p, "opening")
         \/ \A p \in Process : At(p, "off")]_vars

=============================================================================

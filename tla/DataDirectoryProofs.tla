------------------------ MODULE DataDirectoryProofs ------------------------
(***************************************************************************)
(* Proofs about DataDirectory, for any directories and any bounds: types   *)
(* for any number of processes, the rest for one, as the program assumes.  *)
(***************************************************************************)
EXTENDS DataDirectory, TLAPS

ProcessRecord ==
    [pc : ProcessStates, home : {"off", "running", "error"},
     seen : AppConfig \cup {None}, found : AppConfig \cup {None},
     next : AppConfig \cup {None}, dir : Directory \cup {None},
     target : Directory \cup {None}]

\* The record a step of the process gives it, and what holds of it.
Fits(r) ==
    /\ r \in ProcessRecord
    /\ r.pc \in {"promoting", "retaining"} => r.next \in AppConfig
    /\ r.pc \in {"promoting", "opening"} => r.dir \in Directory
    /\ r.pc \in {"choosing", "deciding"} =>
         r.target \in Directory /\ r.home \in {"running", "error"}

Ready ==
    /\ config \in AppConfig \cup {None}
    /\ writable \in [Directory -> BOOLEAN]
    /\ db \in [Directory -> Databases]
    /\ proc \in [Process -> ProcessRecord]
    /\ \A p \in Process : Fits(proc[p])

-----------------------------------------------------------------------------
(* Types *)

LEMMA NoConfig == None \notin AppConfig
  BY Locations DEF AppConfig

LEMMA NewConfig ==
    ASSUME NEW d \in Directory
    PROVE  [active |-> d, pending |-> None] \in AppConfig
  BY DEF AppConfig

LEMMA OffFits == Fits(Off)
  BY DEF Off, Fits, ProcessRecord, ProcessStates

LEMMA StepFits ==
    ASSUME Ready, NEW p \in Process, Startup(p) \/ Choice(p)
    PROVE  (\E r : Goto(p, r) /\ Fits(r)) \/ proc' = proc
<1> DEFINE old == proc[p]
<1>0. old \in ProcessRecord /\ Fits(old) /\ config \in AppConfig \cup {None}
  BY DEF Ready
<1>1. CASE Start(p)
  <2>1. ASSUME NEW c \in AppConfig \cup {None}
        PROVE  Fits([Off EXCEPT !.pc = "starting", !.seen = c])
    BY DEF Off, Fits, ProcessRecord, ProcessStates
  <2>2. Fits([Off EXCEPT !.pc = "starting"])
    BY DEF Off, Fits, ProcessRecord, ProcessStates
  <2> QED
    BY <1>0, <1>1, <2>1, <2>2 DEF Start
<1>2. ASSUME NEW pc \in {"error", "running"} PROVE Fits([old EXCEPT !.pc = pc])
  BY <1>0 DEF Fits, ProcessRecord, ProcessStates
<1>3. CASE Initialize(p)
  <2>1. Fits([old EXCEPT !.pc = "validating", !.found = config])
    BY <1>0 DEF Fits, ProcessRecord, ProcessStates
  <2> QED
    BY <1>2, <1>3, <2>1 DEF Initialize
<1>4. ASSUME NEW d \in Directory
      PROVE  /\ Fits([old EXCEPT !.pc = "opening", !.dir = d])
             /\ Fits([old EXCEPT !.pc = "promoting", !.dir = d,
                                 !.next = [active |-> d, pending |-> None]])
  <2>1. Fits([old EXCEPT !.pc = "opening", !.dir = d])
    BY <1>0 DEF Fits, ProcessRecord, ProcessStates
  <2>2. Fits([old EXCEPT !.pc = "promoting", !.dir = d,
                         !.next = [active |-> d, pending |-> None]])
    BY <1>0, NewConfig DEF Fits, ProcessRecord, ProcessStates
  <2> QED
    BY <2>1, <2>2
<1>5. CASE ValidateFirst(p)
  BY <1>2, <1>4, <1>5, Locations DEF ValidateFirst
<1>6. CASE ValidatePending(p)
  <2>1. old.found \in AppConfig /\ old.found.pending \in Directory
    BY <1>0, <1>6 DEF ValidatePending, AppConfig, ProcessRecord
  <2>2. [old.found EXCEPT !.pending = None] \in AppConfig
    BY <2>1 DEF AppConfig
  <2>3. Fits([old EXCEPT !.pc = "retaining", !.next = [old.found EXCEPT !.pending = None]])
    BY <1>0, <2>2 DEF Fits, ProcessRecord, ProcessStates
  <2> QED
    BY <1>4, <1>6, <2>1, <2>3 DEF ValidatePending
<1>7. CASE ValidateActive(p)
  <2>1. old.found.active \in Directory
    BY <1>0, <1>7 DEF ValidateActive, AppConfig, ProcessRecord
  <2> QED
    BY <1>2, <1>4, <1>7, <2>1 DEF ValidateActive
<1>8. CASE SaveStartup(p)
  <2>1. At(p, "promoting") => Fits([old EXCEPT !.pc = "opening"])
    BY <1>0 DEF At, Fits, ProcessRecord, ProcessStates
  <2> QED
    BY <1>2, <1>8, <2>1 DEF SaveStartup
<1>9. CASE Open(p) \/ OpenFails(p)
  BY <1>2, <1>9 DEF Open, OpenFails
<1>10. ASSUME NEW d \in Directory, Prepare(p, d) PROVE \E r : Goto(p, r) /\ Fits(r)
  <2>1. Fits([old EXCEPT !.pc = "choosing", !.home = old.pc, !.target = d])
    BY <1>0, <1>10 DEF Prepare, Selectable, Fits, ProcessRecord, ProcessStates
  <2> QED
    BY <1>10, <2>1 DEF Prepare
<1>11. ASSUME NEW d \in Directory, PrepareFails(p, d) PROVE proc' = proc
  BY <1>11 DEF PrepareFails
<1>12. ASSUME old.pc \in {"choosing", "deciding"} PROVE Fits([old EXCEPT !.pc = old.home])
  BY <1>0, <1>12 DEF Fits, ProcessRecord, ProcessStates
<1>13. CASE LoadChoice(p)
  <2>1. Fits([old EXCEPT !.pc = "deciding", !.found = config])
    BY <1>0, <1>13 DEF LoadChoice, At, Fits, ProcessRecord, ProcessStates
  <2> QED
    BY <1>12, <1>13, <2>1 DEF LoadChoice, At
<1>14. CASE SaveChoice(p)
  BY <1>12, <1>14 DEF SaveChoice, At
<1> QED
  BY <1>1, <1>3, <1>5, <1>6, <1>7, <1>8, <1>9, <1>10, <1>11, <1>13, <1>14 DEF Startup, Choice

LEMMA DatabaseType ==
    ASSUME Ready, [Next]_vars
    PROVE  /\ writable' \in [Directory -> BOOLEAN]
           /\ db' \in [Directory -> Databases]
<1>0. writable \in [Directory -> BOOLEAN] /\ db \in [Directory -> Databases]
  BY DEF Ready
<1>1. ASSUME NEW d \in Directory, Migrate(d) \/ MigrationFails(d)
      PROVE  db' \in [Directory -> Databases]
  BY <1>0, <1>1 DEF Migrate, MigrationFails, Databases
<1>2. ASSUME NEW d \in Directory, NEW kind \in {"none", "old", "foreign", "other"}, ChangedByHand(d, kind)
      PROVE  db' \in [Directory -> Databases]
  BY <1>0, <1>2 DEF ChangedByHand, Databases
<1>3. ASSUME NEW d \in Directory, DiskChanges(d) PROVE writable' \in [Directory -> BOOLEAN]
  BY <1>0, <1>3 DEF DiskChanges
<1>4. ASSUME NEW p \in Process, Open(p) \/ OpenFails(p) PROVE db' \in [Directory -> Databases]
  <2>1. proc[p].dir \in Directory
    BY <1>4 DEF Open, OpenFails, At, Ready, Fits
  <2> QED
    BY <1>0, <1>1, <1>4, <2>1 DEF Open, OpenFails
<1>5. ASSUME NEW d \in Directory, NEW p \in Process, Prepare(p, d) \/ PrepareFails(p, d)
      PROVE  db' \in [Directory -> Databases]
  BY <1>1, <1>5 DEF Prepare, PrepareFails
<1> QED
  BY <1>0, <1>2, <1>3, <1>4, <1>5
     DEF Next, Startup, Choice, Environment, Start, Initialize, ValidateFirst, ValidatePending,
         ValidateActive, SaveStartup, Open, OpenFails, Prepare, PrepareFails, LoadChoice,
         SaveChoice, End, DiskChanges, ChangedByHand, vars

LEMMA ConfigType == ASSUME Ready, [Next]_vars PROVE config' \in AppConfig \cup {None}
<1>0. config \in AppConfig \cup {None}
  BY DEF Ready
<1>1. ASSUME NEW p \in Process, SaveStartup(p) PROVE config' \in AppConfig \cup {None}
  BY <1>0, <1>1 DEF SaveStartup, Ready, Fits
<1>2. ASSUME NEW p \in Process, SaveChoice(p) PROVE config' \in AppConfig \cup {None}
  <2>1. proc[p].target \in Directory /\ proc[p].found \in AppConfig \cup {None}
    BY <1>2 DEF SaveChoice, At, Ready, Fits, ProcessRecord
  <2>2. Chosen(p) \in AppConfig
    BY <2>1 DEF Chosen, AppConfig
  <2> QED
    BY <1>0, <1>2, <2>2 DEF SaveChoice
<1> QED
  BY <1>0, <1>1, <1>2
     DEF Next, Startup, Choice, Environment, Start, Initialize, ValidateFirst, ValidatePending,
         ValidateActive, Open, OpenFails, Prepare, PrepareFails, LoadChoice,
         End, DiskChanges, ChangedByHand, vars

LEMMA ReadyStep == Ready /\ [Next]_vars => Ready'
<1> SUFFICES ASSUME Ready, [Next]_vars PROVE Ready'
  OBVIOUS
<1>1. ASSUME NEW p \in Process, NEW r, Goto(p, r), Fits(r)
      PROVE  proc' \in [Process -> ProcessRecord] /\ \A q \in Process : Fits(proc'[q])
  BY <1>1 DEF Ready, Goto, Fits
<1>2. proc' \in [Process -> ProcessRecord] /\ \A q \in Process : Fits(proc'[q])
  <2>1. ASSUME NEW p \in Process, Startup(p) \/ Choice(p)
        PROVE  proc' \in [Process -> ProcessRecord] /\ \A q \in Process : Fits(proc'[q])
    <3>1. CASE proc' = proc
      BY <3>1 DEF Ready
    <3> QED
      BY <1>1, <2>1, <3>1, StepFits
  <2>2. CASE UNCHANGED proc
    BY <2>2 DEF Ready
  <2> QED
    BY <1>1, <2>1, <2>2, OffFits DEF Next, Environment, End, DiskChanges, ChangedByHand, vars
<1> QED
  BY <1>2, ConfigType, DatabaseType DEF Ready

LEMMA ReadyInit == Init => Ready
<1> SUFFICES ASSUME Init PROVE Ready
  OBVIOUS
<1>1. config \in AppConfig \cup {None}
  BY DEF Init, AppConfig
<1>2. db \in [Directory -> Databases]
  BY DEF Init, Databases
<1>3. proc \in [Process -> ProcessRecord] /\ \A p \in Process : Fits(proc[p])
  BY OffFits DEF Init, Fits
<1> QED
  BY <1>1, <1>2, <1>3 DEF Init, Ready

(* The configuration is whole and every process is in one state, for any number
   of processes. *)
THEOREM TypeCorrect == Spec => []TypeOK
<1>1. Ready => TypeOK
  BY DEF Ready, TypeOK, ProcessRecord
<1> QED
  BY <1>1, ReadyInit, ReadyStep, PTL DEF Spec
-----------------------------------------------------------------------------
(* One process *)

OneProcess == \A p, q \in Process : p = q

(* What a single process has read is still so: nobody else writes config.json,
   and no database changes by hand while it runs. *)
Steady(p) ==
    /\ proc[p].pc \in {"starting", "validating", "promoting", "retaining"}
         => proc[p].seen \in {None, config}
    /\ proc[p].pc \in {"validating", "deciding"} => proc[p].found = config
    /\ proc[p].pc = "promoting" =>
         /\ proc[p].next = [active |-> proc[p].dir, pending |-> None]
         /\ config # None => config.pending = proc[p].dir
         /\ config # None /\ proc[p].seen # None => db[proc[p].dir] = "current"
    /\ proc[p].pc = "retaining" =>
         config # None /\ proc[p].next = [config EXCEPT !.pending = None]
    /\ proc[p].pc = "opening" \/ Working(p) => config # None /\ proc[p].dir = config.active

\* Outside these states Steady says nothing.
Settled(r) ==
    \/ r.pc \in {"off", "error"}
    \/ r.pc = "choosing" /\ r.home = "error"

LEMMA SettledIsSteady == ASSUME NEW p \in Process, Settled(proc[p]) PROVE Steady(p)
  BY DEF Settled, Steady, Working, At

LEMMA SteadyStep ==
    ASSUME OneProcess, Ready, \A p \in Process : Steady(p), [Next]_vars, NEW q \in Process
    PROVE  Steady(q)'
<1> DEFINE old == proc[q]
<1>0. /\ old \in ProcessRecord /\ Fits(old) /\ Steady(q)
      /\ proc \in [Process -> ProcessRecord] /\ config \in AppConfig \cup {None}
  BY DEF Ready
<1>1. ASSUME NEW r, Goto(q, r) PROVE proc'[q] = r
  BY <1>0, <1>1 DEF Goto
<1>2. ASSUME NEW r, Goto(q, r), Settled(r) PROVE Steady(q)'
  BY <1>1, <1>2, SettledIsSteady DEF Settled, Steady, Working, At
<1>3. ASSUME Goto(q, [old EXCEPT !.pc = "error"]) PROVE Steady(q)'
  BY <1>0, <1>2, <1>3 DEF Settled, ProcessRecord
<1>4. CASE Start(q)
  <2>1. proc'[q].pc = "starting" /\ proc'[q].seen \in {None, config} /\ config' = config
    BY <1>1, <1>4 DEF Start, Off
  <2> QED
    BY <2>1 DEF Steady, Working, At
<1>5. CASE Initialize(q)
  <2>1. CASE Goto(q, [old EXCEPT !.pc = "validating", !.found = config])
    <3>1. /\ proc'[q].pc = "validating" /\ proc'[q].found = config
          /\ proc'[q].seen = old.seen
      BY <1>0, <1>1, <2>1 DEF ProcessRecord
    <3> QED
      BY <1>0, <1>5, <3>1 DEF Initialize, Steady, Working, At
  <2> QED
    BY <1>3, <1>5, <2>1 DEF Initialize
<1>6. ASSUME NEW d \in Directory,
             Goto(q, [old EXCEPT !.pc = "promoting", !.dir = d,
                                 !.next = [active |-> d, pending |-> None]]),
             At(q, "validating"), UNCHANGED <<config, db>>,
             config # None => config.pending = d /\ StartupDirectoryValid(q, d)
      PROVE  Steady(q)'
  <2>1. /\ proc'[q].pc = "promoting" /\ proc'[q].dir = d /\ proc'[q].seen = old.seen
        /\ proc'[q].next = [active |-> d, pending |-> None]
    BY <1>0, <1>1, <1>6 DEF ProcessRecord
  <2>2. old.seen \in {None, config}
    BY <1>0, <1>6 DEF Steady, At
  <2>3. ASSUME config # None, old.seen # None PROVE db[d] = "current"
    BY <1>6, <2>2, <2>3 DEF StartupDirectoryValid, Inspect
  <2> QED
    BY <1>6, <2>1, <2>2, <2>3 DEF Steady, Working, At
<1>7. CASE ValidateFirst(q)
  <2>1. At(q, "validating") /\ config = None
    BY <1>0, <1>7 DEF ValidateFirst, Steady, At
  <2> QED
    BY <1>3, <1>6, <1>7, <2>1, Locations DEF ValidateFirst
<1>8. CASE ValidatePending(q)
  <2>1. /\ At(q, "validating") /\ old.found = config /\ config # None /\ config.pending # None
        /\ UNCHANGED <<config, db>>
    BY <1>0, <1>8 DEF ValidatePending, Steady, At
  <2>2. config.pending \in Directory
    BY <1>0, <2>1 DEF AppConfig
  <2>3. CASE StartupDirectoryValid(q, config.pending)
    BY <1>6, <1>8, <2>1, <2>2, <2>3 DEF ValidatePending
  <2>4. CASE ~StartupDirectoryValid(q, config.pending)
    <3>1. Goto(q, [old EXCEPT !.pc = "retaining", !.next = [config EXCEPT !.pending = None]])
      BY <1>8, <2>1, <2>4 DEF ValidatePending
    <3>2. /\ proc'[q].pc = "retaining" /\ proc'[q].seen = old.seen
          /\ proc'[q].next = [config EXCEPT !.pending = None]
      BY <1>0, <1>1, <3>1 DEF ProcessRecord
    <3> QED
      BY <1>0, <2>1, <3>2 DEF Steady, Working, At
  <2> QED
    BY <2>3, <2>4
<1>9. CASE ValidateActive(q)
  <2>1. At(q, "validating") /\ old.found = config /\ config # None /\ config' = config
    BY <1>0, <1>9 DEF ValidateActive, Steady, At
  <2>2. CASE Goto(q, [old EXCEPT !.pc = "opening", !.dir = config.active])
    <3>1. proc'[q].pc = "opening" /\ proc'[q].dir = config.active
      BY <1>0, <1>1, <2>2 DEF ProcessRecord
    <3> QED
      BY <2>1, <3>1 DEF Steady, Working, At
  <2> QED
    BY <1>3, <1>9, <2>1, <2>2 DEF ValidateActive
<1>10. CASE SaveStartup(q)
  <2>1. CASE Goto(q, [old EXCEPT !.pc = "opening"]) /\ At(q, "promoting") /\ config' = old.next
    <3>1. proc'[q].pc = "opening" /\ proc'[q].dir = old.dir
      BY <1>0, <1>1, <2>1 DEF ProcessRecord
    <3>2. old.next = [active |-> old.dir, pending |-> None] /\ old.next \in AppConfig
      BY <1>0, <2>1 DEF Steady, At, Fits
    <3>3. config' # None /\ config'.active = old.dir
      BY <2>1, <3>2, NoConfig
    <3> QED
      BY <3>1, <3>3 DEF Steady, Working, At
  <2> QED
    BY <1>3, <1>10, <2>1 DEF SaveStartup
<1>11. CASE Open(q)
  <2>1. proc'[q].pc = "running" /\ proc'[q].dir = old.dir /\ config' = config
    BY <1>0, <1>1, <1>11 DEF Open, ProcessRecord
  <2> QED
    BY <1>0, <1>11, <2>1 DEF Open, Steady, Working, At
<1>12. CASE OpenFails(q)
  BY <1>3, <1>12 DEF OpenFails
<1>13. ASSUME NEW d \in Directory, Prepare(q, d) PROVE Steady(q)'
  <2>1. /\ proc'[q].pc = "choosing" /\ proc'[q].home = old.pc /\ proc'[q].dir = old.dir
        /\ old.pc \in {"running", "error"} /\ config' = config
    BY <1>0, <1>1, <1>13 DEF Prepare, Selectable, ProcessRecord
  <2> QED
    BY <1>0, <2>1 DEF Steady, Working, At
<1>14. ASSUME NEW d \in Directory, PrepareFails(q, d) PROVE Steady(q)'
  <2>1. old.pc \in {"running", "error"} /\ proc' = proc /\ config' = config
    BY <1>14 DEF PrepareFails, Selectable
  <2> QED
    BY <1>0, <2>1 DEF Steady, Working, At
<1>15. ASSUME Goto(q, [old EXCEPT !.pc = old.home]), old.pc \in {"choosing", "deciding"},
              old.home = "running" => config' # None /\ config'.active = config.active
       PROVE  Steady(q)'
  <2>1. old.home \in {"running", "error"}
    BY <1>0, <1>15 DEF Fits
  <2>2. proc'[q].pc = old.home /\ proc'[q].dir = old.dir
    BY <1>0, <1>1, <1>15 DEF ProcessRecord
  <2> QED
    BY <1>0, <1>15, <2>1, <2>2 DEF Steady, Working, At
<1>16. CASE LoadChoice(q)
  <2>1. CASE Goto(q, [old EXCEPT !.pc = "deciding", !.found = config])
    <3>1. /\ proc'[q].pc = "deciding" /\ proc'[q].found = config
          /\ proc'[q].dir = old.dir /\ proc'[q].home = old.home
      BY <1>0, <1>1, <2>1 DEF ProcessRecord
    <3> QED
      BY <1>0, <1>16, <3>1 DEF LoadChoice, Steady, Working, At
  <2>2. CASE Goto(q, [old EXCEPT !.pc = old.home])
    BY <1>0, <1>15, <1>16, <2>2 DEF LoadChoice, Steady, Working, At
  <2> QED
    BY <1>16, <2>1, <2>2 DEF LoadChoice
<1>17. CASE SaveChoice(q)
  <2>1. old.pc = "deciding" /\ old.found = config /\ Goto(q, [old EXCEPT !.pc = old.home])
    BY <1>0, <1>17 DEF SaveChoice, Steady, At
  <2>2. old.home = "running" => config # None
    BY <1>0, <2>1 DEF Steady, Working, At
  <2>3. ASSUME config # None
        PROVE  Chosen(q) # None /\ Chosen(q).active = config.active
    <3>1. old.target \in Directory
      BY <1>0, <2>1 DEF Fits
    <3>2. Chosen(q) = [config EXCEPT !.pending = old.target]
      BY <2>1, <2>3 DEF Chosen
    <3>3. Chosen(q) \in AppConfig /\ Chosen(q).active = config.active
      BY <1>0, <2>3, <3>1, <3>2 DEF AppConfig
    <3> QED
      BY <3>3, NoConfig
  <2> QED
    BY <1>15, <1>17, <2>1, <2>2, <2>3 DEF SaveChoice
<1>18. CASE End(q)
  BY <1>2, <1>18 DEF End, Settled, Off
<1>19. ASSUME NEW d \in Directory, NEW kind, ChangedByHand(d, kind) PROVE Steady(q)'
  <2>1. proc'[q].pc = "off"
    BY <1>19 DEF ChangedByHand, At
  <2> QED
    BY <2>1 DEF Steady, Working, At
<1>20. ASSUME UNCHANGED <<config, db, proc>> PROVE Steady(q)'
  BY <1>0, <1>20 DEF Steady, Working, At
<1>21. \A p \in Process : p = q
  BY DEF OneProcess
<1> QED
  BY <1>4, <1>5, <1>7, <1>8, <1>9, <1>10, <1>11, <1>12, <1>13, <1>14, <1>16, <1>17, <1>18,
     <1>19, <1>20, <1>21
     DEF Next, Startup, Choice, Environment, DiskChanges, vars

OneInv == Ready /\ \A p \in Process : Steady(p)

THEOREM OneProcessInv == ASSUME OneProcess PROVE Spec => []OneInv
<1>1. Init => OneInv
  <2> SUFFICES ASSUME Init PROVE OneInv
    OBVIOUS
  <2>1. \A p \in Process : Steady(p)
    BY DEF Init, Steady, Working, At, Off
  <2> QED
    BY <2>1, ReadyInit DEF OneInv
<1>2. OneInv /\ [Next]_vars => OneInv'
  BY ReadyStep, SteadyStep DEF OneInv
<1> QED
  BY <1>1, <1>2, PTL DEF Spec

(* The application works where the configuration says, from start to end. *)
THEOREM WorksInActive == ASSUME OneProcess PROVE Spec => []RunningUsesActive
<1>1. OneInv => RunningUsesActive
  BY DEF OneInv, Steady, RunningUsesActive
<1> QED
  BY <1>1, OneProcessInv, PTL

(* The active directory changes only to the chosen one, once, and validated. *)
THEOREM ValidatedActivation == ASSUME OneProcess PROVE Spec => ActivationIsValidated
<1>1. OneInv /\ [Next]_vars =>
        Activated(db[config'.active] = "current" \/ \E p \in Process : Blind(p))
  <2> SUFFICES ASSUME OneInv, [Next]_vars, config # None, config' # None,
                      config'.active # config.active
               PROVE  /\ config'.active = config.pending /\ config'.pending = None
                      /\ db[config'.active] = "current" \/ \E p \in Process : Blind(p)
    BY DEF Activated
  <2>1. PICK p \in Process : SaveStartup(p) \/ SaveChoice(p)
    BY DEF Next, Startup, Choice, Environment, Start, Initialize, ValidateFirst,
       ValidatePending, ValidateActive, Open, OpenFails, Prepare, PrepareFails, LoadChoice, End,
       DiskChanges, ChangedByHand, vars
  <2>2. config \in AppConfig /\ proc[p] \in ProcessRecord /\ Steady(p) /\ Fits(proc[p])
    BY DEF OneInv, Ready
  <2>3. ~SaveChoice(p)
    <3> SUFFICES ASSUME SaveChoice(p) PROVE FALSE
      OBVIOUS
    <3>1. proc[p].found = config /\ proc[p].target \in Directory /\ config' = Chosen(p)
      BY <2>2 DEF SaveChoice, At, Steady, Fits
    <3>2. config' = [config EXCEPT !.pending = proc[p].target]
      BY <3>1 DEF Chosen
    <3> QED
      BY <2>2, <3>1, <3>2 DEF AppConfig
  <2>4. config' = proc[p].next /\ proc[p].pc \in {"promoting", "retaining"}
    BY <2>1, <2>3 DEF SaveStartup
  <2>5. proc[p].pc = "promoting"
    <3> SUFFICES ASSUME proc[p].pc = "retaining" PROVE FALSE
      BY <2>4
    <3>1. config' = [config EXCEPT !.pending = None]
      BY <2>2, <2>4 DEF Steady
    <3> QED
      BY <2>2, <3>1 DEF AppConfig
  <2>6. config' = [active |-> proc[p].dir, pending |-> None] /\ config.pending = proc[p].dir
    BY <2>2, <2>4, <2>5 DEF Steady
  <2>7. proc[p].seen = None \/ db[proc[p].dir] = "current"
    BY <2>2, <2>5 DEF Steady
  <2> QED
    BY <2>5, <2>6, <2>7 DEF Blind, At
<1>2. OneInv /\ [Next]_vars =>
        [Activated(db[config'.active] = "current" \/ \E p \in Process : Blind(p))]_vars
  BY <1>1
<1> QED
  BY <1>2, OneProcessInv, PTL DEF Spec, ActivationIsValidated

(* Data found in a directory is not touched before it is the active one. *)
THEOREM DataUntouched == ASSUME OneProcess PROVE Spec => ExistingDataUntouched
<1>1. OneInv /\ [Next]_vars =>
        \A d \in Directory : db'[d] # db[d] =>
          \/ db[d] = "none"
          \/ config # None /\ config.active = d /\ \E p \in Process : At(p, "opening")
          \/ \A p \in Process : At(p, "off")
  <2> SUFFICES ASSUME OneInv, [Next]_vars, NEW d \in Directory, db'[d] # db[d],
                      db[d] # "none", \E p \in Process : ~At(p, "off")
               PROVE  config # None /\ config.active = d /\ \E p \in Process : At(p, "opening")
    OBVIOUS
  <2>0. db \in [Directory -> Databases]
    BY DEF OneInv, Ready
  <2>1. ASSUME NEW e \in Directory, Migrate(e) PROVE e = d /\ db[d] # "current"
    BY <2>0, <2>1 DEF Migrate
  <2>2. ASSUME NEW e \in Directory, MigrationFails(e) PROVE FALSE
    BY <2>0, <2>2 DEF MigrationFails
  <2>3. PICK p \in Process :
          \/ Open(p) \/ OpenFails(p)
          \/ \E e \in Directory : Prepare(p, e) \/ PrepareFails(p, e)
    BY DEF Next, Startup, Choice, Environment, Start, Initialize, ValidateFirst,
       ValidatePending, ValidateActive, SaveStartup, LoadChoice, SaveChoice, End,
       DiskChanges, ChangedByHand, vars
  <2>4. ASSUME NEW e \in Directory, Prepare(p, e) \/ PrepareFails(p, e) PROVE FALSE
    <3>1. Inspect(e) # "invalid"
      BY <2>4 DEF Prepare, PrepareFails, Selectable
    <3>2. db[e] \in {"none", "current"}
      BY <2>0, <3>1 DEF Inspect, Databases
    <3> QED
      BY <2>1, <2>2, <2>4, <3>2 DEF Prepare, PrepareFails
  <2>5. At(p, "opening") /\ proc[p].dir \in Directory /\ config # None /\ proc[p].dir = config.active
    BY <2>3, <2>4 DEF Open, OpenFails, At, OneInv, Ready, Fits, Steady
  <2>6. proc[p].dir = d
    BY <2>1, <2>2, <2>3, <2>4, <2>5 DEF Open, OpenFails
  <2> QED
    BY <2>5, <2>6
<1>2. OneInv /\ [Next]_vars =>
        [\A d \in Directory : db'[d] # db[d] =>
          \/ db[d] = "none"
          \/ config # None /\ config.active = d /\ \E p \in Process : At(p, "opening")
          \/ \A p \in Process : At(p, "off")]_vars
  BY <1>1
<1> QED
  BY <1>2, OneProcessInv, PTL DEF Spec, ExistingDataUntouched
=============================================================================

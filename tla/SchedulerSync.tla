--------------------------- MODULE SchedulerSync ---------------------------
(***************************************************************************)
(* sync_code_jobs: reconciling the ScheduledJob rows with the @scheduled   *)
(* specs that the running code declares, against operators who pause,      *)
(* resume, retune and reset the same rows, and ticks that disable a job    *)
(* whose task path no longer resolves.                                     *)
(*                                                                         *)
(* All rows are source=CODE.  `scheduled' says whether next_run_at is set. *)
(* Each process is a server or a migrate that loaded the registry of its   *)
(* own deploy; reads and writes of a row are separate steps.               *)
(***************************************************************************)
EXTENDS Naturals, FiniteSets

CONSTANTS
    Jobs,           \* names of code jobs that exist or may exist
    CodeCadences,       \* valid cadences
    Servers,          \* processes that sync or serve staff requests
    MaxDeploys,     \* bound: changes of the declared specs
    MaxEdits,       \* bound: staff requests
    Absent

RowType ==
    [enabled : BOOLEAN, auto_retired : BOOLEAN, schedule_overridden : BOOLEAN,
     cadence : CodeCadences, scheduled : BOOLEAN]

ASSUME SyncAssumption ==
    /\ Jobs # {} /\ CodeCadences # {}
    /\ MaxDeploys \in Nat /\ MaxEdits \in Nat
    /\ Absent \notin Jobs /\ Absent \notin RowType

VARIABLES
    release,    \* the specs the current release declares: name -> cadence
    row,        \* the rows of the table; Absent before the first sync
    stage,      \* where each process stands
    reg,        \* _SCHEDULE_REGISTRY of the process: name -> cadence
    todo,       \* specs or orphans left in the loop
    inst,       \* the row a process holds, with its name
    deploys, edits,
    handOff,    \* history: rows whose last operator decision was "off"
    everOff,    \* history: rows an operator or a tick once disabled
    chosen      \* history: the cadence an operator chose, until it is reset or
                \* another save of the row overlaps

held == <<stage, reg, todo, inst>>
history == <<handOff, everOff, chosen>>
syncVars == <<release, row, held, deploys, edits, history>>

NoInst == [name |-> Absent, at |-> Absent]
NewRow(c) ==
    [enabled |-> TRUE, auto_retired |-> FALSE, schedule_overridden |-> FALSE,
     cadence |-> c, scheduled |-> TRUE]

SyncInit ==
    /\ release \in [Jobs -> CodeCadences]
    /\ row = [j \in Jobs |-> Absent]
    /\ stage = [p \in Servers |-> "idle"]
    /\ reg = [p \in Servers |-> release]
    /\ todo = [p \in Servers |-> {}]
    /\ inst = [p \in Servers |-> NoInst]
    /\ deploys = 0 /\ edits = 0
    /\ handOff = {} /\ everOff = {}
    /\ chosen = [j \in Jobs |-> Absent]

Move(p, l) == stage' = [stage EXCEPT ![p] = l]
Existing == {j \in Jobs : row[j] # Absent}
Hold(p, j) == inst' = [inst EXCEPT ![p] = [name |-> j, at |-> row[j]]]
Release(p) == inst' = [inst EXCEPT ![p] = NoInst]

(* What the code of a release may declare. *)
Registries == UNION {[S -> CodeCadences] : S \in SUBSET Jobs}

(* A release or a flag changes what the code declares. *)
Deploy ==
    /\ deploys < MaxDeploys
    /\ deploys' = deploys + 1
    /\ release' \in Registries
    /\ UNCHANGED <<row, held, edits, history>>

-----------------------------------------------------------------------------
(* A process ends, wherever it stands, and one of the current release      *)
(* takes its place: autodiscovery fills its registry once.                 *)
Restart(p) ==
    /\ reg[p] # release
    /\ reg' = [reg EXCEPT ![p] = release]
    /\ todo' = [todo EXCEPT ![p] = {}]
    /\ Release(p)
    /\ Move(p, "idle")
    /\ UNCHANGED <<release, row, deploys, edits, history>>

-----------------------------------------------------------------------------
(* sync_code_jobs, first loop: after a migrate, or at the first tick.      *)
StartSync(p) ==
    /\ stage[p] = "idle"
    /\ todo' = [todo EXCEPT ![p] = DOMAIN reg[p]]
    /\ Move(p, "specs")
    /\ UNCHANGED <<release, row, reg, inst, deploys, edits, history>>

(* get_or_create: a missing row is created, seeded and saved ... *)
CreateRow(p, j) ==
    /\ stage[p] = "specs" /\ j \in todo[p] /\ row[j] = Absent
    /\ row' = [row EXCEPT ![j] = NewRow(reg[p][j])]
    /\ todo' = [todo EXCEPT ![p] = @ \ {j}]
    /\ UNCHANGED <<release, stage, reg, inst, deploys, edits, history>>

(* ... an existing one is held while its changes are computed. *)
ReadRow(p, j) ==
    /\ stage[p] = "specs" /\ j \in todo[p] /\ row[j] # Absent
    /\ Hold(p, j)
    /\ todo' = [todo EXCEPT ![p] = @ \ {j}]
    /\ Move(p, "refresh")
    /\ UNCHANGED <<release, row, reg, deploys, edits, history>>

(* Mutant: the override is not honoured. *)
RefreshAnyCadence(p) ==
    LET j == inst[p].name
        old == inst[p].at
        retunes == old.cadence # reg[p][j]
        cadence == IF retunes THEN reg[p][j] ELSE old.cadence
        enabled == old.enabled \/ old.auto_retired
        saves == retunes \/ old.auto_retired \/ (enabled /\ ~old.scheduled)
        reseeds == saves /\ enabled /\ (~old.scheduled \/ retunes
                                       \/ cadence # row[j].cadence)
    IN  /\ stage[p] = "refresh"
        /\ row' = [row EXCEPT
             ![j].cadence = IF retunes THEN cadence ELSE @,
             ![j].enabled = IF old.auto_retired THEN TRUE ELSE @,
             ![j].auto_retired = IF old.auto_retired THEN FALSE ELSE @,
             ![j].scheduled = IF reseeds THEN TRUE ELSE @]
        /\ Release(p)
        /\ Move(p, "specs")
        /\ UNCHANGED <<release, reg, todo, deploys, edits, history>>

(* The cadence follows the code unless overridden; a row the sync itself   *)
(* retired is revived; save(update_fields) writes only what changed, and   *)
(* the model's save() seeds next_run_at when the stored cadence differs.   *)
Refresh(p) ==
    LET j == inst[p].name
        old == inst[p].at
        retunes == ~old.schedule_overridden /\ old.cadence # reg[p][j]
        cadence == IF retunes THEN reg[p][j] ELSE old.cadence
        enabled == old.enabled \/ old.auto_retired
        saves == retunes \/ old.auto_retired \/ (enabled /\ ~old.scheduled)
        reseeds == saves /\ enabled /\ (~old.scheduled \/ retunes
                                       \/ cadence # row[j].cadence)
    IN  /\ stage[p] = "refresh"
        /\ row' = [row EXCEPT
             ![j].cadence = IF retunes THEN cadence ELSE @,
             ![j].enabled = IF old.auto_retired THEN TRUE ELSE @,
             ![j].auto_retired = IF old.auto_retired THEN FALSE ELSE @,
             ![j].scheduled = IF reseeds THEN TRUE ELSE @]
        /\ Release(p)
        /\ Move(p, "specs")
        /\ UNCHANGED <<release, reg, todo, deploys, edits, history>>

-----------------------------------------------------------------------------
(* Second loop: rows without a spec.                                       *)
Orphans(p) == {j \in Existing : row[j].enabled /\ j \notin DOMAIN reg[p]}

(* At most half of the registry and the orphans together. *)
RetirementIsPlausible(p) ==
    2 * Cardinality(Orphans(p)) <= Cardinality(DOMAIN reg[p]) + Cardinality(Orphans(p))

(* Both safety valves: an empty registry, and too large a shrink. *)
FindOrphans(p) ==
    /\ stage[p] = "specs" /\ todo[p] = {}
    /\ IF DOMAIN reg[p] # {} /\ RetirementIsPlausible(p)
       THEN todo' = [todo EXCEPT ![p] = Orphans(p)] /\ Move(p, "retire")
       ELSE UNCHANGED todo /\ Move(p, "idle")
    /\ UNCHANGED <<release, row, reg, inst, deploys, edits, history>>

(* Mutant: the retirement leaves no marker. *)
RetireUnmarked(p, j) ==
    /\ stage[p] = "retire" /\ j \in todo[p]
    /\ row' = [row EXCEPT ![j].enabled = FALSE, ![j].scheduled = FALSE]
    /\ todo' = [todo EXCEPT ![p] = @ \ {j}]
    /\ UNCHANGED <<release, stage, reg, inst, deploys, edits, history>>

Retire(p, j) ==
    /\ stage[p] = "retire" /\ j \in todo[p]
    /\ row' = [row EXCEPT ![j].enabled = FALSE, ![j].auto_retired = TRUE,
                          ![j].scheduled = FALSE]
    /\ todo' = [todo EXCEPT ![p] = @ \ {j}]
    /\ UNCHANGED <<release, stage, reg, inst, deploys, edits, history>>

EndSync(p) ==
    /\ stage[p] = "retire" /\ todo[p] = {}
    /\ Move(p, "idle")
    /\ UNCHANGED <<release, row, reg, todo, inst, deploys, edits, history>>

-----------------------------------------------------------------------------
(* Staff requests and the tick's own disabling.                            *)
EditRead(p, j) ==
    /\ stage[p] = "idle" /\ row[j] # Absent /\ edits < MaxEdits
    /\ edits' = edits + 1
    /\ Hold(p, j)
    /\ Move(p, "edit")
    /\ UNCHANGED <<release, row, reg, todo, deploys, history>>

(* Someone else is between reading and writing row j, or has written it    *)
(* since p read it.                                                        *)
Overlapped(p, j) ==
    row[j] # inst[p].at \/ \E q \in Servers \ {p} : inst[q].name = j

(* ScheduledJobForm.save and ScheduledJob.save: every column is written.   *)
EditSave(p) ==
    LET j == inst[p].name
        old == inst[p].at
    IN  /\ stage[p] = "edit"
        /\ \E c \in CodeCadences, e \in BOOLEAN :
            /\ row' = [row EXCEPT ![j] =
                 [enabled |-> e, auto_retired |-> old.auto_retired,
                  schedule_overridden |-> old.schedule_overridden \/ c # row[j].cadence,
                  cadence |-> c,
                  scheduled |-> old.scheduled \/ e]]
            /\ chosen' = IF Overlapped(p, j) THEN [chosen EXCEPT ![j] = Absent]
                         ELSE IF c # row[j].cadence \/ old.schedule_overridden
                         THEN [chosen EXCEPT ![j] = c] ELSE chosen
            /\ handOff' = IF ~e /\ old.enabled THEN handOff \cup {j}
                          ELSE IF e THEN handOff \ {j} ELSE handOff
            /\ everOff' = IF ~e /\ old.enabled THEN everOff \cup {j} ELSE everOff
        /\ Release(p)
        /\ Move(p, "idle")
        /\ UNCHANGED <<release, reg, todo, deploys, edits>>

(* reset_schedule reads the row and goes on if it is overridden ... *)
ResetRead(p, j) ==
    /\ stage[p] = "idle" /\ row[j] # Absent /\ edits < MaxEdits
    /\ row[j].schedule_overridden
    /\ edits' = edits + 1
    /\ Hold(p, j)
    /\ Move(p, "reset")
    /\ UNCHANGED <<release, row, reg, todo, deploys, history>>

(* ... drops the override, and syncs in the same request. *)
ResetSave(p) ==
    LET j == inst[p].name
        old == inst[p].at
        reseeds == old.enabled /\ (~old.scheduled \/ old.cadence # row[j].cadence)
    IN  /\ stage[p] = "reset"
        /\ row' = [row EXCEPT ![j].schedule_overridden = FALSE,
                              ![j].scheduled = @ \/ reseeds]
        /\ chosen' = [chosen EXCEPT ![j] = Absent]
        /\ todo' = [todo EXCEPT ![p] = DOMAIN reg[p]]
        /\ Release(p)
        /\ Move(p, "specs")
        /\ UNCHANGED <<release, reg, deploys, edits, handOff, everOff>>

(* A tick found the task path unresolvable. *)
TickDisables(j) ==
    /\ row[j] # Absent /\ row[j].enabled /\ row[j].scheduled /\ edits < MaxEdits
    /\ edits' = edits + 1
    /\ row' = [row EXCEPT ![j].enabled = FALSE]
    /\ everOff' = everOff \cup {j}
    /\ UNCHANGED <<release, held, deploys, handOff, chosen>>

SyncNext ==
    \/ Deploy
    \/ \E p \in Servers :
        \/ Restart(p) \/ StartSync(p) \/ Refresh(p) \/ FindOrphans(p) \/ EndSync(p)
        \/ EditSave(p) \/ ResetSave(p)
        \/ \E j \in Jobs : \/ CreateRow(p, j) \/ ReadRow(p, j) \/ Retire(p, j)
                           \/ EditRead(p, j) \/ ResetRead(p, j)
    \/ \E j \in Jobs : TickDisables(j)

SyncSpec == SyncInit /\ [][SyncNext]_syncVars

-----------------------------------------------------------------------------
(* Rows, instances and loops hold what the code puts in them. *)
SyncTypeOK ==
    /\ release \in Registries
    /\ row \in [Jobs -> RowType \cup {Absent}]
    /\ stage \in [Servers -> {"idle", "specs", "refresh", "retire", "edit", "reset"}]
    /\ reg \in [Servers -> Registries] /\ todo \in [Servers -> SUBSET Jobs]
    /\ inst \in [Servers -> {NoInst} \cup [name : Jobs, at : RowType]]
    /\ deploys \in Nat /\ edits \in Nat
    /\ handOff \subseteq everOff /\ everOff \subseteq Jobs
    /\ chosen \in [Jobs -> CodeCadences \cup {Absent}]

(* A row that is off and carries no auto_retired marker was switched off   *)
(* by an operator or by a failing tick: however syncs of different deploys *)
(* and stale saves interleave, the sync never loses the marker of a row it *)
(* retired, so a returning spec always finds what it must revive.          *)
MarkerExplainsOff ==
    \A j \in Existing :
        ~row[j].enabled /\ ~row[j].auto_retired => j \in everOff

(* A cadence an operator chose stays until it is reset, if no other save   *)
(* of the row overlapped the request: later syncs of any release, however  *)
(* they are interrupted or run side by side, do not stomp the override.    *)
OverrideSticks ==
    \A j \in Existing : chosen[j] # Absent => row[j].cadence = chosen[j]

(* registry.py: a row an operator disabled by hand stays off.              *)
HandOffStays == \A j \in handOff : ~row[j].enabled
=============================================================================

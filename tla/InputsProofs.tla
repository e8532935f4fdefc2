---------------------------- MODULE InputsProofs ----------------------------
(***************************************************************************)
(* What the scheduler and the webhooks take in from outside.               *)
(*                                                                         *)
(* WebhookInbound, for any number of web threads and workers.  The depth of*)
(* a thread is 1 exactly while it runs a handler that does not cascade, and*)
(* 0 otherwise, so suppression never outlives a handler and never reaches  *)
(* another thread.                                                         *)
(*                                                                         *)
(* SchedulerSync, for any number of processes, jobs, deploys and edits.    *)
(* What is true of the rows has to be true of the stale instances as well: *)
(* a save writes them back whole.                                          *)
(*                                                                         *)
(* SchedulePreview and the cadence arithmetic, for any period, anchor and  *)
(* instant: next_run is the first fire on the grid, missed_periods counts  *)
(* what is between two of them, and a walk from fire to fire stays on the  *)
(* grid (OnGrid), which the jump over whole periods has to hit again from  *)
(* every one of its own results.  A calendar interval has no grid if a short*)
(* month clips the day: its fires are the turns of the loop (OnCalendar),  *)
(* by induction on the turns, and walking on from one of them is walking on*)
(* from the anchor (CursorsCompose).                                       *)
(***************************************************************************)
EXTENDS SchedulePreview, SchedulerSync, WebhookInbound, FiniteSetTheorems,
        WellFoundedInduction, TLAPS

\* The depth a process should have.
DepthOK ==
    \A p \in Procs : depth[p] = IF ~Cascades /\ pc[p] \in {"handle", "leave"} THEN 1 ELSE 0

Inv ==
    /\ depth \in [Procs -> Nat] /\ DOMAIN pc = Procs
    /\ fired \in Nat /\ writes \in Nat
    /\ DepthOK
    /\ EventsAreOwnWrites

\* The initial states satisfy the invariant.
LEMMA InitInv == Init => Inv
  BY InboundAssumption DEF Init, Inv, DepthOK, EventsAreOwnWrites

\* A write outside any handler sends its event: the thread is idle, so its
\* depth is 0.
LEMMA OwnWriteKeeps == ASSUME Inv, NEW p \in Procs, OwnWrite(p) PROVE Inv'
  <1>1. ~Suppressed(p)
    BY DEF Inv, DepthOK, OwnWrite, Suppressed
  <1> QED
    BY <1>1 DEF Inv, DepthOK, EventsAreOwnWrites, OwnWrite, Fire

\* A handler's write sends nothing, or the handler cascades.
LEMMA HandlerWritesKeeps == ASSUME Inv, NEW w \in TaskWorkers, HandlerWrites(w) PROVE Inv'
  <1>1. w \in Procs
    BY DEF TaskWorkers, Procs
  <1>2. CASE Cascades
    BY <1>1, <1>2 DEF Inv, DepthOK, EventsAreOwnWrites, HandlerWrites, Fire, Goto
  <1>3. CASE ~Cascades
    <2>1. Suppressed(w)
      BY <1>1, <1>3 DEF Inv, DepthOK, HandlerWrites, Suppressed
    <2> QED
      BY <1>1, <1>3, <2>1 DEF Inv, DepthOK, EventsAreOwnWrites, HandlerWrites, Fire, Goto
  <1> QED
    BY <1>2, <1>3

\* Entering a handler, leaving it and dying in it keep the depth right.
LEMMA DepthKept ==
  ASSUME Inv, NEW w \in TaskWorkers, Dispatch(w) \/ LeaveHandler(w) \/ SaveReceipt(w) \/ Crash(w)
  PROVE  Inv'
  <1>1. w \in Procs
    BY DEF TaskWorkers, Procs
  <1>2. CASE Dispatch(w)
    BY <1>1, <1>2, InboundAssumption
       DEF Inv, DepthOK, EventsAreOwnWrites, Dispatch, Guarded, NoHandler, Goto
  <1>3. CASE LeaveHandler(w)
    BY <1>1, <1>3 DEF Inv, DepthOK, EventsAreOwnWrites, LeaveHandler, Goto
  <1>4. CASE SaveReceipt(w)
    BY <1>1, <1>4 DEF Inv, DepthOK, EventsAreOwnWrites, SaveReceipt, End, Goto
  <1>5. CASE Crash(w)
    BY <1>1, <1>5 DEF Inv, DepthOK, EventsAreOwnWrites, Crash, End, Goto
  <1> QED
    BY <1>2, <1>3, <1>4, <1>5

\* Serving a POST touches neither depths nor events.
LEMMA ServingKeeps ==
  ASSUME Inv, NEW p \in WebThreads,
         Forge(p) \/ NoReceipt(p) \/ Arrive(p) \/ Serve(p) \/ QueueFails(p) \/ AnswerLost(p)
  PROVE  Inv'
  <1>1. p \in Procs
    BY DEF WebThreads, Procs
  <1>2. UNCHANGED <<depth, fired, writes>>
    BY DEF Forge, NoReceipt, Arrive, Serve, QueueFails, AnswerLost, CountRejected, Reject,
           CreateReceipt, QueueDispatch
  <1>3. pc' = pc \/ \E label \in {"idle", "count", "reject", "receive", "queue"} :
                      pc' = [pc EXCEPT ![p] = label]
    BY DEF Forge, NoReceipt, Arrive, Serve, QueueFails, AnswerLost, CountRejected, Reject,
           CreateReceipt, QueueDispatch, End, Goto
  <1>4. pc[p] \notin {"handle", "leave"} \/ pc' = pc
    BY DEF Forge, NoReceipt, Arrive, Serve, QueueFails, AnswerLost, CountRejected, Reject,
           CreateReceipt, QueueDispatch, End, Goto
  <1> QED
    BY <1>1, <1>2, <1>3, <1>4 DEF Inv, DepthOK, EventsAreOwnWrites

\* Every step keeps the invariant.
LEMMA NextInv == Inv /\ [Next]_vars => Inv'
  <1> SUFFICES ASSUME Inv, [Next]_vars PROVE Inv'
    OBVIOUS
  <1>1. CASE UNCHANGED vars
    BY <1>1 DEF Inv, DepthOK, EventsAreOwnWrites, vars
  <1>2. ASSUME NEW s \in Sites, MinutePasses(s) PROVE Inv'
    BY <1>2 DEF Inv, DepthOK, EventsAreOwnWrites, MinutePasses
  <1>3. ASSUME NEW w \in TaskWorkers, Work(w) \/ Crash(w) PROVE Inv'
    BY <1>3, DepthKept, HandlerWritesKeeps DEF Work
  <1> QED
    BY <1>1, <1>2, <1>3, OwnWriteKeeps, ServingKeeps DEF Next

\* The loop guard: without cascading handlers, the events sent are exactly
\* the writes of users and ordinary tasks.
THEOREM LoopGuard == Spec => []EventsAreOwnWrites
  <1>1. Inv => EventsAreOwnWrites
    BY DEF Inv
  <1> QED
    BY <1>1, InitInv, NextInv, PTL DEF Spec

-----------------------------------------------------------------------------
\* Rows are not deleted: what a process holds or is about to retire exists,
\* and a spec it refreshes is one its registry has.
HeldExists ==
    \A p \in Servers :
        /\ stage[p] \in {"refresh", "edit", "reset"} =>
              inst[p].name \in Jobs /\ row[inst[p].name] \in RowType
        /\ stage[p] \in {"idle", "specs", "retire"} => inst[p] = NoInst
        /\ stage[p] = "specs" => todo[p] \subseteq DOMAIN reg[p]
        /\ stage[p] = "refresh" =>
              inst[p].name \in DOMAIN reg[p] /\ todo[p] \subseteq DOMAIN reg[p]
        /\ stage[p] = "retire" => \A j \in todo[p] : row[j] \in RowType

\* A stale instance explains why it is off, as a row does.
HeldExplainsOff ==
    \A p \in Servers, j \in Jobs :
        inst[p].name = j /\ ~inst[p].at.enabled /\ ~inst[p].at.auto_retired => j \in everOff

\* A cadence an operator chose is the row's and marked as an override, in the
\* row and in what a sync has read of it.
ChoiceIsMarked ==
    \A j \in Jobs : chosen[j] # Absent =>
        /\ row[j] \in RowType /\ row[j].schedule_overridden /\ row[j].cadence = chosen[j]
        /\ \A p \in Servers : stage[p] = "refresh" /\ inst[p].name = j =>
                                 inst[p].at.schedule_overridden

SyncInv == /\ SyncTypeOK /\ HeldExists /\ HeldExplainsOff /\ ChoiceIsMarked
           /\ MarkerExplainsOff

-----------------------------------------------------------------------------
Stages == {"idle", "specs", "refresh", "retire", "edit", "reset"}
Instances == {NoInst} \cup [name : Jobs, at : RowType]

\* What a registry declares.
LEMMA RegistryCadence ==
  ASSUME NEW r \in Registries
  PROVE  DOMAIN r \subseteq Jobs /\ \A j \in DOMAIN r : r[j] \in CodeCadences
  BY DEF Registries

\* A held instance has a job's name, or is none.
LEMMA InstanceNames ==
  /\ NoInst.name \notin Jobs
  /\ \A i \in Instances : i.name \in Jobs => i.at \in RowType
  BY SyncAssumption DEF NoInst, Instances

\* The invariant's types, one by one.
LEMMA SyncTypes ==
  ASSUME SyncInv
  PROVE  /\ release \in Registries /\ row \in [Jobs -> RowType \cup {Absent}]
         /\ stage \in [Servers -> Stages] /\ reg \in [Servers -> Registries]
         /\ todo \in [Servers -> SUBSET Jobs] /\ inst \in [Servers -> Instances]
         /\ deploys \in Nat /\ edits \in Nat
         /\ handOff \subseteq everOff /\ everOff \subseteq Jobs
         /\ chosen \in [Jobs -> CodeCadences \cup {Absent}]
  BY DEF SyncInv, SyncTypeOK, Stages, Instances

\* A step of one process: rows stay rows, what is off was off before or is
\* explained, and what the process holds now is as it should be.
LEMMA ProcessStepKeeps ==
  ASSUME SyncInv, NEW p \in Servers,
         stage' \in [Servers -> Stages], reg' \in [Servers -> Registries],
         todo' \in [Servers -> SUBSET Jobs], inst' \in [Servers -> Instances],
         \A q \in Servers \ {p} : /\ stage'[q] = stage[q] /\ reg'[q] = reg[q]
                                  /\ todo'[q] = todo[q] /\ inst'[q] = inst[q],
         row' \in [Jobs -> RowType \cup {Absent}],
         \A j \in Jobs : row[j] \in RowType => row'[j] \in RowType,
         release' \in Registries, deploys' \in Nat, edits' \in Nat,
         handOff' \subseteq everOff', everOff \subseteq everOff', everOff' \subseteq Jobs,
         chosen' \in [Jobs -> CodeCadences \cup {Absent}],
         stage'[p] \in {"refresh", "edit", "reset"} =>
            inst'[p].name \in Jobs /\ row'[inst'[p].name] \in RowType,
         stage'[p] \in {"idle", "specs", "retire"} => inst'[p] = NoInst,
         stage'[p] = "specs" => todo'[p] \subseteq DOMAIN reg'[p],
         stage'[p] = "refresh" =>
            inst'[p].name \in DOMAIN reg'[p] /\ todo'[p] \subseteq DOMAIN reg'[p],
         stage'[p] = "retire" => \A j \in todo'[p] : row'[j] \in RowType,
         inst'[p].name \in Jobs /\ ~inst'[p].at.enabled /\ ~inst'[p].at.auto_retired =>
            inst'[p].name \in everOff',
         \A j \in Jobs : chosen'[j] # Absent =>
            /\ row'[j] \in RowType /\ row'[j].schedule_overridden /\ row'[j].cadence = chosen'[j]
            /\ \A q \in Servers : stage'[q] = "refresh" /\ inst'[q].name = j =>
                                     inst'[q].at.schedule_overridden,
         \A j \in Jobs : row'[j] # Absent /\ ~row'[j].enabled /\ ~row'[j].auto_retired =>
                            j \in everOff'
  PROVE  SyncInv'
  <1>1. SyncTypeOK'
    BY DEF SyncTypeOK, Stages, Instances
  <1>2. HeldExists'
    <2> SUFFICES ASSUME NEW q \in Servers \ {p}
                 PROVE (/\ stage[q] \in {"refresh", "edit", "reset"} =>
                             inst[q].name \in Jobs /\ row[inst[q].name] \in RowType
                        /\ stage[q] \in {"idle", "specs", "retire"} => inst[q] = NoInst
                        /\ stage[q] = "specs" => todo[q] \subseteq DOMAIN reg[q]
                        /\ stage[q] = "refresh" =>
                             inst[q].name \in DOMAIN reg[q] /\ todo[q] \subseteq DOMAIN reg[q]
                        /\ stage[q] = "retire" => \A j \in todo[q] : row[j] \in RowType)'
      BY DEF HeldExists
    <2>1. todo[q] \subseteq Jobs
      BY SyncTypes
    <2> QED
      BY <2>1 DEF SyncInv, HeldExists
  <1>3. HeldExplainsOff'
    BY DEF SyncInv, HeldExplainsOff
  <1>4. ChoiceIsMarked'
    BY DEF ChoiceIsMarked
  <1>5. MarkerExplainsOff'
    BY DEF MarkerExplainsOff, Existing
  <1> QED
    BY <1>1, <1>2, <1>3, <1>4, <1>5 DEF SyncInv

\* A step that writes no row and no history.
LEMMA ReadStepKeeps ==
  ASSUME SyncInv, NEW p \in Servers,
         stage' \in [Servers -> Stages], reg' \in [Servers -> Registries],
         todo' \in [Servers -> SUBSET Jobs], inst' \in [Servers -> Instances],
         \A q \in Servers \ {p} : /\ stage'[q] = stage[q] /\ reg'[q] = reg[q]
                                  /\ todo'[q] = todo[q] /\ inst'[q] = inst[q],
         UNCHANGED <<release, row, deploys, history>>, edits' \in Nat,
         stage'[p] \in {"refresh", "edit", "reset"} =>
            /\ inst'[p].name \in Jobs /\ inst'[p].at = row[inst'[p].name]
            /\ row[inst'[p].name] # Absent,
         stage'[p] \in {"idle", "specs", "retire"} => inst'[p] = NoInst,
         stage'[p] \in {"specs", "refresh"} => todo'[p] \subseteq DOMAIN reg'[p],
         stage'[p] = "refresh" => inst'[p].name \in DOMAIN reg'[p],
         stage'[p] = "retire" => \A j \in todo'[p] : row[j] \in RowType
  PROVE  SyncInv'
  <1>2. UNCHANGED <<handOff, everOff, chosen>>
    BY DEF history
  <1>3. \A j \in Jobs : row[j] # Absent /\ ~row[j].enabled /\ ~row[j].auto_retired => j \in everOff
    BY DEF SyncInv, MarkerExplainsOff, Existing
  <1>4. inst'[p].name \in Jobs => stage'[p] \in {"refresh", "edit", "reset"}
    BY InstanceNames DEF Stages
  <1>5. inst'[p].name \in Jobs /\ ~inst'[p].at.enabled /\ ~inst'[p].at.auto_retired =>
            inst'[p].name \in everOff
    BY <1>3, <1>4
  <1>6. inst'[p].name \in Jobs => row[inst'[p].name] \in RowType
    BY <1>4, SyncTypes
  <1>7. \A j \in Jobs : chosen'[j] # Absent =>
            /\ row'[j] \in RowType /\ row'[j].schedule_overridden /\ row'[j].cadence = chosen'[j]
            /\ \A q \in Servers : stage'[q] = "refresh" /\ inst'[q].name = j =>
                                     inst'[q].at.schedule_overridden
    BY <1>2 DEF SyncInv, ChoiceIsMarked
  <1> QED
    BY <1>2, <1>3, <1>5, <1>6, <1>7, SyncTypes, ProcessStepKeeps

\* Steps of the loop that write no row.
LEMMA LoopStepsKeep ==
  ASSUME SyncInv, NEW p \in Servers,
         Restart(p) \/ StartSync(p) \/ FindOrphans(p) \/ EndSync(p)
  PROVE  SyncInv'
  <1>0. /\ NoInst \in Instances /\ DOMAIN reg[p] \subseteq Jobs
        /\ stage[p] \in {"idle", "specs", "retire"} => inst[p] = NoInst
    BY SyncTypes, RegistryCadence DEF Instances, SyncInv, HeldExists
  <1>1. Orphans(p) \subseteq Jobs /\ \A j \in Orphans(p) : row[j] \in RowType
    BY SyncTypes DEF Orphans, Existing
  <1>2. /\ reg' \in [Servers -> Registries] /\ inst' \in [Servers -> Instances]
        /\ \A q \in Servers \ {p} : reg'[q] = reg[q] /\ inst'[q] = inst[q]
        /\ inst'[p] = NoInst
        /\ UNCHANGED <<release, row, deploys, edits, history>>
    BY <1>0, SyncTypes DEF Restart, StartSync, FindOrphans, EndSync, Release
  <1>3. /\ stage' \in [Servers -> Stages] /\ stage'[p] \in {"idle", "specs", "retire"}
        /\ \A q \in Servers \ {p} : stage'[q] = stage[q]
    BY SyncTypes DEF Restart, StartSync, FindOrphans, EndSync, Move, Stages
  <1>4. /\ todo' \in [Servers -> SUBSET Jobs]
        /\ \A q \in Servers \ {p} : todo'[q] = todo[q]
    BY <1>0, <1>1, SyncTypes DEF Restart, StartSync, FindOrphans, EndSync
  <1>5. /\ stage'[p] = "specs" => todo'[p] \subseteq DOMAIN reg'[p]
        /\ stage'[p] = "retire" => \A j \in todo'[p] : row[j] \in RowType
    BY <1>0, <1>1, SyncTypes DEF Restart, StartSync, FindOrphans, EndSync, Move
  <1> QED
    BY <1>2, <1>3, <1>4, <1>5, SyncTypes, ReadStepKeeps

\* An instance that has just been read says what its row says.
LEMMA ReadsKeep ==
  ASSUME SyncInv, NEW p \in Servers, NEW j \in Jobs,
         ReadRow(p, j) \/ EditRead(p, j) \/ ResetRead(p, j)
  PROVE  SyncInv'
  <1> DEFINE i == [name |-> j, at |-> row[j]]
  <1>1. /\ row[j] # Absent /\ i \in Instances /\ i.name = j /\ i.at = row[j]
        /\ inst' = [inst EXCEPT ![p] = i]
    BY SyncTypes DEF ReadRow, EditRead, ResetRead, Hold, Instances
  <1> HIDE DEF i
  <1>2. /\ inst' \in [Servers -> Instances] /\ inst'[p] = i
        /\ \A q \in Servers \ {p} : inst'[q] = inst[q]
    BY <1>1, SyncTypes
  <1>3. /\ stage' \in [Servers -> Stages] /\ stage'[p] \in {"refresh", "edit", "reset"}
        /\ \A q \in Servers \ {p} : stage'[q] = stage[q]
        /\ stage'[p] = "refresh" <=> ReadRow(p, j)
    BY SyncTypes DEF ReadRow, EditRead, ResetRead, Move, Stages
  <1>4. /\ UNCHANGED <<release, row, reg, deploys, history>> /\ edits' \in Nat
    BY SyncTypes DEF ReadRow, EditRead, ResetRead
  <1>5. /\ todo' \in [Servers -> SUBSET Jobs] /\ \A q \in Servers \ {p} : todo'[q] = todo[q]
        /\ todo'[p] \subseteq todo[p]
    BY SyncTypes DEF ReadRow, EditRead, ResetRead
  <1>6. ReadRow(p, j) => j \in DOMAIN reg[p] /\ todo[p] \subseteq DOMAIN reg[p]
    BY DEF ReadRow, SyncInv, HeldExists
  <1> QED
    BY <1>1, <1>2, <1>3, <1>4, <1>5, <1>6, SyncTypes, ReadStepKeeps

\* A step of p that writes row j.
LEMMA WriteStepKeeps ==
  ASSUME SyncInv, NEW p \in Servers, NEW j \in Jobs, NEW new \in RowType,
         NEW l \in {"idle", "specs", "retire"}, NEW T \in SUBSET Jobs,
         row' = [row EXCEPT ![j] = new],
         stage' = [stage EXCEPT ![p] = l], todo' = [todo EXCEPT ![p] = T],
         inst' = [inst EXCEPT ![p] = NoInst],
         UNCHANGED <<release, reg, deploys, edits>>,
         handOff' \subseteq everOff', everOff \subseteq everOff', everOff' \subseteq Jobs,
         chosen' \in [Jobs -> CodeCadences \cup {Absent}],
         \A k \in Jobs \ {j} : chosen'[k] = chosen[k],
         l = "specs" => T \subseteq DOMAIN reg[p],
         l = "retire" => \A k \in T : row[k] \in RowType,
         ~new.enabled /\ ~new.auto_retired => j \in everOff',
         chosen'[j] # Absent =>
            /\ new.schedule_overridden /\ new.cadence = chosen'[j]
            /\ \A q \in Servers \ {p} : stage[q] = "refresh" /\ inst[q].name = j =>
                                           inst[q].at.schedule_overridden
  PROVE  SyncInv'
  <1>0. NoInst \in Instances /\ l \in Stages
    BY DEF Instances, Stages
  <1>1. /\ stage' \in [Servers -> Stages] /\ reg' \in [Servers -> Registries]
        /\ todo' \in [Servers -> SUBSET Jobs] /\ inst' \in [Servers -> Instances]
        /\ stage'[p] = l /\ reg'[p] = reg[p] /\ todo'[p] = T /\ inst'[p] = NoInst
        /\ \A q \in Servers \ {p} : /\ stage'[q] = stage[q] /\ reg'[q] = reg[q]
                                    /\ todo'[q] = todo[q] /\ inst'[q] = inst[q]
    BY <1>0, SyncTypes
  <1>2. /\ row' \in [Jobs -> RowType \cup {Absent}] /\ row'[j] = new
        /\ \A k \in Jobs \ {j} : row'[k] = row[k]
    BY SyncTypes
  <1>3. \A k \in Jobs : row[k] \in RowType => row'[k] \in RowType
    BY <1>2
  <1>4. \A k \in Jobs : row'[k] # Absent /\ ~row'[k].enabled /\ ~row'[k].auto_retired => k \in everOff'
    BY <1>2 DEF SyncInv, MarkerExplainsOff, Existing
  <1>5. \A k \in Jobs : chosen'[k] # Absent =>
            /\ row'[k] \in RowType /\ row'[k].schedule_overridden /\ row'[k].cadence = chosen'[k]
            /\ \A q \in Servers : stage'[q] = "refresh" /\ inst'[q].name = k =>
                                     inst'[q].at.schedule_overridden
    BY <1>1, <1>2 DEF SyncInv, ChoiceIsMarked
  <1>6. NoInst.name \notin Jobs
    BY InstanceNames
  <1> QED
    BY <1>1, <1>2, <1>3, <1>4, <1>5, <1>6, SyncTypes, ProcessStepKeeps

\* A row that a sync creates is enabled and follows the code.
LEMMA CreateRowKeeps ==
  ASSUME SyncInv, NEW p \in Servers, NEW j \in Jobs, CreateRow(p, j)
  PROVE  SyncInv'
  <1> DEFINE new == NewRow(reg[p][j])
             T == todo[p] \ {j}
  <1>1. todo[p] \subseteq DOMAIN reg[p] /\ inst[p] = NoInst /\ stage[p] = "specs" /\ j \in todo[p]
    BY DEF CreateRow, SyncInv, HeldExists
  <1>2. reg[p][j] \in CodeCadences
    BY <1>1, SyncTypes, RegistryCadence
  <1>3. new \in RowType /\ new.enabled
    BY <1>2 DEF NewRow, RowType
  <1>4. T \in SUBSET Jobs /\ T \subseteq DOMAIN reg[p]
    BY <1>1, SyncTypes
  <1>5. /\ row' = [row EXCEPT ![j] = new] /\ todo' = [todo EXCEPT ![p] = T]
        /\ stage' = [stage EXCEPT ![p] = "specs"] /\ inst' = [inst EXCEPT ![p] = NoInst]
        /\ UNCHANGED <<release, reg, deploys, edits, handOff, everOff, chosen>>
    BY <1>1, SyncTypes DEF CreateRow, history
  <1>6. chosen[j] = Absent
    BY SyncAssumption DEF CreateRow, SyncInv, ChoiceIsMarked
  <1> HIDE DEF new, T
  <1> QED
    BY <1>3, <1>4, <1>5, <1>6, SyncTypes, WriteStepKeeps

\* A sync writes back what it computed from a stale row: it revives only what
\* it retired, and leaves the cadence of an override.
LEMMA RefreshKeeps ==
  ASSUME SyncInv, NEW p \in Servers, Refresh(p)
  PROVE  SyncInv'
  <1> DEFINE j == inst[p].name
             old == inst[p].at
             now == row[j]
  <1>0. /\ stage[p] = "refresh" /\ j \in Jobs /\ now \in RowType /\ old \in RowType
        /\ j \in DOMAIN reg[p] /\ todo[p] \subseteq DOMAIN reg[p] /\ todo[p] \in SUBSET Jobs
    BY SyncTypes, InstanceNames DEF Refresh, SyncInv, HeldExists
  <1>1. reg[p][j] \in CodeCadences
    BY <1>0, SyncTypes, RegistryCadence
  <1>2. PICK new \in RowType :
            /\ row' = [row EXCEPT ![j] = new]
            /\ new.cadence = IF ~old.schedule_overridden /\ old.cadence # reg[p][j]
                             THEN reg[p][j] ELSE now.cadence
            /\ new.enabled = IF old.auto_retired THEN TRUE ELSE now.enabled
            /\ new.auto_retired = IF old.auto_retired THEN FALSE ELSE now.auto_retired
            /\ new.schedule_overridden = now.schedule_overridden
    <2> DEFINE retunes == ~old.schedule_overridden /\ old.cadence # reg[p][j]
               cadence == IF retunes THEN reg[p][j] ELSE old.cadence
               enabled == old.enabled \/ old.auto_retired
               saves == retunes \/ old.auto_retired \/ (enabled /\ ~old.scheduled)
               reseeds == saves /\ enabled /\ (~old.scheduled \/ retunes \/ cadence # row[j].cadence)
               new == [now EXCEPT !.cadence = IF retunes THEN cadence ELSE @,
                                  !.enabled = IF old.auto_retired THEN TRUE ELSE @,
                                  !.auto_retired = IF old.auto_retired THEN FALSE ELSE @,
                                  !.scheduled = IF reseeds THEN TRUE ELSE @]
    <2>1. row' = [row EXCEPT ![j].cadence = IF retunes THEN cadence ELSE @,
                             ![j].enabled = IF old.auto_retired THEN TRUE ELSE @,
                             ![j].auto_retired = IF old.auto_retired THEN FALSE ELSE @,
                             ![j].scheduled = IF reseeds THEN TRUE ELSE @]
      BY DEF Refresh
    <2>2. retunes => cadence = reg[p][j]
      OBVIOUS
    <2> HIDE DEF retunes, cadence, reseeds
    <2>3. row' = [row EXCEPT ![j] = new]
      BY <1>0, <2>1, SyncTypes
    <2>4. /\ new \in RowType /\ new.schedule_overridden = now.schedule_overridden
          /\ new.cadence = IF retunes THEN reg[p][j] ELSE now.cadence
          /\ new.enabled = IF old.auto_retired THEN TRUE ELSE now.enabled
          /\ new.auto_retired = IF old.auto_retired THEN FALSE ELSE now.auto_retired
      BY <1>0, <1>1, <2>2 DEF RowType
    <2> HIDE DEF new
    <2> QED
      BY <2>3, <2>4 DEF retunes
  <1>3. /\ stage' = [stage EXCEPT ![p] = "specs"] /\ inst' = [inst EXCEPT ![p] = NoInst]
        /\ todo' = [todo EXCEPT ![p] = todo[p]]
        /\ UNCHANGED <<release, reg, deploys, edits, handOff, everOff, chosen>>
    BY SyncTypes DEF Refresh, Release, Move, history
  <1>4. ~new.enabled /\ ~new.auto_retired => j \in everOff
    BY <1>0, <1>2, SyncAssumption DEF SyncInv, MarkerExplainsOff, Existing
  <1>5. chosen[j] # Absent => /\ new.schedule_overridden /\ new.cadence = chosen[j]
                              /\ \A q \in Servers \ {p} : stage[q] = "refresh" /\ inst[q].name = j =>
                                                             inst[q].at.schedule_overridden
    BY <1>0, <1>2 DEF SyncInv, ChoiceIsMarked
  <1> HIDE DEF j, old, now
  <1> QED
    BY <1>0, <1>2, <1>3, <1>4, <1>5, SyncTypes, WriteStepKeeps

\* Retiring sets the marker together with the switch.
LEMMA RetireKeeps ==
  ASSUME SyncInv, NEW p \in Servers, NEW j \in Jobs, Retire(p, j)
  PROVE  SyncInv'
  <1> DEFINE new == [row[j] EXCEPT !.enabled = FALSE, !.auto_retired = TRUE, !.scheduled = FALSE]
             T == todo[p] \ {j}
  <1>1. /\ stage[p] = "retire" /\ inst[p] = NoInst /\ row[j] \in RowType
        /\ T \in SUBSET Jobs /\ \A k \in T : row[k] \in RowType
    BY SyncTypes DEF Retire, SyncInv, HeldExists
  <1>2. /\ new \in RowType /\ new.auto_retired /\ new.cadence = row[j].cadence
        /\ new.schedule_overridden = row[j].schedule_overridden
    BY <1>1 DEF RowType
  <1>3. /\ row' = [row EXCEPT ![j] = new] /\ todo' = [todo EXCEPT ![p] = T]
        /\ stage' = [stage EXCEPT ![p] = "retire"] /\ inst' = [inst EXCEPT ![p] = NoInst]
        /\ UNCHANGED <<release, reg, deploys, edits, handOff, everOff, chosen>>
    BY <1>1, SyncTypes DEF Retire, history
  <1>4. chosen[j] # Absent => /\ new.schedule_overridden /\ new.cadence = chosen[j]
                              /\ \A q \in Servers \ {p} : stage[q] = "refresh" /\ inst[q].name = j =>
                                                             inst[q].at.schedule_overridden
    BY <1>2 DEF SyncInv, ChoiceIsMarked
  <1> HIDE DEF new, T
  <1> QED
    BY <1>1, <1>2, <1>3, <1>4, SyncTypes, WriteStepKeeps

\* A form writes every column; an unmarked row it leaves off was off before or
\* is switched off by it, and an override it makes is marked.
LEMMA EditSaveKeeps ==
  ASSUME SyncInv, NEW p \in Servers, EditSave(p)
  PROVE  SyncInv'
  <1> DEFINE j == inst[p].name
             old == inst[p].at
  <1>0. /\ stage[p] = "edit" /\ j \in Jobs /\ row[j] \in RowType /\ old \in RowType
        /\ todo[p] \in SUBSET Jobs
    BY SyncTypes, InstanceNames DEF EditSave, SyncInv, HeldExists
  <1>1. PICK c \in CodeCadences, e \in BOOLEAN :
            /\ row' = [row EXCEPT ![j] =
                 [enabled |-> e, auto_retired |-> old.auto_retired,
                  schedule_overridden |-> old.schedule_overridden \/ c # row[j].cadence,
                  cadence |-> c, scheduled |-> old.scheduled \/ e]]
            /\ chosen' = IF Overlapped(p, j) THEN [chosen EXCEPT ![j] = Absent]
                         ELSE IF c # row[j].cadence \/ old.schedule_overridden
                         THEN [chosen EXCEPT ![j] = c] ELSE chosen
            /\ handOff' = IF ~e /\ old.enabled THEN handOff \cup {j}
                          ELSE IF e THEN handOff \ {j} ELSE handOff
            /\ everOff' = IF ~e /\ old.enabled THEN everOff \cup {j} ELSE everOff
    BY DEF EditSave
  <1> DEFINE new == [enabled |-> e, auto_retired |-> old.auto_retired,
                     schedule_overridden |-> old.schedule_overridden \/ c # row[j].cadence,
                     cadence |-> c, scheduled |-> old.scheduled \/ e]
  <1>2. /\ new \in RowType /\ new.enabled = e /\ new.auto_retired = old.auto_retired
        /\ new.schedule_overridden = (old.schedule_overridden \/ c # row[j].cadence)
        /\ new.cadence = c /\ row' = [row EXCEPT ![j] = new]
    BY <1>0, <1>1 DEF RowType
  <1> HIDE DEF new
  <1>3. /\ stage' = [stage EXCEPT ![p] = "idle"] /\ inst' = [inst EXCEPT ![p] = NoInst]
        /\ todo' = [todo EXCEPT ![p] = todo[p]] /\ UNCHANGED <<release, reg, deploys, edits>>
    BY SyncTypes DEF EditSave, Release, Move
  <1>4. handOff' \subseteq everOff' /\ everOff \subseteq everOff' /\ everOff' \subseteq Jobs
    BY <1>0, <1>1, SyncTypes
  <1>5. ~new.enabled /\ ~new.auto_retired => j \in everOff'
    <2>1. ~old.enabled /\ ~old.auto_retired => j \in everOff
      BY <1>0 DEF SyncInv, HeldExplainsOff
    <2> QED
      BY <1>1, <1>2, <2>1
  <1>6. /\ chosen' \in [Jobs -> CodeCadences \cup {Absent}]
        /\ \A k \in Jobs \ {j} : chosen'[k] = chosen[k]
    BY <1>0, <1>1, SyncTypes
  <1>7. ASSUME chosen'[j] # Absent
        PROVE  /\ new.schedule_overridden /\ new.cadence = chosen'[j]
               /\ \A q \in Servers \ {p} : stage[q] = "refresh" /\ inst[q].name = j =>
                                              inst[q].at.schedule_overridden
    <2>1. ~Overlapped(p, j)
      BY <1>0, <1>1, <1>7, SyncTypes
    <2>2. row[j] = old /\ \A q \in Servers \ {p} : inst[q].name # j
      BY <2>1 DEF Overlapped
    <2>3. CASE c # row[j].cadence \/ old.schedule_overridden
      BY <1>0, <1>1, <1>2, <2>1, <2>2, <2>3, SyncTypes
    <2>4. CASE ~(c # row[j].cadence \/ old.schedule_overridden)
      BY <1>0, <1>1, <1>7, <2>1, <2>2, <2>4 DEF SyncInv, ChoiceIsMarked
    <2> QED
      BY <2>3, <2>4
  <1> HIDE DEF j, old
  <1> QED
    BY <1>0, <1>2, <1>3, <1>4, <1>5, <1>6, <1>7, WriteStepKeeps

\* A reset gives the cadence back to the code.
LEMMA ResetSaveKeeps ==
  ASSUME SyncInv, NEW p \in Servers, ResetSave(p)
  PROVE  SyncInv'
  <1> DEFINE j == inst[p].name
             old == inst[p].at
             reseeds == old.enabled /\ (~old.scheduled \/ old.cadence # row[j].cadence)
             new == [row[j] EXCEPT !.schedule_overridden = FALSE, !.scheduled = @ \/ reseeds]
  <1>0. /\ stage[p] = "reset" /\ j \in Jobs /\ row[j] \in RowType
        /\ DOMAIN reg[p] \in SUBSET Jobs
    BY SyncTypes, RegistryCadence DEF ResetSave, SyncInv, HeldExists
  <1>1. row' = [row EXCEPT ![j].schedule_overridden = FALSE, ![j].scheduled = @ \/ reseeds]
    BY DEF ResetSave
  <1>2. /\ chosen' = [chosen EXCEPT ![j] = Absent] /\ todo' = [todo EXCEPT ![p] = DOMAIN reg[p]]
        /\ stage' = [stage EXCEPT ![p] = "specs"] /\ inst' = [inst EXCEPT ![p] = NoInst]
        /\ UNCHANGED <<release, reg, deploys, edits, handOff, everOff>>
    BY DEF ResetSave, Release, Move
  <1>3. reseeds \in BOOLEAN
    OBVIOUS
  <1> HIDE DEF reseeds, j
  <1>4. row' = [row EXCEPT ![j] = new]
    BY <1>0, <1>1, SyncTypes
  <1>5. /\ new \in RowType /\ new.enabled = row[j].enabled /\ new.auto_retired = row[j].auto_retired
    BY <1>0, <1>3 DEF RowType
  <1> HIDE DEF new
  <1>6. ~new.enabled /\ ~new.auto_retired => j \in everOff
    BY <1>0, <1>5, SyncAssumption DEF SyncInv, MarkerExplainsOff, Existing
  <1>7. /\ chosen' \in [Jobs -> CodeCadences \cup {Absent}] /\ chosen'[j] = Absent
        /\ \A k \in Jobs \ {j} : chosen'[k] = chosen[k]
    BY <1>0, <1>2, SyncTypes
  <1> QED
    BY <1>0, <1>2, <1>4, <1>5, <1>6, <1>7, SyncTypes, WriteStepKeeps

\* A tick that finds no next run switches the row off for everyone to see.
LEMMA TickDisablesKeeps ==
  ASSUME SyncInv, NEW j \in Jobs, TickDisables(j)
  PROVE  SyncInv'
  <1> DEFINE new == [row[j] EXCEPT !.enabled = FALSE]
  <1>1. /\ row[j] \in RowType /\ row' = [row EXCEPT ![j] = new] /\ edits' = edits + 1
        /\ everOff' = everOff \cup {j}
        /\ UNCHANGED <<release, stage, reg, todo, inst, deploys, handOff, chosen>>
    BY SyncTypes DEF TickDisables, held
  <1>2. /\ new \in RowType /\ new.cadence = row[j].cadence
        /\ new.schedule_overridden = row[j].schedule_overridden
    BY <1>1 DEF RowType
  <1> HIDE DEF new
  <1>3. /\ row' \in [Jobs -> RowType \cup {Absent}] /\ row'[j] = new
        /\ \A k \in Jobs \ {j} : row'[k] = row[k]
    BY <1>1, <1>2, SyncTypes
  <1>4. SyncTypeOK'
    BY <1>1, <1>3 DEF SyncInv, SyncTypeOK
  <1>5. HeldExists'
    <2>1. \A k \in Jobs : row[k] \in RowType => row'[k] \in RowType
      BY <1>2, <1>3
    <2>2. \A p \in Servers : todo[p] \subseteq Jobs
      BY SyncTypes
    <2> QED
      BY <1>1, <2>1, <2>2 DEF SyncInv, HeldExists
  <1>6. HeldExplainsOff'
    BY <1>1 DEF SyncInv, HeldExplainsOff
  <1>7. ChoiceIsMarked'
    BY <1>1, <1>2, <1>3 DEF SyncInv, ChoiceIsMarked
  <1>8. MarkerExplainsOff'
    BY <1>1, <1>3 DEF SyncInv, MarkerExplainsOff, Existing
  <1> QED
    BY <1>4, <1>5, <1>6, <1>7, <1>8 DEF SyncInv

\* The initial states satisfy the invariant.
LEMMA SyncInitially == SyncInit => SyncInv
  <1> SUFFICES ASSUME SyncInit PROVE SyncInv
    OBVIOUS
  <1>1. release \in Registries
    BY DEF SyncInit, Registries
  <1>2. SyncTypeOK
    BY <1>1 DEF SyncInit, SyncTypeOK
  <1>3. HeldExists
    BY DEF SyncInit, HeldExists
  <1>4. HeldExplainsOff
    BY SyncAssumption DEF SyncInit, HeldExplainsOff, NoInst
  <1>5. ChoiceIsMarked /\ MarkerExplainsOff
    BY DEF SyncInit, ChoiceIsMarked, MarkerExplainsOff, Existing
  <1> QED
    BY <1>2, <1>3, <1>4, <1>5 DEF SyncInv

\* Every step of a sync, an operator or a tick keeps the invariant.
LEMMA SyncPreserved == SyncInv /\ [SyncNext]_syncVars => SyncInv'
  <1> SUFFICES ASSUME SyncInv, [SyncNext]_syncVars PROVE SyncInv'
    OBVIOUS
  <1>1. CASE Deploy \/ UNCHANGED syncVars
    <2>1. /\ UNCHANGED <<row, stage, reg, todo, inst, handOff, everOff, chosen>>
          /\ release' \in Registries /\ deploys' \in Nat /\ edits' \in Nat
      BY <1>1, SyncTypes DEF Deploy, syncVars, held, history
    <2>2. SyncTypeOK'
      BY <2>1 DEF SyncInv, SyncTypeOK
    <2> QED
      BY <2>1, <2>2 DEF SyncInv, HeldExists, HeldExplainsOff, ChoiceIsMarked, MarkerExplainsOff,
                        Existing
  <1> QED
    BY <1>1, LoopStepsKeep, ReadsKeep, CreateRowKeeps, RefreshKeeps, RetireKeeps, EditSaveKeeps,
       ResetSaveKeeps, TickDisablesKeeps DEF SyncNext

\* The invariant of sync_code_jobs and the edit form (registry.py, models.py):
\* rows and the stale instances that processes hold of them explain why they
\* are off and who chose the cadence.
THEOREM SyncInvariant == SyncSpec => []SyncInv
  BY SyncInitially, SyncPreserved, PTL DEF SyncSpec

\* MarkerExplainsOff, for any registries and processes: sync_code_jobs loses no
\* auto_retired marker, whatever stale form or sync writes beside it.
THEOREM MarkerIsNeverLost == SyncSpec => []MarkerExplainsOff
  <1>1. SyncInv => MarkerExplainsOff
    BY DEF SyncInv
  <1> QED
    BY <1>1, SyncInvariant, PTL

\* OverrideSticks, for any registries and processes: the schedule_overridden
\* mark that ScheduledJob.save sets holds off every later sync.
THEOREM OverrideAlwaysSticks == SyncSpec => []OverrideSticks
  <1>1. SyncInv => OverrideSticks
    BY DEF SyncInv, ChoiceIsMarked, OverrideSticks, Existing
  <1> QED
    BY <1>1, SyncInvariant, PTL

-----------------------------------------------------------------------------
(* The cadence arithmetic, against what a cadence means.                   *)

(* Multiples of a period keep the order of their factors. *)
LEMMA MultiplesInOrder ==
    ASSUME NEW e \in Nat, NEW a \in Int, NEW b \in Int, a <= b
    PROVE  a * e \in Int /\ b * e \in Int /\ a * e <= b * e
  <1>1. PICK k \in Nat : b = a + k
    <2>1. b - a \in Nat /\ b = a + (b - a)
      OBVIOUS
    <2> QED
      BY <2>1
  <1>2. b * e = a * e + k * e
    BY <1>1
  <1>3. k * e \in Nat /\ a * e \in Int
    OBVIOUS
  <1> QED
    BY <1>2, <1>3

(* Integer division finds the last multiple that is not later. *)
LEMMA LastMultiple ==
    ASSUME NEW t \in Nat, NEW e \in Nat, e # 0
    PROVE  /\ t \div e \in Nat
           /\ \A k \in Int : k * e \in Int /\ (k * e <= t <=> k <= t \div e)
  <1> DEFINE q == t \div e
  <1>1. q \in Nat /\ q * e <= t /\ t < (q + 1) * e
    <2>1. q \in Int /\ t = e * q + (t % e) /\ t % e \in 0 .. e - 1
      OBVIOUS
    <2>2. q >= 0
      OBVIOUS
    <2> QED
      BY <2>1, <2>2
  <1> HIDE DEF q
  <1>2. ASSUME NEW k \in Int PROVE k * e \in Int /\ (k * e <= t <=> k <= q)
    <2>1. k * e \in Int /\ q * e \in Int /\ (q + 1) * e \in Int
      BY <1>1
    <2>2. k <= q => k * e <= q * e
      BY <1>1, MultiplesInOrder
    <2>3. ~(k <= q) => (q + 1) * e <= k * e
      <3>1. ~(k <= q) => q + 1 <= k /\ q + 1 \in Int
        BY <1>1
      <3> QED
        BY <3>1, MultiplesInOrder
    <2> QED
      BY <1>1, <2>1, <2>2, <2>3
  <1> QED
    BY <1>1, <1>2 DEF q

(* The instants at which a cadence fires: its anchor (`from', if it has    *)
(* none) and every whole number of periods past it.                        *)
Fires(c, from) ==
    IF c.type = "once" THEN {c.run_at}
    ELSE IF c.type = "cron" THEN {k * c.every : k \in Nat}
    ELSE {(IF c.anchor_at = None THEN from ELSE c.anchor_at) + k * c.every : k \in Nat}

(* next_run returns the first fire later than `after', for every cadence   *)
(* with a fixed period, anchor and instant: the jump over whole periods in *)
(* _step_interval neither skips a fire nor returns `after' itself, and     *)
(* None says that there is none.                                           *)
THEOREM NextRunIsFirst ==
    ASSUME NEW c \in CadenceType, ~Malformed(c), NEW t \in Nat
    PROVE  IF next_run(c, t) = None
           THEN \A f \in Fires(c, t) : f <= t
           ELSE /\ next_run(c, t) \in Fires(c, t) /\ next_run(c, t) > t
                /\ \A f \in Fires(c, t) : f > t => next_run(c, t) <= f
  <1> USE PreviewAssumption
  <1>1. CASE c.type = "once"
    <2>1. c.run_at \in Nat /\ Fires(c, t) = {c.run_at} /\ c.run_at # None
      BY <1>1 DEF CadenceType, Instants, Malformed, Fires
    <2>2. next_run(c, t) = IF c.run_at > t THEN c.run_at ELSE None
      BY <1>1 DEF next_run
    <2> QED
      BY <2>1, <2>2
  <1>2. CASE c.type = "interval"
    <2>1. PICK a \in Nat, e \in Nat : /\ a = (IF c.anchor_at = None THEN t ELSE c.anchor_at)
                                      /\ e = c.every /\ e # 0
      BY <1>2 DEF CadenceType, Instants, Malformed
    <2>2. Fires(c, t) = {a + k * e : k \in Nat}
      BY <1>2, <2>1 DEF Fires
    <2>3. next_run(c, t) = step_interval(a, e, t)
      BY <1>2, <2>1 DEF next_run
    <2>4. \A k \in Nat : k * e \in Nat
      OBVIOUS
    <2>5. CASE t < a
      <3>1. next_run(c, t) = a
        BY <2>3, <2>5 DEF step_interval
      <3>2. a = a + 0 * e
        OBVIOUS
      <3>3. \A k \in Nat : a <= a + k * e
        BY <2>4
      <3>4. next_run(c, t) # None /\ next_run(c, t) > t
        BY <2>5, <3>1
      <3> QED
        BY <2>2, <3>1, <3>2, <3>3, <3>4
    <2>6. CASE ~(t < a)
      <3>1. PICK g \in Nat, q \in Nat : g = t - a /\ q = g \div e
        <4>1. t - a \in Nat
          BY <2>6
        <4>2. (t - a) \div e \in Nat
          BY <2>1, <4>1, LastMultiple
        <4> QED
          BY <4>1, <4>2
      <3>2. next_run(c, t) = a + (q + 1) * e
        BY <2>3, <2>6, <3>1 DEF step_interval
      <3>3. \A k \in Nat : k * e <= g <=> k <= q
        BY <2>1, <3>1, LastMultiple
      <3>4. ASSUME NEW k \in Nat, a + k * e > t PROVE a + (q + 1) * e <= a + k * e
        <4>1. ~(k * e <= g)
          BY <2>4, <3>1, <3>4
        <4>2. q + 1 <= k
          BY <3>3, <4>1
        <4>3. (q + 1) * e <= k * e /\ (q + 1) * e \in Int /\ k * e \in Int
          BY <4>2, MultiplesInOrder
        <4> QED
          BY <4>3
      <3>5. a + (q + 1) * e \in Nat /\ a + (q + 1) * e # None
        BY <2>4
      <3>6. a + (q + 1) * e > t
        <4>1. q + 1 \in Nat /\ (q + 1) * e \in Nat /\ ~((q + 1) * e <= g)
          BY <2>4, <3>3
        <4> QED
          BY <3>1, <4>1
      <3>7. q + 1 \in Nat /\ next_run(c, t) \in Fires(c, t)
        BY <2>2, <3>2
      <3>8. \A f \in Fires(c, t) : f > t => next_run(c, t) <= f
        BY <2>2, <3>2, <3>4
      <3> QED
        BY <3>2, <3>5, <3>6, <3>7, <3>8
    <2> QED
      BY <2>5, <2>6
  <1>3. CASE c.type = "cron"
    <2>1. PICK e \in Nat, q \in Nat : e = c.every /\ e # 0 /\ q = t \div e
      <3>1. c.every \in Nat /\ c.every # 0
        BY <1>3 DEF CadenceType, Malformed
      <3> QED
        BY <3>1, LastMultiple
    <2>2. Fires(c, t) = {k * e : k \in Nat} /\ next_run(c, t) = (q + 1) * e
      BY <1>3, <2>1 DEF Fires, next_run, cron_next
    <2>3. ASSUME NEW k \in Nat, k * e > t PROVE (q + 1) * e <= k * e
      <3>1. k * e \in Int /\ (k * e <= t <=> k <= q)
        BY <2>1, LastMultiple
      <3>2. q + 1 <= k
        BY <2>3, <3>1
      <3> QED
        BY <3>2, MultiplesInOrder
    <2>4. (q + 1) * e \in Nat /\ (q + 1) * e # None
      OBVIOUS
    <2>5. next_run(c, t) # None
      <3>1. None \notin Nat
        OBVIOUS
      <3> QED
        BY <2>2, <2>4, <3>1
    <2>6. q + 1 \in Nat /\ next_run(c, t) \in Fires(c, t)
      BY <2>2
    <2>7. \A f \in Fires(c, t) : f > t => next_run(c, t) <= f
      BY <2>2, <2>3
    <2>8. next_run(c, t) > t
      <3>1. q + 1 \in Int /\ ((q + 1) * e <= t <=> q + 1 <= q)
        BY <2>1, LastMultiple
      <3> QED
        BY <2>2, <2>4, <3>1
    <2> QED
      BY <2>5, <2>6, <2>7, <2>8
  <1> QED
    BY <1>1, <1>2, <1>3 DEF CadenceType

(* The k-th instant of the grid that a claimed slot is on. *)
Grid(c, slot, k) == IF c.type = "interval" THEN slot + k * c.every ELSE k * c.every

(* missed_periods, which the skip policy trusts, counts exactly the        *)
(* instants of the slot's own grid that are later than the slot and not    *)
(* later than now: neither boundary is off by one.  (The code stops        *)
(* counting cron fires at 10 000.)                                         *)
THEOREM MissedPeriodsCount ==
    ASSUME NEW c \in CadenceType, ~Malformed(c), c.type # "once", NEW slot \in Nat, NEW t \in Nat
    PROVE  missed_periods(c, slot, t)
             = Cardinality({k \in Nat : slot < Grid(c, slot, k) /\ Grid(c, slot, k) <= t})
  <1> DEFINE K == {k \in Nat : slot < Grid(c, slot, k) /\ Grid(c, slot, k) <= t}
  <1>1. PICK e \in Nat : e = c.every /\ e # 0
    BY DEF CadenceType, Malformed
  <1>2. \A k \in Nat : k * e \in Nat /\ (k # 0 => k * e > 0)
    BY <1>1
  <1>3. Cardinality({}) = 0
    BY FS_EmptySet
  <1>4. CASE t <= slot
    <2>1. \A k \in Nat : Grid(c, slot, k) \in Nat
      BY <1>1, <1>2 DEF Grid
    <2>2. K = {}
      BY <1>4, <2>1
    <2> QED
      BY <1>3, <1>4, <2>2 DEF missed_periods
  <1>5. CASE ~(t <= slot) /\ c.type = "interval"
    <2>1. PICK g \in Nat, q \in Nat : g = t - slot /\ q = g \div e
      <3>1. t - slot \in Nat
        BY <1>5
      <3>2. (t - slot) \div e \in Nat
        BY <1>1, <3>1, LastMultiple
      <3> QED
        BY <3>1, <3>2
    <2>2. \A k \in Nat : k * e <= g <=> k <= q
      BY <1>1, <2>1, LastMultiple
    <2>3. ASSUME NEW k \in Nat PROVE k \in K <=> k \in 1 .. q
      <3>1. k \in K <=> slot < slot + k * e /\ slot + k * e <= t
        BY <1>1, <1>5 DEF Grid
      <3>2. slot < slot + k * e <=> k # 0
        BY <1>2
      <3>3. slot + k * e <= t <=> k * e <= g
        BY <1>2, <2>1
      <3> QED
        BY <2>2, <3>1, <3>2, <3>3
    <2>4. K = 1 .. q
      BY <2>3
    <2>5. Cardinality(1 .. q) = q
      BY FS_Interval
    <2>6. missed_periods(c, slot, t) = q
      BY <1>1, <1>5, <2>1 DEF missed_periods
    <2> QED
      BY <2>4, <2>5, <2>6
  <1>6. CASE ~(t <= slot) /\ c.type = "cron"
    <2>1. PICK q \in Nat, r \in Nat : q = slot \div e /\ r = t \div e
      BY <1>1, LastMultiple
    <2>2. \A k \in Nat : (k * e <= slot <=> k <= q) /\ (k * e <= t <=> k <= r)
      BY <1>1, <2>1, LastMultiple
    <2>3. ASSUME NEW k \in Nat PROVE k \in K <=> k \in q + 1 .. r
      <3>1. k \in K <=> slot < k * e /\ k * e <= t
        BY <1>1, <1>6 DEF Grid
      <3>2. slot < k * e <=> ~(k <= q)
        BY <1>2, <2>2
      <3> QED
        BY <2>2, <3>1, <3>2
    <2>4. K = q + 1 .. r
      BY <2>3
    <2>5. q <= r
      <3>1. q * e <= slot /\ q * e \in Nat
        BY <1>2, <2>2
      <3>2. q * e <= t
        BY <1>6, <3>1
      <3> QED
        BY <2>2, <3>2
    <2>6. Cardinality(q + 1 .. r) = r - q
      <3>1. Cardinality(q + 1 .. r) = IF q + 1 > r THEN 0 ELSE r - (q + 1) + 1
        BY FS_Interval
      <3> QED
        BY <2>5, <3>1
    <2>7. missed_periods(c, slot, t) = r - q
      BY <1>1, <1>6, <2>1 DEF missed_periods
    <2> QED
      BY <2>4, <2>6, <2>7
  <1> QED
    BY <1>4, <1>5, <1>6 DEF CadenceType

-----------------------------------------------------------------------------
(* The preview of cadences with a fixed period.                            *)

\* The number of the first fire after the start, counted from GridOrigin.
GridOrigin == IF cad.type = "cron" THEN 0 ELSE IF cad.anchor_at = None THEN start ELSE cad.anchor_at
FirstFire == IF start < GridOrigin THEN 0 ELSE (start - GridOrigin) \div cad.every + 1
NthFire(i) == GridOrigin + (FirstFire + i - 1) * cad.every

\* The walk has listed the next fires, one after the other.
OnGrid ==
    cad.type # "calendar" =>
        /\ cad \in CadenceType /\ ~Malformed(cad) /\ start \in Nat
        /\ out \in Seq(Nat) /\ Len(out) <= PreviewRuns
        /\ after = IF Len(out) = 0 THEN start ELSE out[Len(out)]
        /\ cad.type = "once" =>
              Len(out) = 0 \/ (Len(out) = 1 /\ out[1] = cad.run_at /\ cad.run_at > start)
        /\ cad.type # "once" => \A i \in 1..Len(out) : out[i] = NthFire(i)

\* What FirstFire is: no earlier number is a fire after the start.
LEMMA FirstFireFacts ==
    ASSUME cad \in CadenceType, ~Malformed(cad), cad.type # "once", start \in Nat
    PROVE  /\ GridOrigin \in Nat /\ FirstFire \in Nat /\ cad.every \in Nat /\ cad.every # 0
           /\ FirstFire <= start + 1
           /\ cad.type = "interval" /\ cad.anchor_at = None => FirstFire >= 1
           /\ GridOrigin + FirstFire * cad.every > start
           /\ \A k \in Nat : k < FirstFire => GridOrigin + k * cad.every <= start
  <1> USE PreviewAssumption
  <1>1. PICK e \in Nat, o \in Nat : e = cad.every /\ e # 0 /\ o = GridOrigin
    BY DEF CadenceType, Malformed, Instants, GridOrigin
  <1>2. \A k \in Nat : k * e \in Nat
    OBVIOUS
  <1>3. CASE start < o
    <2>1. FirstFire = 0
      BY <1>1, <1>3 DEF FirstFire
    <2>2. ~(cad.type = "interval" /\ cad.anchor_at = None)
      BY <1>1, <1>3 DEF GridOrigin
    <2>3. o + 0 * e > start
      BY <1>3
    <2> QED
      BY <1>1, <2>1, <2>2, <2>3
  <1>4. CASE ~(start < o)
    <2>1. PICK g \in Nat, q \in Nat : g = start - o /\ q = g \div e
      <3>1. start - o \in Nat
        BY <1>4
      <3> QED
        BY <1>1, <3>1, LastMultiple
    <2>2. FirstFire = q + 1
      BY <1>1, <1>4, <2>1 DEF FirstFire
    <2>3. \A k \in Int : k * e \in Int /\ (k * e <= g <=> k <= q)
      BY <1>1, <2>1, LastMultiple
    <2>4. q <= g
      <3>1. q * e <= g /\ q * 1 <= q * e
        <4>1. q * e = q * 1 + q * (e - 1) /\ q * (e - 1) \in Nat
          BY <1>1
        <4> QED
          BY <2>3, <4>1
      <3> QED
        BY <3>1
    <2>5. (q + 1) * e \in Int /\ ~((q + 1) * e <= g)
      <3>1. q + 1 \in Int /\ ~(q + 1 <= q)
        OBVIOUS
      <3> QED
        BY <2>3, <3>1
    <2>6. o + (q + 1) * e > start
      BY <2>1, <2>5
    <2>7. ASSUME NEW k \in Nat, k < q + 1 PROVE o + k * e <= start
      <3>1. k <= q
        BY <2>7
      <3>2. k * e \in Int /\ k * e <= g
        BY <2>3, <3>1
      <3> QED
        BY <2>1, <3>2
    <2>8. q + 1 <= start + 1
      BY <2>1, <2>4
    <2> QED
      BY <1>1, <2>2, <2>6, <2>7, <2>8
  <1> QED
    BY <1>3, <1>4

\* From fire to fire, and from the start to the first.
LEMMA FollowingFire ==
    ASSUME OnGrid, cad.type # "calendar", cad.type # "once"
    PROVE  Following(cad, after) = NthFire(Len(out) + 1) /\ NthFire(Len(out) + 1) \in Nat
  <1> USE PreviewAssumption
  <1>0. cad \in CadenceType /\ ~Malformed(cad) /\ start \in Nat /\ out \in Seq(Nat)
    BY DEF OnGrid
  <1>1. PICK e \in Nat, o \in Nat, f \in Nat :
            e = cad.every /\ e # 0 /\ o = GridOrigin /\ f = FirstFire
    BY <1>0, FirstFireFacts
  <1>2. PICK n \in Nat : n = Len(out)
    BY <1>0
  <1>3. NthFire(n + 1) = o + (f + n) * e
    BY <1>1 DEF NthFire
  <1>4. (f + n) * e \in Nat
    OBVIOUS
  <1>5. Following(cad, after) = next_run(cad, after)
    BY DEF Following
  <1>6. cad.type \in {"interval", "cron"}
    BY <1>0 DEF CadenceType
  <1>7. CASE n = 0
    <2>1. after = start
      BY <1>0, <1>2, <1>7 DEF OnGrid
    <2>2. CASE cad.type = "interval"
      <3>1. next_run(cad, after) = step_interval(o, e, start)
        BY <1>1, <2>1, <2>2 DEF next_run, GridOrigin
      <3>2. CASE start < o
        <4>1. f = 0 /\ step_interval(o, e, start) = o
          BY <1>1, <3>2 DEF FirstFire, step_interval
        <4>2. 0 * e = 0
          OBVIOUS
        <4> QED
          BY <1>2, <1>3, <1>5, <1>7, <3>1, <4>1, <4>2
      <3>3. CASE ~(start < o)
        <4>1. f = (start - o) \div e + 1
              /\ step_interval(o, e, start) = o + ((start - o) \div e + 1) * e
          BY <1>1, <3>3 DEF FirstFire, step_interval
        <4>2. step_interval(o, e, start) = o + f * e
          BY <4>1
        <4> QED
          BY <1>2, <1>3, <1>4, <1>5, <1>7, <3>1, <4>2
      <3> QED
        BY <3>2, <3>3
    <2>3. CASE cad.type = "cron"
      <3>1. next_run(cad, after) = (start \div e + 1) * e
        BY <1>1, <2>1, <2>3 DEF next_run, cron_next
      <3>2. o = 0 /\ f = start \div e + 1
        <4>1. o = 0 /\ ~(start < 0) /\ start - 0 = start
          BY <1>0, <1>1, <2>3 DEF GridOrigin
        <4> QED
          BY <1>1, <4>1 DEF FirstFire
      <3> QED
        BY <1>2, <1>3, <1>4, <1>5, <1>7, <3>1, <3>2
    <2> QED
      BY <1>6, <2>2, <2>3
  <1>8. CASE n # 0
    <2>1. PICK m \in Nat : m = f + n - 1 /\ m + 1 = f + n
      <3>1. f + n - 1 \in Nat /\ (f + n - 1) + 1 = f + n
        BY <1>8
      <3> QED
        BY <3>1
    <2>2. after = o + m * e
      <3>1. after = out[n] /\ n \in 1..Len(out)
        BY <1>0, <1>2, <1>8 DEF OnGrid
      <3>2. after = NthFire(n)
        BY <1>0, <3>1 DEF OnGrid
      <3> QED
        BY <1>1, <2>1, <3>2 DEF NthFire
    <2>3. m * e \in Nat /\ (m * e) \div e = m /\ (m + 1) * e = m * e + e
      <3>1. m * e \in Nat /\ (m + 1) * e = m * e + e
        OBVIOUS
      <3>2. PICK d \in Nat : d = (m * e) \div e
        BY <1>1, <3>1, LastMultiple
      <3>3. \A k \in Int : k * e \in Int /\ (k * e <= m * e <=> k <= d)
        BY <1>1, <3>1, <3>2, LastMultiple
      <3>4. m <= d
        BY <3>1, <3>3
      <3>5. ~(m + 1 <= d)
        <4>1. m + 1 \in Int /\ ~((m + 1) * e <= m * e)
          BY <1>1, <3>1
        <4> QED
          BY <3>3, <4>1
      <3> QED
        BY <3>1, <3>2, <3>4, <3>5
    <2>4. CASE cad.type = "interval" /\ cad.anchor_at # None
      <3>1. next_run(cad, after) = step_interval(o, e, after)
        BY <1>1, <2>4 DEF next_run, GridOrigin
      <3>2. ~(after < o) /\ after - o = m * e
        BY <2>2, <2>3
      <3>3. next_run(cad, after) = o + (m + 1) * e
        BY <2>3, <3>1, <3>2 DEF step_interval
      <3> QED
        BY <1>2, <1>3, <1>4, <1>5, <2>1, <3>3, SMTT(30)
    <2>5. CASE cad.type = "interval" /\ cad.anchor_at = None
      <3>1. next_run(cad, after) = step_interval(after, e, after)
        BY <1>1, <2>5 DEF next_run
      <3>2. after \in Nat /\ ~(after < after) /\ after - after = 0
        BY <2>2, <2>3
      <3>3. 0 \div e = 0 /\ (0 + 1) * e = e
        BY <1>1
      <3>4. next_run(cad, after) = after + e
        BY <3>1, <3>2, <3>3 DEF step_interval
      <3> QED
        BY <1>2, <1>3, <1>4, <1>5, <2>1, <2>2, <2>3, <3>4, SMTT(30)
    <2>6. CASE cad.type = "cron"
      <3>1. o = 0 /\ after = m * e
        BY <1>1, <2>2, <2>3, <2>6 DEF GridOrigin
      <3>2. next_run(cad, after) = (m + 1) * e
        BY <1>1, <2>3, <2>6, <3>1 DEF next_run, cron_next
      <3> QED
        BY <1>2, <1>3, <1>4, <1>5, <2>1, <3>1, <3>2
    <2> QED
      BY <1>6, <2>4, <2>5, <2>6
  <1> QED
    BY <1>7, <1>8

\* Every turn of the loop keeps to the grid.
LEMMA WalkKeeps == OnGrid /\ [PreviewNext]_previewVars => OnGrid'
  <1> USE PreviewAssumption
  <1>1. CASE UNCHANGED previewVars
    BY <1>1 DEF OnGrid, previewVars, NthFire, FirstFire, GridOrigin
  <1>2. CASE cad.type = "calendar"
    <2>1. ASSUME Walk PROVE cad' = cad
      BY <2>1 DEF Walk
    <2> QED
      BY <1>1, <1>2, <2>1 DEF OnGrid, PreviewNext
  <1>3. ASSUME OnGrid, Walk, cad.type # "calendar" PROVE OnGrid'
    <2>0. /\ cad \in CadenceType /\ ~Malformed(cad) /\ start \in Nat /\ out \in Seq(Nat)
          /\ cad' = cad /\ start' = start /\ cad'.type = cad.type
      BY <1>3 DEF OnGrid, Walk
    <2>1. PICK n \in Nat : n = Len(out) /\ n < PreviewRuns
      BY <1>3, <2>0 DEF Walk
    <2>2. ASSUME Following(cad, after) \in Nat
          PROVE  /\ out' \in Seq(Nat) /\ Len(out') = n + 1 /\ out'[n + 1] = Following(cad, after)
                 /\ \A i \in 1..n : out'[i] = out[i]
                 /\ Len(out') <= PreviewRuns
                 /\ after' = IF Len(out') = 0 THEN start ELSE out'[Len(out')]
      <3>1. out' = Append(out, Following(cad, after)) /\ after' = Following(cad, after)
        BY <1>3 DEF Walk
      <3>2. /\ out' \in Seq(Nat) /\ Len(out') = n + 1 /\ out'[n + 1] = Following(cad, after)
            /\ \A i \in 1..n : out'[i] = out[i]
        BY <2>0, <2>1, <2>2, <3>1
      <3> QED
        BY <2>1, <3>1, <3>2
    <2>3. CASE cad.type = "once"
      <3>1. Following(cad, after) = IF cad.run_at > after THEN cad.run_at ELSE None
        BY <2>3 DEF Following, next_run
      <3>2. cad.run_at > after /\ Following(cad, after) = cad.run_at /\ cad.run_at \in Nat
        BY <1>3, <2>0, <2>3, <3>1 DEF Walk, CadenceType, Instants, Malformed
      <3>3. n = 0 /\ after = start
        <4>1. n = 0 \/ (n = 1 /\ out[1] = cad.run_at)
          BY <1>3, <2>1, <2>3 DEF OnGrid
        <4>2. after = IF n = 0 THEN start ELSE out[n]
          BY <1>3, <2>1 DEF OnGrid
        <4>3. n = 1 => after = cad.run_at
          BY <4>1, <4>2
        <4> QED
          BY <3>2, <4>1, <4>2, <4>3
      <3> QED
        BY <2>0, <2>2, <2>3, <3>2, <3>3 DEF OnGrid
    <2>4. CASE cad.type # "once"
      <3>1. Following(cad, after) = NthFire(n + 1) /\ NthFire(n + 1) \in Nat
        BY <1>3, <2>1, <2>4, FollowingFire
      <3>2. \A i : NthFire(i)' = NthFire(i)
        BY <2>0 DEF NthFire, FirstFire, GridOrigin
      <3>3. \A i \in 1..n : out[i] = NthFire(i)
        BY <1>3, <2>1, <2>4 DEF OnGrid
      <3>4. \A i \in 1..(n + 1) : out'[i] = NthFire(i)
        <4>1. out'[n + 1] = NthFire(n + 1) /\ \A i \in 1..n : out'[i] = NthFire(i)
          BY <2>2, <3>1, <3>3
        <4>2. \A i \in 1..(n + 1) : i = n + 1 \/ i \in 1..n
          OBVIOUS
        <4> QED
          BY <4>1, <4>2
      <3>5. \A i \in 1..Len(out') : out'[i] = NthFire(i)'
        BY <2>2, <3>1, <3>2, <3>4
      <3> QED
        BY <2>0, <2>2, <2>4, <3>1, <3>5 DEF OnGrid
    <2> QED
      BY <2>3, <2>4
  <1> QED
    BY <1>1, <1>2, <1>3 DEF PreviewNext

\* The walk of preview_runs lists the fires of a cadence with a fixed period
\* one after the other, for any cadence, start and number of turns.
THEOREM PreviewInvariant == PreviewSpec => []OnGrid
  <1>1. PreviewInit => OnGrid
    <2> SUFFICES ASSUME PreviewInit, cad.type # "calendar" PROVE OnGrid
      BY DEF OnGrid
    <2>1. cad \in CadenceType /\ ~Malformed(cad)
      BY PreviewAssumption DEF PreviewInit, CalendarType
    <2>2. start \in Nat /\ after = start /\ out = <<>>
      BY PreviewAssumption DEF PreviewInit
    <2>3. out \in Seq(Nat) /\ Len(out) = 0
      BY <2>2
    <2> QED
      BY <2>1, <2>2, <2>3, PreviewAssumption DEF OnGrid
  <1> QED
    BY <1>1, WalkKeeps, PTL DEF PreviewSpec

\* What the fires of the grid are to each other.
LEMMA FiresInOrder ==
    ASSUME cad \in CadenceType, ~Malformed(cad), cad.type # "once", start \in Nat,
           NEW i \in Nat, i # 0
    PROVE  /\ NthFire(i) \in Nat /\ NthFire(i) > start
           /\ NthFire(i + 1) = NthFire(i) + cad.every
           /\ \A k \in Nat : /\ GridOrigin + k * cad.every > start => k >= FirstFire
                             /\ GridOrigin + k * cad.every < NthFire(i) => k < FirstFire + i - 1
                             /\ NthFire(i) < GridOrigin + k * cad.every => k > FirstFire + i - 1
  <1>1. PICK e \in Nat, o \in Nat, f \in Nat :
            e = cad.every /\ e # 0 /\ o = GridOrigin /\ f = FirstFire
    BY FirstFireFacts
  <1>2. PICK m \in Nat : m = f + i - 1 /\ m >= f
    <2>1. f + i - 1 \in Nat /\ f + i - 1 >= f
      OBVIOUS
    <2> QED
      BY <2>1
  <1>3. NthFire(i) = o + m * e /\ m * e \in Nat /\ f * e \in Nat
    BY <1>1, <1>2 DEF NthFire
  <1>4. NthFire(i + 1) = o + (m + 1) * e
    <2>1. f + (i + 1) - 1 = m + 1
      BY <1>2
    <2> QED
      BY <1>1, <2>1 DEF NthFire
  <1>5. (m + 1) * e = m * e + e
    OBVIOUS
  <1>6. f * e <= m * e
    BY <1>2, MultiplesInOrder
  <1>7. o + f * e > start /\ \A k \in Nat : k < f => o + k * e <= start
    BY <1>1, FirstFireFacts
  <1>8. ASSUME NEW k \in Nat
        PROVE  /\ o + k * e > start => k >= f
               /\ o + k * e < o + m * e => k < m
               /\ o + m * e < o + k * e => k > m
    <2>1. k * e \in Nat
      OBVIOUS
    <2>2. m <= k => m * e <= k * e
      BY MultiplesInOrder
    <2>3. k <= m => k * e <= m * e
      BY MultiplesInOrder
    <2>4. k < f => ~(o + k * e > start)
      BY <1>7, <2>1
    <2> QED
      BY <1>3, <2>1, <2>2, <2>3, <2>4
  <1>9. NthFire(i) \in Nat /\ NthFire(i) > start
    BY <1>3, <1>6, <1>7
  <1> QED
    BY <1>1, <1>2, <1>3, <1>4, <1>5, <1>8, <1>9

-----------------------------------------------------------------------------
(* Calendar intervals: the loop adds a period to the last sum, so what it  *)
(* reaches is a matter of induction on its turns, here by the least        *)
(* counterexample.                                                         *)

\* Every nonempty set of naturals has a least member.
LEMMA LeastNumber ==
    ASSUME NEW S, S \subseteq Nat, S # {}
    PROVE  \E x \in S : \A y \in S : x <= y
  <1>1. IsWellFoundedOn(OpToRel(<, Nat), Nat)
    BY NatLessThanWellFounded
  <1>2. PICK x \in S : \A y \in S : ~(<<y, x>> \in OpToRel(<, Nat))
    BY <1>1, WFMin
  <1>3. \A y \in S : ~(y < x)
    BY <1>2 DEF OpToRel
  <1> QED
    BY <1>3

\* A set of numbers that holds 0 and, with each number below n, the next one,
\* holds all numbers up to n.
LEMMA Climb ==
    ASSUME NEW n \in Nat, NEW A, 0 \in A, \A i \in 0..n : i < n /\ i \in A => i + 1 \in A
    PROVE  \A i \in 0..n : i \in A
  <1> DEFINE B == {i \in 0..n : i \notin A}
  <1>1. SUFFICES ASSUME B # {} PROVE FALSE
    OBVIOUS
  <1>2. PICK x \in B : \A y \in B : x <= y
    <2>1. B \subseteq Nat
      OBVIOUS
    <2> HIDE DEF B
    <2> QED
      BY <1>1, <2>1, LeastNumber
  <1>3. x \in 0..n /\ x # 0 /\ x \notin A
    BY <1>2
  <1>4. x - 1 \in 0..n /\ x - 1 < n /\ ~(x <= x - 1)
    BY <1>3
  <1>5. x - 1 \in A
    BY <1>2, <1>4
  <1>6. (x - 1) + 1 \in A /\ (x - 1) + 1 = x
    BY <1>3, <1>4, <1>5
  <1> QED
    BY <1>3, <1>6

\* A function that follows the loop for the first n turns.
Turns(f, from, months, n) ==
    f = [i \in 0..n |-> IF i = 0 THEN from ELSE AddMonths(f[i - 1], months)]

\* There is one: each turn extends it by one more.
LEMMA TurnsExist ==
    ASSUME NEW from, NEW months PROVE \E f : Turns(f, from, months, MaxSteps)
  <1> DEFINE A == {n \in 0..MaxSteps : \E f : Turns(f, from, months, n)}
  <1>0. MaxSteps \in Nat
    BY PreviewAssumption
  <1>1. 0 \in A
    <2> DEFINE f == [i \in 0..0 |-> from]
    <2>1. f = [i \in 0..0 |-> IF i = 0 THEN from ELSE AddMonths(f[i - 1], months)]
      <3>1. \A i \in 0..0 : i = 0
        OBVIOUS
      <3> QED
        BY <3>1
    <2>2. Turns(f, from, months, 0)
      BY <2>1 DEF Turns
    <2> QED
      BY <1>0, <2>2
  <1>2. ASSUME NEW n \in 0..MaxSteps, n < MaxSteps, n \in A PROVE n + 1 \in A
    <2>1. PICK f : Turns(f, from, months, n)
      BY <1>2
    <2> DEFINE g == [i \in 0..(n + 1) |-> IF i = n + 1 THEN AddMonths(f[n], months) ELSE f[i]]
    <2>2. \A i \in 0..n : g[i] = f[i] /\ i \in 0..(n + 1)
      BY <1>0
    <2>3. ASSUME NEW i \in 0..(n + 1)
          PROVE  g[i] = IF i = 0 THEN from ELSE AddMonths(g[i - 1], months)
      <3>1. CASE i = n + 1
        <4>1. i # 0 /\ i - 1 = n /\ n \in 0..n
          BY <1>0, <3>1
        <4>2. g[i] = AddMonths(f[n], months)
          BY <3>1
        <4>3. g[i - 1] = f[n]
          BY <2>2, <4>1
        <4> QED
          BY <4>1, <4>2, <4>3
      <3>2. CASE i # n + 1
        <4>1. i \in 0..n /\ (i # 0 => i - 1 \in 0..n)
          BY <1>0, <3>2
        <4>2. f[i] = IF i = 0 THEN from ELSE AddMonths(f[i - 1], months)
          BY <2>1, <4>1 DEF Turns
        <4> QED
          BY <2>2, <4>1, <4>2
      <3> QED
        BY <3>1, <3>2
    <2>4. g = [i \in 0..(n + 1) |-> g[i]]
      OBVIOUS
    <2>5. Turns(g, from, months, n + 1)
      <3> HIDE DEF g
      <3> QED
        BY <2>3, <2>4 DEF Turns
    <2>6. n + 1 \in 0..MaxSteps
      BY <1>0, <1>2
    <2> QED
      BY <2>5, <2>6
  <1>3. \A n \in 0..MaxSteps : n \in A
    <2> HIDE DEF A
    <2> QED
      BY <1>0, <1>1, <1>2, Climb
  <1>4. MaxSteps \in A
    BY <1>0, <1>3
  <1> QED
    BY <1>4

\* So the cursors are the loop's: each is a period later than the one before.
LEMMA CursorTurns ==
    ASSUME NEW from, NEW months
    PROVE  /\ Cursor(from, months, 0) = from
           /\ \A n \in 0..MaxSteps : n < MaxSteps =>
                 Cursor(from, months, n + 1) = AddMonths(Cursor(from, months, n), months)
  <1>0. MaxSteps \in Nat
    BY PreviewAssumption
  <1>1. Turns(Cursors(from, months), from, months, MaxSteps)
    <2>1. Cursors(from, months) = CHOOSE f : Turns(f, from, months, MaxSteps)
      BY DEF Cursors, Turns
    <2> QED
      BY <2>1, TurnsExist
  <1> DEFINE f == Cursors(from, months)
  <1> HIDE DEF f
  <1>2. f = [i \in 0..MaxSteps |-> IF i = 0 THEN from ELSE AddMonths(f[i - 1], months)]
    BY <1>1 DEF Turns, f
  <1>3. \A i \in 0..MaxSteps : f[i] = IF i = 0 THEN from ELSE AddMonths(f[i - 1], months)
    BY <1>2
  <1>4. 0 \in 0..MaxSteps
    BY <1>0
  <1>5. ASSUME NEW n \in 0..MaxSteps, n < MaxSteps PROVE f[n + 1] = AddMonths(f[n], months)
    <2>1. n + 1 \in 0..MaxSteps /\ n + 1 # 0 /\ (n + 1) - 1 = n
      BY <1>0, <1>5
    <2> QED
      BY <1>3, <2>1
  <1> QED
    BY <1>3, <1>4, <1>5 DEF f, Cursor

\* relativedelta moves the month and clips the day; a day that every month has
\* stays.
LEMMA AddMonthsFacts ==
    ASSUME NEW t \in Nat, NEW k \in Nat
    PROVE  /\ AddMonths(t, k) \in Nat
           /\ Month(AddMonths(t, k)) = Month(t) + k
           /\ Month(t) \in Nat /\ Day(t) \in 0..99 /\ t = 100 * Month(t) + Day(t)
           /\ Day(t) <= 28 => Day(AddMonths(t, k)) = Day(t)
  <1>1. Month(t) \in Nat /\ Day(t) \in 0..99 /\ t = 100 * Month(t) + Day(t)
    BY DEF Month, Day
  <1>2. PICK m \in Nat : m = Month(t) + k
    BY <1>1
  <1>3. DaysIn(m) \in 28..31
    <2>1. (m % 12) + 1 \in 1..12
      OBVIOUS
    <2> QED
      BY <2>1, PreviewAssumption DEF DaysIn
  <1>4. PICK d \in 0..99 : /\ d = (IF Day(t) > DaysIn(m) THEN DaysIn(m) ELSE Day(t))
                           /\ (Day(t) <= 28 => d = Day(t))
    <2>1. CASE Day(t) > DaysIn(m)
      BY <1>1, <1>3, <2>1
    <2>2. CASE ~(Day(t) > DaysIn(m))
      BY <1>1, <2>2
    <2> QED
      BY <2>1, <2>2
  <1>5. AddMonths(t, k) = 100 * m + d
    BY <1>2, <1>4 DEF AddMonths
  <1>6. (100 * m + d) \div 100 = m /\ (100 * m + d) % 100 = d
    OBVIOUS
  <1>7. Month(AddMonths(t, k)) = m /\ Day(AddMonths(t, k)) = d
    BY <1>5, <1>6 DEF Month, Day
  <1> QED
    BY <1>1, <1>2, <1>4, <1>5, <1>7

\* Dates of different months are in the order of their months.
LEMMA MonthsInOrder ==
    ASSUME NEW s \in Nat, NEW t \in Nat
    PROVE  (Month(s) < Month(t) => s < t) /\ (s <= t => Month(s) <= Month(t))
  BY DEF Month

\* The n-th cursor: n periods of whole months later, on the anchor's own day if
\* every month has it.
LEMMA CursorFacts ==
    ASSUME NEW from \in Nat, NEW months \in Nat
    PROVE  \A n \in 0..MaxSteps :
              /\ Cursor(from, months, n) \in Nat
              /\ Month(Cursor(from, months, n)) = Month(from) + n * months
              /\ Day(from) <= 28 => Day(Cursor(from, months, n)) = Day(from)
  <1> DEFINE C(n) == Cursor(from, months, n)
             P(n) == /\ C(n) \in Nat
                     /\ Month(C(n)) = Month(from) + n * months
                     /\ Day(from) <= 28 => Day(C(n)) = Day(from)
             A == {n \in 0..MaxSteps : P(n)}
  <1>0. MaxSteps \in Nat /\ Month(from) \in Nat
    BY PreviewAssumption, AddMonthsFacts
  <1>1. 0 \in A
    <2>1. C(0) = from /\ 0 * months = 0 /\ 0 \in 0..MaxSteps
      BY <1>0, CursorTurns
    <2> QED
      BY <1>0, <2>1
  <1>2. ASSUME NEW n \in 0..MaxSteps, n < MaxSteps, n \in A PROVE n + 1 \in A
    <2>1. PICK c \in Nat : /\ c = C(n) /\ Month(c) = Month(from) + n * months
                           /\ (Day(from) <= 28 => Day(c) = Day(from))
      BY <1>2
    <2>2. C(n + 1) = AddMonths(c, months)
      BY <1>2, <2>1, CursorTurns
    <2>3. /\ C(n + 1) \in Nat /\ Month(C(n + 1)) = Month(c) + months
          /\ (Day(c) <= 28 => Day(C(n + 1)) = Day(c))
      BY <2>2, AddMonthsFacts
    <2>4. (n + 1) * months = n * months + months /\ n * months \in Nat
      OBVIOUS
    <2>5. Month(C(n + 1)) = Month(from) + (n + 1) * months
      BY <1>0, <2>1, <2>3, <2>4
    <2>6. n + 1 \in 0..MaxSteps
      BY <1>0, <1>2
    <2> QED
      BY <2>1, <2>3, <2>5, <2>6
  <1>3. \A n \in 0..MaxSteps : n \in A
    <2> HIDE DEF A
    <2> QED
      BY <1>0, <1>1, <1>2, Climb
  <1> QED
    BY <1>3

\* Cursors of a period of at least a month grow, so that a later turn is a later
\* date and conversely.
LEMMA CursorsGrow ==
    ASSUME NEW from \in Nat, NEW months \in Nat, months # 0,
           NEW i \in 0..MaxSteps, NEW j \in 0..MaxSteps
    PROVE  Cursor(from, months, i) < Cursor(from, months, j) <=> i < j
  <1>0. MaxSteps \in Nat /\ Month(from) \in Nat
    BY PreviewAssumption, AddMonthsFacts
  <1>1. ASSUME NEW a \in 0..MaxSteps, NEW b \in 0..MaxSteps, a < b
        PROVE  Cursor(from, months, a) < Cursor(from, months, b)
    <2>1. PICK x \in Nat, y \in Nat : /\ x = Cursor(from, months, a) /\ y = Cursor(from, months, b)
                                      /\ Month(x) = Month(from) + a * months
                                      /\ Month(y) = Month(from) + b * months
      <3>1. Cursor(from, months, a) \in Nat /\ Month(Cursor(from, months, a)) = Month(from) + a * months
        BY CursorFacts
      <3>2. Cursor(from, months, b) \in Nat /\ Month(Cursor(from, months, b)) = Month(from) + b * months
        BY CursorFacts
      <3> QED
        BY <3>1, <3>2
    <2>2. (a + 1) * months <= b * months /\ (a + 1) * months = a * months + months
          /\ a * months \in Nat /\ b * months \in Nat
      <3>1. a + 1 \in Int /\ b \in Int /\ a + 1 <= b
        BY <1>0, <1>1
      <3>2. (a + 1) * months <= b * months
        BY <3>1, MultiplesInOrder
      <3> QED
        BY <3>2
    <2>3. Month(x) < Month(y)
      BY <1>0, <2>1, <2>2
    <2> QED
      BY <2>1, <2>3, MonthsInOrder
  <1>2. Cursor(from, months, i) \in Nat /\ Cursor(from, months, j) \in Nat
    BY CursorFacts
  <1>3. i < j \/ i = j \/ j < i
    OBVIOUS
  <1> QED
    BY <1>1, <1>2, <1>3

\* Walking on from a cursor is walking on from the anchor: the day that a short
\* month clipped stays clipped.
LEMMA CursorsCompose ==
    ASSUME NEW from \in Nat, NEW months \in Nat, NEW m \in 0..MaxSteps, NEW k \in Nat,
           m + k <= MaxSteps
    PROVE  Cursor(Cursor(from, months, m), months, k) = Cursor(from, months, m + k)
  <1> DEFINE b == Cursor(from, months, m)
             A == {i \in 0..k : Cursor(b, months, i) = Cursor(from, months, m + i)}
  <1>0. MaxSteps \in Nat /\ m \in Nat /\ k <= MaxSteps
    BY PreviewAssumption
  <1>1. 0 \in A
    <2>1. Cursor(b, months, 0) = b /\ m + 0 = m
      BY <1>0, CursorTurns
    <2> QED
      BY <1>0, <2>1
  <1>2. ASSUME NEW i \in 0..k, i < k, i \in A PROVE i + 1 \in A
    <2>1. /\ i \in 0..MaxSteps /\ i < MaxSteps /\ m + i \in 0..MaxSteps /\ m + i < MaxSteps
          /\ m + (i + 1) = (m + i) + 1 /\ i + 1 \in 0..k
      BY <1>0, <1>2
    <2>2. Cursor(b, months, i + 1) = AddMonths(Cursor(b, months, i), months)
      BY <2>1, CursorTurns
    <2>3. Cursor(from, months, (m + i) + 1) = AddMonths(Cursor(from, months, m + i), months)
      BY <2>1, CursorTurns
    <2> QED
      BY <1>2, <2>1, <2>2, <2>3
  <1>3. \A i \in 0..k : i \in A
    <2> HIDE DEF A
    <2> QED
      BY <1>1, <1>2, Climb
  <1>4. k \in A
    BY <1>3
  <1> QED
    BY <1>4

\* calendar_step returns the first cursor past `after', wherever that is.
LEMMA StepIsFirst ==
    ASSUME NEW from \in Nat, NEW months \in Nat, NEW t \in Nat, NEW j \in 0..MaxSteps,
           Cursor(from, months, j) > t,
           \A n \in 0..MaxSteps : n < j => ~(Cursor(from, months, n) > t)
    PROVE  calendar_step(from, months, t) = Cursor(from, months, j)
  <1> DEFINE later == {n \in 0..(MaxSteps - 1) : Cursor(from, months, n) > t}
  <1>0. MaxSteps \in Nat
    BY PreviewAssumption
  <1>1. calendar_step(from, months, t) =
           Cursor(from, months, IF later = {} THEN MaxSteps ELSE Min(later))
    BY DEF calendar_step
  <1>2. CASE j = MaxSteps
    <2>1. later = {}
      BY <1>0, <1>2
    <2> QED
      BY <1>1, <1>2, <2>1
  <1>3. CASE j # MaxSteps
    <2>1. j \in later /\ \A n \in later : j <= n /\ n \in Nat
      BY <1>0, <1>3
    <2>2. Min(later) = j
      <3> HIDE DEF later
      <3>1. \A x \in later : (\A y \in later : x <= y) => x = j
        BY <2>1
      <3> QED
        BY <2>1, <3>1 DEF Min
    <2> QED
      BY <1>1, <2>1, <2>2
  <1> QED
    BY <1>2, <1>3

-----------------------------------------------------------------------------
(* The preview of a calendar interval lists one cursor after the other.    *)

Anchor == IF cad.anchor_at = None THEN start ELSE cad.anchor_at
Turn(n) == Cursor(Anchor, cad.every, n)

\* The turn of the first fire after the start.
FirstTurn(f) ==
    /\ f \in 0..MaxSteps /\ f <= Month(start) + 1
    /\ cad.anchor_at = None => f = 1
    /\ Turn(f) > start /\ \A n \in 0..MaxSteps : n < f => ~(Turn(n) > start)

\* From there the preview lists one turn after the other.
OnCalendar ==
    cad.type = "calendar" =>
        /\ cad \in CalendarType /\ cad.every # 0 /\ start \in Dates
        /\ out \in Seq(Nat) /\ Len(out) <= PreviewRuns
        /\ after = IF Len(out) = 0 THEN start ELSE out[Len(out)]
        /\ Len(out) # 0 => \E f \in Nat :
              FirstTurn(f) /\ \A i \in 1..Len(out) : out[i] = Turn(f + i - 1)

\* The numbers that the walk over a calendar interval is made of.
LEMMA CalendarFacts ==
    ASSUME cad \in CalendarType, cad.every # 0, start \in Dates
    PROVE  /\ Anchor \in Nat /\ cad.every \in Nat /\ start \in Nat /\ Month(start) \in Nat
           /\ PreviewRuns \in Nat /\ MaxSteps \in Nat /\ Month(start) + PreviewRuns <= MaxSteps
           /\ \A n \in 0..MaxSteps : Turn(n) \in Nat
           /\ \A i, j \in 0..MaxSteps : Turn(i) < Turn(j) <=> i < j
  <1>1. Anchor \in Nat /\ cad.every \in Nat /\ start \in Nat
    BY PreviewAssumption DEF CalendarType, Instants, Anchor
  <1>2. Month(start) \in Nat
    BY <1>1, AddMonthsFacts
  <1>3. \A n \in 0..MaxSteps : Turn(n) \in Nat
    BY <1>1, CursorFacts DEF Turn
  <1>4. \A i, j \in 0..MaxSteps : Turn(i) < Turn(j) <=> i < j
    BY <1>1, CursorsGrow DEF Turn
  <1> QED
    BY <1>1, <1>2, <1>3, <1>4, PreviewAssumption, StepsSuffice

\* No later than in the month after the start.
LEMMA FirstTurnExists ==
    ASSUME cad \in CalendarType, cad.every # 0, start \in Dates, PreviewRuns # 0
    PROVE  \E f \in Nat : FirstTurn(f)
  <1> USE CalendarFacts
  <1>0. 0 \in 0..MaxSteps /\ 1 \in 0..MaxSteps /\ Month(start) + 1 \in 0..MaxSteps
    OBVIOUS
  <1>1. CASE cad.anchor_at = None
    <2>1. Turn(0) = start
      BY <1>1, CursorTurns DEF Turn, Anchor
    <2>2. Turn(1) > start
      <3>1. Turn(0) < Turn(1) /\ Turn(1) \in Nat
        BY <1>0
      <3> QED
        BY <2>1, <3>1
    <2>3. \A n \in 0..MaxSteps : n < 1 => n = 0
      OBVIOUS
    <2>4. FirstTurn(1)
      BY <1>0, <2>1, <2>2, <2>3 DEF FirstTurn
    <2> QED
      BY <2>4
  <1>2. CASE cad.anchor_at # None
    <2> DEFINE k == Month(start) + 1
               S == {n \in 0..MaxSteps : Turn(n) > start}
    <2>1. Turn(k) > start
      <3>1. Month(Turn(k)) = Month(Anchor) + k * cad.every /\ Month(Anchor) \in Nat
        <4>1. Month(Cursor(Anchor, cad.every, k)) = Month(Anchor) + k * cad.every
          BY <1>0, CursorFacts
        <4> QED
          BY <4>1, AddMonthsFacts DEF Turn
      <3>2. k * 1 <= k * cad.every /\ k * cad.every \in Nat
        <4>1. k \in Nat /\ cad.every >= 1
          OBVIOUS
        <4> HIDE DEF k
        <4>2. k * cad.every = k * 1 + k * (cad.every - 1) /\ k * (cad.every - 1) \in Nat
          BY <4>1
        <4> QED
          BY <4>1, <4>2
      <3>3. Month(start) < Month(Turn(k)) /\ Turn(k) \in Nat
        BY <1>0, <3>1, <3>2
      <3> QED
        BY <3>3, MonthsInOrder
    <2>2. PICK f \in S : \A n \in S : f <= n
      <3>1. S \subseteq Nat /\ S # {}
        BY <1>0, <2>1
      <3> HIDE DEF S
      <3> QED
        BY <3>1, LeastNumber
    <2>3. k \in S
      BY <1>0, <2>1
    <2>4. f \in Nat /\ f <= k /\ f \in 0..MaxSteps /\ Turn(f) > start
      BY <2>2, <2>3
    <2>5. \A n \in 0..MaxSteps : n < f => ~(Turn(n) > start)
      BY <2>2, <2>4
    <2>6. FirstTurn(f)
      BY <1>2, <2>4, <2>5 DEF FirstTurn
    <2> QED
      BY <2>4, <2>6
  <1> QED
    BY <1>1, <1>2

\* next_run goes from one turn to the next, from the anchor or from the last fire.
LEMMA FollowingTurn ==
    ASSUME OnCalendar, cad.type = "calendar", Len(out) < PreviewRuns
    PROVE  \E f \in Nat : /\ FirstTurn(f) /\ f + Len(out) \in 0..MaxSteps
                          /\ \A i \in 1..Len(out) : out[i] = Turn(f + i - 1)
                          /\ Following(cad, after) = Turn(f + Len(out))
  <1>0. /\ cad \in CalendarType /\ cad.every # 0 /\ start \in Dates /\ out \in Seq(Nat)
        /\ after = IF Len(out) = 0 THEN start ELSE out[Len(out)]
    BY DEF OnCalendar
  <1>1. /\ Anchor \in Nat /\ cad.every \in Nat /\ start \in Nat /\ Month(start) \in Nat
        /\ PreviewRuns \in Nat /\ MaxSteps \in Nat /\ Month(start) + PreviewRuns <= MaxSteps
        /\ \A n \in 0..MaxSteps : Turn(n) \in Nat
        /\ \A i, j \in 0..MaxSteps : Turn(i) < Turn(j) <=> i < j
    BY <1>0, CalendarFacts
  <1>2. PICK n \in Nat : n = Len(out) /\ n < PreviewRuns
    BY <1>0
  <1>3. ASSUME NEW f \in Nat, FirstTurn(f) PROVE f + n \in 0..MaxSteps
    BY <1>1, <1>2, <1>3, SMTT(30) DEF FirstTurn
  <1>4. Following(cad, after) =
           calendar_step(IF cad.anchor_at = None THEN after ELSE cad.anchor_at, cad.every, after)
    BY DEF Following
  <1>5. CASE n = 0
    <2>1. PICK f \in Nat : FirstTurn(f)
      BY <1>0, <1>1, <1>2, FirstTurnExists
    <2>2. after = start /\ f + n = f /\ f \in 0..MaxSteps
      BY <1>0, <1>2, <1>5, <2>1 DEF FirstTurn
    <2>3. Following(cad, after) = calendar_step(Anchor, cad.every, start)
      BY <1>4, <2>2 DEF Anchor
    <2>4. calendar_step(Anchor, cad.every, start) = Turn(f)
      <3>1. /\ Cursor(Anchor, cad.every, f) > start
            /\ \A m \in 0..MaxSteps : m < f => ~(Cursor(Anchor, cad.every, m) > start)
        BY <2>1 DEF FirstTurn, Turn
      <3>2. calendar_step(Anchor, cad.every, start) = Cursor(Anchor, cad.every, f)
        BY <1>1, <2>2, <3>1, StepIsFirst
      <3> QED
        BY <3>2 DEF Turn
    <2>5. \A i \in 1..n : FALSE
      BY <1>5
    <2> QED
      BY <1>2, <1>3, <2>1, <2>2, <2>3, <2>4, <2>5
  <1>6. CASE n # 0
    <2>1. PICK f \in Nat : FirstTurn(f) /\ \A i \in 1..n : out[i] = Turn(f + i - 1)
      BY <1>2, <1>6 DEF OnCalendar
    <2>2. PICK j \in Nat : j = f + n - 1 /\ j + 1 = f + n /\ j \in 0..MaxSteps /\ j + 1 \in 0..MaxSteps
      <3>1. f + n \in 0..MaxSteps
        BY <1>3, <2>1
      <3>2. f + n - 1 \in Nat /\ (f + n - 1) + 1 = f + n /\ f + n - 1 \in 0..MaxSteps
        BY <1>1, <1>6, <3>1
      <3> QED
        BY <3>1, <3>2
    <2>3. after = Turn(j) /\ Turn(j) \in Nat
      <3>1. n \in 1..n /\ after = out[n]
        BY <1>0, <1>2, <1>6
      <3> QED
        BY <1>1, <2>1, <2>2, <3>1
    <2>4. Following(cad, after) = Turn(j + 1)
      <3>1. CASE cad.anchor_at # None
        <4>1. Following(cad, after) = calendar_step(Anchor, cad.every, Turn(j))
          BY <1>4, <2>3, <3>1 DEF Anchor
        <4>2. Turn(j + 1) > Turn(j)
          <5>1. Turn(j) < Turn(j + 1) /\ Turn(j + 1) \in Nat
            BY <1>1, <2>2
          <5> QED
            BY <2>3, <5>1
        <4>3. ASSUME NEW m \in 0..MaxSteps, m < j + 1 PROVE ~(Turn(m) > Turn(j))
          <5>1. ~(j < m) /\ Turn(m) \in Nat
            BY <1>1, <2>2, <4>3
          <5>2. ~(Turn(j) < Turn(m))
            BY <1>1, <2>2, <5>1
          <5> QED
            BY <2>3, <5>1, <5>2
        <4>4. PICK t \in Nat : t = Turn(j)
          BY <2>3
        <4>5. PICK k \in 0..MaxSteps : k = j + 1
          BY <2>2
        <4>6. /\ Cursor(Anchor, cad.every, k) > t
              /\ \A m \in 0..MaxSteps : m < k => ~(Cursor(Anchor, cad.every, m) > t)
          BY <4>2, <4>3, <4>4, <4>5 DEF Turn
        <4>7. calendar_step(Anchor, cad.every, t) = Cursor(Anchor, cad.every, k)
          BY <1>1, <4>6, StepIsFirst
        <4> QED
          BY <4>1, <4>4, <4>5, <4>7 DEF Turn
      <3>2. CASE cad.anchor_at = None
        <4> DEFINE a == Turn(j)
        <4>1. Following(cad, after) = calendar_step(a, cad.every, a)
          BY <1>4, <2>3, <3>2
        <4>2. a \in Nat /\ 0 \in 0..MaxSteps /\ 1 \in 0..MaxSteps
          BY <1>1, <2>2, <2>3
        <4> HIDE DEF a
        <4>3. Cursor(a, cad.every, 0) = a
          BY CursorTurns
        <4>4. Cursor(a, cad.every, 1) > a
          <5>1. Cursor(a, cad.every, 0) < Cursor(a, cad.every, 1)
            <6>1. 0 < 1
              OBVIOUS
            <6> QED
              BY <1>0, <1>1, <4>2, <6>1, CursorsGrow
          <5>2. Cursor(a, cad.every, 1) \in Nat
            BY <1>1, <4>2, CursorFacts
          <5> QED
            BY <4>2, <4>3, <5>1, <5>2
        <4>5. \A m \in 0..MaxSteps : m < 1 => ~(Cursor(a, cad.every, m) > a)
          <5>1. \A m \in 0..MaxSteps : m < 1 => m = 0
            BY <1>1
          <5> QED
            BY <4>2, <4>3, <5>1
        <4>6. calendar_step(a, cad.every, a) = Cursor(a, cad.every, 1)
          BY <1>1, <4>2, <4>4, <4>5, StepIsFirst, SMTT(30)
        <4>7. Cursor(a, cad.every, 1) = Turn(j + 1)
          BY <1>1, <2>2, CursorsCompose, SMTT(30) DEF Turn, a
        <4> QED
          BY <4>1, <4>6, <4>7
      <3> QED
        BY <3>1, <3>2
    <2> QED
      BY <1>2, <1>3, <2>1, <2>2, <2>4
  <1> QED
    BY <1>5, <1>6

\* Every turn of preview_runs keeps to the calendar.
LEMMA WalkKeepsCalendar == OnCalendar /\ [PreviewNext]_previewVars => OnCalendar'
  <1>1. CASE UNCHANGED previewVars
    BY <1>1 DEF OnCalendar, FirstTurn, Turn, Anchor, previewVars
  <1>2. ASSUME OnCalendar, Walk, cad.type # "calendar" PROVE OnCalendar'
    BY <1>2 DEF OnCalendar, Walk
  <1>3. ASSUME OnCalendar, Walk, cad.type = "calendar" PROVE OnCalendar'
    <2>0. /\ cad \in CalendarType /\ cad.every # 0 /\ start \in Dates /\ out \in Seq(Nat)
          /\ cad' = cad /\ start' = start /\ Len(out) < PreviewRuns
      BY <1>3 DEF OnCalendar, Walk
    <2>1. PICK n \in Nat : n = Len(out) /\ n < PreviewRuns
      BY <2>0
    <2>2. PICK f \in Nat : /\ FirstTurn(f) /\ f + n \in 0..MaxSteps
                           /\ \A i \in 1..n : out[i] = Turn(f + i - 1)
                           /\ Following(cad, after) = Turn(f + n)
      BY <1>3, <2>0, <2>1, FollowingTurn
    <2>3. Turn(f + n) \in Nat /\ PreviewRuns \in Nat
      BY <2>0, <2>2, CalendarFacts
    <2>4. out' = Append(out, Turn(f + n)) /\ after' = Turn(f + n)
      BY <1>3, <2>2 DEF Walk
    <2>5. /\ out' \in Seq(Nat) /\ Len(out') = n + 1 /\ out'[n + 1] = Turn(f + n)
          /\ \A i \in 1..n : out'[i] = out[i]
      BY <2>0, <2>1, <2>3, <2>4
    <2>6. ASSUME NEW i \in 1..(n + 1) PROVE out'[i] = Turn(f + i - 1)
      <3>1. CASE i = n + 1
        <4>1. f + i - 1 = f + n
          BY <3>1
        <4> QED
          BY <2>5, <3>1, <4>1
      <3>2. CASE i \in 1..n
        BY <2>2, <2>5, <3>2
      <3>3. i = n + 1 \/ i \in 1..n
        OBVIOUS
      <3> QED
        BY <3>1, <3>2, <3>3
    <2>7. \A k : Turn(k)' = Turn(k)
      BY <2>0 DEF Turn, Anchor
    <2>8. FirstTurn(f)'
      BY <2>0, <2>2, <2>7 DEF FirstTurn
    <2>9. \A i \in 1..Len(out') : out'[i] = Turn(f + i - 1)'
      BY <2>5, <2>6, <2>7
    <2>10. Len(out') <= PreviewRuns /\ after' = (IF Len(out') = 0 THEN start' ELSE out'[Len(out')])
      BY <2>1, <2>3, <2>4, <2>5
    <2> QED
      BY <2>0, <2>5, <2>8, <2>9, <2>10 DEF OnCalendar
  <1> QED
    BY <1>1, <1>2, <1>3 DEF PreviewNext

\* The walk of preview_runs lists the turns of a calendar interval one after the
\* other, for any anchor and start, an anchor on the 31st included.
THEOREM CalendarInvariant == PreviewSpec => []OnCalendar
  <1>1. PreviewInit => OnCalendar
    <2> SUFFICES ASSUME PreviewInit, cad.type = "calendar" PROVE OnCalendar
      BY DEF OnCalendar
    <2>1. cad \in CalendarType /\ cad.every # 0
      BY PreviewAssumption DEF PreviewInit, CadenceType, Malformed
    <2>2. start \in Dates /\ after = start /\ out = <<>>
      BY DEF PreviewInit
    <2>3. out \in Seq(Nat) /\ Len(out) = 0
      BY <2>2
    <2> QED
      BY <2>1, <2>2, <2>3, PreviewAssumption DEF OnCalendar
  <1> QED
    BY <1>1, WalkKeepsCalendar, PTL DEF PreviewSpec

\* For a day that every month has, the cursors are the docstring's grid.
LEMMA CommonDaysOnGrid ==
    ASSUME cad \in CalendarType, cad.every # 0, start \in Dates, Day(Anchor) <= 28,
           NEW k \in 0..MaxSteps
    PROVE  AddMonths(Anchor, k * cad.every) = Turn(k)
  <1>0. Anchor \in Nat /\ cad.every \in Nat /\ k \in Nat
    BY CalendarFacts
  <1>1. PICK s \in Nat : s = k * cad.every
    BY <1>0
  <1>2. PICK x \in Nat : x = AddMonths(Anchor, s) /\ Month(x) = Month(Anchor) + s /\ Day(x) = Day(Anchor)
    BY <1>0, <1>1, AddMonthsFacts
  <1>3. PICK y \in Nat : y = Turn(k) /\ Month(y) = Month(Anchor) + s /\ Day(y) = Day(Anchor)
    BY <1>0, <1>1, CursorFacts DEF Turn
  <1>4. x = 100 * Month(x) + Day(x) /\ y = 100 * Month(y) + Day(y)
    BY AddMonthsFacts
  <1> QED
    BY <1>1, <1>2, <1>3, <1>4

\* What NoFireSkipped asks of a calendar interval.
LEMMA CalendarSkipsNothing ==
    ASSUME OnCalendar, cad.type = "calendar"
    PROVE  NoFireSkipped
  <1> SUFFICES ASSUME CommonDay, NEW i \in DOMAIN out
               PROVE  LET prev == IF i = 1 THEN start ELSE out[i - 1]
                      IN  /\ out[i] > prev
                          /\ out[i] \in FiresAt(cad, start)
                          /\ ~ \E t \in FiresAt(cad, start) : prev < t /\ t < out[i]
    BY DEF NoFireSkipped
  <1> DEFINE prev == IF i = 1 THEN start ELSE out[i - 1]
  <1>0. /\ cad \in CalendarType /\ cad.every # 0 /\ start \in Dates /\ out \in Seq(Nat)
        /\ Len(out) <= PreviewRuns
    BY DEF OnCalendar
  <1>1. /\ start \in Nat /\ Month(start) \in Nat
        /\ PreviewRuns \in Nat /\ MaxSteps \in Nat /\ Month(start) + PreviewRuns <= MaxSteps
        /\ \A n \in 0..MaxSteps : Turn(n) \in Nat
        /\ \A a, b \in 0..MaxSteps : Turn(a) < Turn(b) <=> a < b
    BY <1>0, CalendarFacts
  <1>2. i \in Nat /\ i >= 1 /\ i <= Len(out) /\ i \in 1..Len(out) /\ Len(out) # 0 /\ Len(out) \in Nat
    BY <1>0
  <1>3. PICK f \in Nat : FirstTurn(f) /\ \A k \in 1..Len(out) : out[k] = Turn(f + k - 1)
    BY <1>2 DEF OnCalendar
  <1>4. PICK m \in 0..MaxSteps : m = f + i - 1 /\ f <= m /\ out[i] = Turn(m)
    <2>1. f + i - 1 \in 0..MaxSteps /\ f <= f + i - 1
      <3>1. f <= Month(start) + 1 /\ i <= PreviewRuns
        BY <1>0, <1>1, <1>2, <1>3 DEF FirstTurn
      <3>2. PICK x \in Nat, y \in Nat, z \in Nat :
                x = i /\ y = Month(start) /\ z = MaxSteps /\ 1 <= x /\ f <= y + 1 /\ y + x <= z
        BY <1>1, <1>2, <3>1
      <3>3. f + x - 1 >= 0 /\ f + x - 1 <= z /\ f <= f + x - 1 /\ f + x - 1 \in Int
        BY <3>2
      <3> QED
        BY <3>2, <3>3
    <2> QED
      BY <1>2, <1>3, <2>1
  <1>5. PICK first \in {0, 1} :
            /\ FiresAt(cad, start) = {AddMonths(Anchor, k * cad.every) : k \in first..MaxSteps}
            /\ first <= f
    <2>1. CASE cad.anchor_at = None
      <3>1. FiresAt(cad, start) = {AddMonths(Anchor, k * cad.every) : k \in 1..MaxSteps}
        BY <2>1 DEF FiresAt, Anchor
      <3>2. f = 1
        BY <1>3, <2>1 DEF FirstTurn
      <3> QED
        BY <3>1, <3>2
    <2>2. CASE cad.anchor_at # None
      <3>1. FiresAt(cad, start) = {AddMonths(Anchor, k * cad.every) : k \in 0..MaxSteps}
        BY <2>2 DEF FiresAt, Anchor
      <3> QED
        BY <3>1
    <2> QED
      BY <2>1, <2>2
  <1>6. \A k \in 0..MaxSteps : AddMonths(Anchor, k * cad.every) = Turn(k)
    BY <1>0, CommonDaysOnGrid DEF CommonDay, Anchor
  <1>7. \A k \in first..MaxSteps : k \in 0..MaxSteps
    BY <1>1, <1>5
  <1>8. out[i] \in FiresAt(cad, start)
    <2>1. m \in first..MaxSteps
      BY <1>4, <1>5
    <2>2. Turn(m) = AddMonths(Anchor, m * cad.every)
      BY <1>6
    <2> QED
      BY <1>4, <1>5, <2>1, <2>2
  <1>9. CASE i = 1
    <2>1. m = f /\ prev = start /\ Turn(f) > start
      BY <1>3, <1>4, <1>9 DEF FirstTurn
    <2>2. ASSUME NEW k \in 0..MaxSteps, start < Turn(k), Turn(k) < Turn(m) PROVE FALSE
      <3>1. k < f
        BY <1>1, <2>1, <2>2
      <3>2. ~(Turn(k) > start) /\ Turn(k) \in Nat
        BY <1>1, <1>3, <3>1 DEF FirstTurn
      <3> QED
        BY <1>1, <2>2, <3>2
    <2>3. ~ \E t \in FiresAt(cad, start) : prev < t /\ t < out[i]
      BY <1>4, <1>5, <1>6, <1>7, <2>1, <2>2
    <2> QED
      BY <1>4, <1>8, <2>1, <2>3
  <1>10. CASE i # 1
    <2>1. PICK l \in 0..MaxSteps : l = m - 1 /\ l + 1 = m /\ prev = Turn(l)
      <3>0. f \in Nat /\ m \in Int /\ f <= m /\ i >= 2 /\ m = f + i - 1
        BY <1>1, <1>2, <1>4, <1>10, SMTT(30)
      <3>1. i - 1 \in 1..Len(out) /\ f + (i - 1) - 1 = m - 1 /\ m - 1 \in 0..MaxSteps /\ (m - 1) + 1 = m
        <4>1. i - 1 \in 1..Len(out)
          BY <1>2, <3>0
        <4>2. f + (i - 1) - 1 = m - 1 /\ (m - 1) + 1 = m /\ m - 1 >= 0
          BY <1>2, <3>0
        <4>3. m - 1 \in 0..MaxSteps
          BY <1>1, <1>4, <4>2
        <4> QED
          BY <4>1, <4>2, <4>3
      <3>2. prev = Turn(m - 1)
        BY <1>3, <1>10, <3>1
      <3> QED
        BY <3>1, <3>2
    <2>2. ASSUME NEW k \in 0..MaxSteps, Turn(l) < Turn(k), Turn(k) < Turn(m) PROVE FALSE
      <3>1. l < k /\ k < m
        BY <1>1, <2>2
      <3> QED
        BY <2>1, <3>1
    <2>3. ~ \E t \in FiresAt(cad, start) : prev < t /\ t < out[i]
      BY <1>4, <1>5, <1>6, <1>7, <2>1, <2>2
    <2>4. out[i] > prev
      <3>1. Turn(l) < Turn(m) /\ Turn(l) \in Nat /\ Turn(m) \in Nat
        BY <1>1, <2>1
      <3> QED
        BY <1>4, <2>1, <3>1
    <2> QED
      BY <1>8, <2>3, <2>4
  <1> QED
    BY <1>9, <1>10

\* What MissedAgreesWithNextRun asks of a calendar interval.
LEMMA CalendarCountsMissed ==
    ASSUME OnCalendar, cad.type = "calendar"
    PROVE  MissedAgreesWithNextRun
  <1> SUFFICES ASSUME out # <<>>
               PROVE  /\ Missed(cad, out[1], after) = Len(out) - 1
                      /\ Len(out) > 1 => Missed(cad, out[1], after - 1) = Len(out) - 2
    BY DEF MissedAgreesWithNextRun
  <1>0. /\ cad \in CalendarType /\ cad.every # 0 /\ start \in Dates /\ out \in Seq(Nat)
        /\ Len(out) <= PreviewRuns
    BY DEF OnCalendar
  <1>1. /\ Anchor \in Nat /\ cad.every \in Nat /\ start \in Nat /\ Month(start) \in Nat
        /\ PreviewRuns \in Nat /\ MaxSteps \in Nat /\ Month(start) + PreviewRuns <= MaxSteps
        /\ \A n \in 0..MaxSteps : Turn(n) \in Nat
    BY <1>0, CalendarFacts
  <1>2. PICK d \in Nat : d = Len(out) - 1 /\ Len(out) = d + 1 /\ Len(out) \in Nat /\ Len(out) # 0
    <2>1. Len(out) \in Nat /\ Len(out) # 0
      BY <1>0
    <2>2. Len(out) - 1 \in Nat /\ Len(out) = (Len(out) - 1) + 1
      BY <2>1
    <2> QED
      BY <2>1, <2>2
  <1>3. PICK f \in Nat : FirstTurn(f) /\ \A k \in 1..Len(out) : out[k] = Turn(f + k - 1)
    BY <1>2 DEF OnCalendar
  <1>4. f \in 0..MaxSteps /\ f + d <= MaxSteps /\ d \in 0..MaxSteps
    <2>1. f \in 0..MaxSteps /\ f <= Month(start) + 1
      BY <1>3 DEF FirstTurn
    <2>2. d + 1 <= PreviewRuns
      BY <1>0, <1>2
    <2> QED
      BY <1>1, <2>1, <2>2
  <1>5. out[1] = Turn(f) /\ Turn(f) \in Nat
    <2>1. 1 \in 1..Len(out) /\ f + 1 - 1 = f
      BY <1>2
    <2> QED
      BY <1>1, <1>3, <1>4, <2>1
  <1> DEFINE D(n) == Cursor(Turn(f), cad.every, n)
  <1>6. after = D(d)
    <2>1. Len(out) \in 1..Len(out) /\ f + Len(out) - 1 = f + d
      BY <1>2
    <2>2. after = out[Len(out)]
      BY <1>2 DEF OnCalendar
    <2>3. after = Turn(f + d)
      BY <1>3, <2>1, <2>2
    <2> QED
      BY <1>1, <1>4, <2>3, CursorsCompose DEF Turn
  <1>7. /\ \A n \in 0..MaxSteps : D(n) \in Nat
        /\ \A n \in 0..MaxSteps : D(d) < D(n) <=> d < n
        /\ \A n \in 0..MaxSteps : D(n) < D(d) <=> n < d
    BY <1>0, <1>1, <1>4, <1>5, CursorFacts, CursorsGrow
  <1>8. \A t : Missed(cad, out[1], t) = Cardinality({n \in 1..MaxSteps : D(n) <= t})
    BY <1>5 DEF Missed, calendar_missed
  <1> HIDE DEF D
  <1>9. {n \in 1..MaxSteps : D(n) <= after} = 1..d
    <2>1. \A n \in 1..MaxSteps : n \in 0..MaxSteps
      BY <1>1
    <2>2. \A n \in 1..MaxSteps : D(n) <= D(d) <=> n <= d
      BY <1>1, <1>4, <1>7, <2>1, SMTT(30)
    <2>3. \A n \in 1..d : n \in 1..MaxSteps /\ n <= d
      BY <1>1, <1>4
    <2>4. \A n \in 1..MaxSteps : n <= d => n \in 1..d
      OBVIOUS
    <2> QED
      BY <1>6, <2>2, <2>3, <2>4
  <1>10. Cardinality(1..d) = d
    <2>1. Cardinality(1..d) = IF 1 > d THEN 0 ELSE d - 1 + 1
      BY FS_Interval
    <2> QED
      BY <2>1
  <1>11. ASSUME Len(out) > 1 PROVE Missed(cad, out[1], after - 1) = Len(out) - 2
    <2>0. PICK e \in Nat : e = d - 1 /\ e + 1 = d /\ Len(out) - 2 = e
      BY <1>2, <1>11
    <2>1. {n \in 1..MaxSteps : D(n) <= after - 1} = 1..e
      <3>1. \A n \in 1..MaxSteps : n \in 0..MaxSteps
        BY <1>1
      <3>2. ASSUME NEW n \in 1..MaxSteps PROVE D(n) <= D(d) - 1 <=> n <= e
        <4>1. D(n) \in Nat /\ D(d) \in Nat /\ (D(n) < D(d) <=> n < d)
          BY <1>4, <1>7, <3>1
        <4> QED
          BY <2>0, <4>1
      <3>3. \A n \in 1..e : n \in 1..MaxSteps /\ n <= e
        BY <1>1, <1>4, <2>0
      <3>4. \A n \in 1..MaxSteps : n <= e => n \in 1..e
        OBVIOUS
      <3> QED
        BY <1>6, <3>2, <3>3, <3>4
    <2>2. Cardinality(1..e) = e
      <3>1. Cardinality(1..e) = IF 1 > e THEN 0 ELSE e - 1 + 1
        BY FS_Interval
      <3> QED
        BY <3>1
    <2> QED
      BY <1>8, <2>0, <2>1, <2>2
  <1> QED
    BY <1>2, <1>8, <1>9, <1>10, <1>11

-----------------------------------------------------------------------------
\* NoFireSkipped for every cadence, calendar intervals included: each fire that
\* the preview lists is one of the cadence, later than the last, and neither the
\* jump of _step_interval over whole periods nor its walk over months leaves one
\* out.
THEOREM PreviewSkipsNothing == PreviewSpec => []NoFireSkipped
  <1>1. OnGrid => (cad.type # "calendar" => NoFireSkipped)
    <2> SUFFICES ASSUME OnGrid, cad.type # "calendar", NEW i \in DOMAIN out
                 PROVE  LET prev == IF i = 1 THEN start ELSE out[i - 1]
                        IN  /\ out[i] > prev
                            /\ out[i] \in FiresAt(cad, start)
                            /\ ~ \E t \in FiresAt(cad, start) : prev < t /\ t < out[i]
      BY DEF NoFireSkipped
    <2> DEFINE prev == IF i = 1 THEN start ELSE out[i - 1]
    <2>0. /\ cad \in CadenceType /\ ~Malformed(cad) /\ start \in Nat /\ out \in Seq(Nat)
          /\ i \in Nat /\ i # 0 /\ i <= Len(out) /\ i <= PreviewRuns /\ i \in 1..Len(out)
          /\ PreviewRuns \in Nat
      BY PreviewAssumption DEF OnGrid
    <2>1. CASE cad.type = "once"
      <3>1. i = 1 /\ out[1] = cad.run_at /\ cad.run_at > start
        BY <2>0, <2>1 DEF OnGrid
      <3>2. FiresAt(cad, start) = {cad.run_at}
        BY <2>1 DEF FiresAt
      <3>3. cad.run_at \in Nat
        BY <2>0, <2>1 DEF CadenceType, Malformed, Instants
      <3> QED
        BY <2>0, <3>1, <3>2, <3>3
    <2>2. CASE cad.type # "once"
      <3>1. PICK e \in Nat, o \in Nat, f \in Nat :
                /\ e = cad.every /\ e # 0 /\ o = GridOrigin /\ f = FirstFire /\ f <= start + 1
                /\ (cad.type = "interval" /\ cad.anchor_at = None => f >= 1)
        BY <2>0, <2>2, FirstFireFacts
      <3>2. PICK m \in Nat : m = f + i - 1 /\ m >= f /\ m <= start + PreviewRuns
        <4>1. f + i - 1 \in Nat /\ f + i - 1 >= f /\ f + i - 1 <= start + PreviewRuns
          BY <2>0, <3>1
        <4> QED
          BY <4>1
      <3>3. out[i] = NthFire(i) /\ out[i] = o + m * e /\ m * e \in Nat
        <4>1. out[i] = NthFire(i)
          BY <2>0, <2>2 DEF OnGrid
        <4>2. NthFire(i) = o + m * e /\ m * e \in Nat
          BY <3>1, <3>2 DEF NthFire
        <4> QED
          BY <4>1, <4>2
      <3>4. PICK first \in {0, 1} :
                /\ FiresAt(cad, start) = {o + k * e : k \in first..(start + PreviewRuns)}
                /\ first <= f
        <4>1. CASE cad.type = "cron"
          <5>1. FiresAt(cad, start) = {k * e : k \in 0..(start + PreviewRuns)} /\ o = 0
            BY <3>1, <4>1 DEF FiresAt, GridOrigin
          <5>2. \A k \in 0..(start + PreviewRuns) : 0 + k * e = k * e
            OBVIOUS
          <5>3. FiresAt(cad, start) = {o + k * e : k \in 0..(start + PreviewRuns)}
            BY <5>1, <5>2
          <5> QED
            BY <5>3
        <4>2. CASE cad.type = "interval" /\ cad.anchor_at = None
          <5>1. FiresAt(cad, start) = {o + k * e : k \in 1..(start + PreviewRuns)}
            BY <3>1, <4>2 DEF FiresAt, GridOrigin
          <5> QED
            BY <3>1, <4>2, <5>1
        <4>3. CASE cad.type = "interval" /\ cad.anchor_at # None
          <5>1. FiresAt(cad, start) = {o + k * e : k \in 0..(start + PreviewRuns)}
            BY <3>1, <4>3 DEF FiresAt, GridOrigin
          <5> QED
            BY <5>1
        <4> QED
          BY <2>0, <2>2, <4>1, <4>2, <4>3 DEF CadenceType
      <3>5. out[i] \in FiresAt(cad, start)
        <4>1. m \in first..(start + PreviewRuns)
          BY <3>2, <3>4
        <4> QED
          BY <3>3, <3>4, <4>1
      <3>6. ASSUME NEW k \in Nat, prev < o + k * e, o + k * e < out[i] PROVE FALSE
        <4>1. k < m
          BY <2>0, <2>2, <3>1, <3>2, <3>3, <3>6, FiresInOrder
        <4>2. CASE i = 1
          <5>1. k >= f
            BY <2>0, <2>2, <3>1, <3>6, <4>2, FiresInOrder
          <5> QED
            BY <3>2, <4>1, <4>2, <5>1
        <4>3. CASE i # 1
          <5>1. PICK j \in Nat : j = i - 1 /\ j # 0 /\ j \in 1..Len(out)
            BY <2>0, <4>3
          <5>2. prev = NthFire(j)
            BY <2>2, <4>3, <5>1 DEF OnGrid
          <5>3. k > f + j - 1
            <6>1. NthFire(j) < GridOrigin + k * cad.every
              BY <3>1, <3>6, <5>2
            <6>2. k > FirstFire + j - 1
              BY <2>0, <2>2, <5>1, <6>1, FiresInOrder
            <6> QED
              BY <3>1, <6>2
          <5> QED
            BY <2>0, <3>2, <4>1, <5>1, <5>3
        <4> QED
          BY <4>2, <4>3
      <3>7. out[i] > prev
        <4>1. CASE i = 1
          BY <2>0, <2>2, <3>3, <4>1, FiresInOrder
        <4>2. CASE i # 1
          <5>1. PICK j \in Nat : j = i - 1 /\ j # 0 /\ j + 1 = i /\ j \in 1..Len(out)
            <6>1. Len(out) \in Nat
              BY <2>0
            <6>2. i - 1 \in Nat /\ i - 1 # 0 /\ (i - 1) + 1 = i /\ i - 1 \in 1..Len(out)
              BY <2>0, <4>2, <6>1
            <6> QED
              BY <6>2
          <5>2. prev = NthFire(j)
            BY <2>2, <4>2, <5>1 DEF OnGrid
          <5>3. NthFire(i) = NthFire(j) + e /\ NthFire(j) \in Nat
            <6>1. NthFire(j + 1) = NthFire(j) + cad.every /\ NthFire(j) \in Nat
              BY <2>0, <2>2, <5>1, FiresInOrder
            <6> QED
              BY <3>1, <5>1, <6>1
          <5>4. out[i] = NthFire(i) /\ e > 0
            BY <3>1, <3>3
          <5>5. NthFire(i) > NthFire(j)
            BY <5>3, <5>4
          <5> QED
            BY <5>2, <5>4, <5>5
        <4> QED
          BY <4>1, <4>2
      <3>8. \A k \in first..(start + PreviewRuns) : k \in Nat
        BY <2>0, <3>4
      <3> QED
        BY <3>4, <3>5, <3>6, <3>7, <3>8
    <2> QED
      BY <2>1, <2>2
  <1>2. OnCalendar => (cad.type = "calendar" => NoFireSkipped)
    BY CalendarSkipsNothing
  <1>3. OnGrid /\ OnCalendar => NoFireSkipped
    BY <1>1, <1>2
  <1> QED
    BY <1>3, PreviewInvariant, CalendarInvariant, PTL

\* MissedAgreesWithNextRun for every cadence, calendar intervals on any day
\* included: a tick that is due for one fire and runs at a later one has missed,
\* by missed_periods, exactly the fires that next_run counts between them, and
\* one less an instant earlier.
THEOREM PreviewCountsMissed == PreviewSpec => []MissedAgreesWithNextRun
  <1>1. OnGrid => (cad.type # "calendar" => MissedAgreesWithNextRun)
    <2> SUFFICES ASSUME OnGrid, cad.type # "calendar", out # <<>>
                 PROVE  /\ Missed(cad, out[1], after) = Len(out) - 1
                        /\ Len(out) > 1 => Missed(cad, out[1], after - 1) = Len(out) - 2
      BY DEF MissedAgreesWithNextRun
    <2>0. /\ cad \in CadenceType /\ ~Malformed(cad) /\ start \in Nat /\ out \in Seq(Nat)
      BY DEF OnGrid
    <2>1. PICK n \in Nat : n = Len(out) /\ n # 0 /\ 1 \in 1..n /\ n \in 1..n
      BY <2>0
    <2>2. after = out[n] /\ \A t : Missed(cad, out[1], t) = missed_periods(cad, out[1], t)
      BY <2>1 DEF OnGrid, Missed
    <2>3. CASE cad.type = "once"
      <3>1. n = 1
        BY <2>1, <2>3 DEF OnGrid
      <3>2. \A t : missed_periods(cad, out[1], t) = 0
        BY <2>3 DEF missed_periods
      <3> QED
        BY <2>1, <2>2, <3>1, <3>2
    <2>4. CASE cad.type # "once"
      <3>1. PICK e \in Nat, o \in Nat, f \in Nat :
                e = cad.every /\ e # 0 /\ o = GridOrigin /\ f = FirstFire
        BY <2>0, <2>4, FirstFireFacts
      <3>2. out[1] = o + f * e /\ f * e \in Nat
        <4>1. out[1] = NthFire(1) /\ f + 1 - 1 = f
          BY <2>1, <2>4 DEF OnGrid
        <4>2. NthFire(1) = o + (f + 1 - 1) * e
          BY <3>1 DEF NthFire
        <4>3. f * e \in Nat
          OBVIOUS
        <4> QED
          BY <4>1, <4>2, <4>3
      <3>3. PICK d \in Nat : d = n - 1
        BY <2>1
      <3>4. after = o + (f + d) * e
        <4>1. after = NthFire(n) /\ f + n - 1 = f + d
          BY <2>1, <2>2, <2>4, <3>3 DEF OnGrid
        <4> QED
          BY <3>1, <4>1 DEF NthFire
      <3>5. d * e \in Nat /\ (f + d) * e = f * e + d * e /\ (d # 0 => d * e >= e)
        <4>1. d * e \in Nat /\ (f + d) * e = f * e + d * e
          OBVIOUS
        <4>2. d # 0 => 1 * e <= d * e
          BY MultiplesInOrder
        <4> QED
          BY <4>1, <4>2
      <3>6. PICK g \in Nat : /\ g = d * e /\ after = out[1] + g /\ (d # 0 => g >= e)
                             /\ (d = 0 => g = 0)
        <4>1. after = out[1] + d * e /\ (d = 0 => d * e = 0)
          BY <3>2, <3>4, <3>5
        <4> QED
          BY <3>5, <4>1
      <3>7. cad.type \in {"interval", "cron"} /\ out[1] \in Nat
        BY <2>0, <2>4, <3>2 DEF CadenceType
      <3>8. ASSUME NEW a \in Nat, a # 0 PROVE (a * e - 1) \div e = a - 1
        <4>1. a * e - 1 \in Nat /\ a * e \in Nat /\ (a - 1) * e = a * e - e
          <5>1. 1 * e <= a * e
            BY <3>8, MultiplesInOrder
          <5>2. (a - 1) * e = a * e - e /\ a * e \in Nat /\ 1 * e = e
            OBVIOUS
          <5>3. PICK p \in Nat : p = a * e /\ e <= p
            BY <5>1, <5>2
          <5>4. p - 1 \in Nat
            BY <3>1, <5>3
          <5> QED
            BY <5>2, <5>3, <5>4
        <4>2. PICK q \in Nat : q = (a * e - 1) \div e
          BY <3>1, <4>1, LastMultiple
        <4>3. \A k \in Int : k * e \in Int /\ (k * e <= a * e - 1 <=> k <= q)
          BY <3>1, <4>1, <4>2, LastMultiple
        <4>4. a - 1 <= q
          <5>1. a - 1 \in Int /\ (a - 1) * e <= a * e - 1
            BY <3>1, <4>1, SMTT(30)
          <5> QED
            BY <4>3, <5>1
        <4>5. ~(a <= q)
          BY <4>1, <4>3
        <4> QED
          BY <4>2, <4>4, <4>5
      <3>9. ASSUME NEW a \in Nat PROVE (a * e) \div e = a
        <4>1. a * e \in Nat /\ (a + 1) * e = a * e + e
          OBVIOUS
        <4>2. PICK q \in Nat : q = (a * e) \div e
          BY <3>1, <4>1, LastMultiple
        <4>3. \A k \in Int : k * e \in Int /\ (k * e <= a * e <=> k <= q)
          BY <3>1, <4>1, <4>2, LastMultiple
        <4>4. a <= q
          BY <4>1, <4>3
        <4>5. ~(a + 1 <= q)
          <5>1. a + 1 \in Int /\ ~((a + 1) * e <= a * e)
            BY <3>1, <4>1
          <5> QED
            BY <4>3, <5>1
        <4> QED
          BY <4>2, <4>4, <4>5
      <3>10. CASE cad.type = "interval"
        <4>1. missed_periods(cad, out[1], after) = d
          <5>1. CASE d = 0
            <6>1. after <= out[1]
              BY <3>6, <3>7, <5>1
            <6> QED
              BY <5>1, <6>1 DEF missed_periods
          <5>2. CASE d # 0
            <6>1. ~(after <= out[1]) /\ after - out[1] = g
              BY <3>1, <3>6, <3>7, <5>2
            <6>2. missed_periods(cad, out[1], after) = g \div e
              BY <2>4, <3>1, <3>10, <6>1 DEF missed_periods
            <6> QED
              BY <3>6, <3>9, <6>2
          <5> QED
            BY <5>1, <5>2
        <4>2. ASSUME d # 0 PROVE missed_periods(cad, out[1], after - 1) = d - 1
          <5>1. (d * e - 1) \div e = d - 1
            BY <3>8, <4>2
          <5>2. CASE after - 1 <= out[1]
            <6>1. g = 1
              <7>1. after = out[1] + g /\ g >= e /\ e >= 1
                BY <3>1, <3>6, <4>2
              <7> QED
                BY <3>7, <5>2, <7>1
            <6>2. e = 1 /\ d = 1
              BY <3>1, <3>6, <4>2, <6>1
            <6> QED
              BY <5>2, <6>2 DEF missed_periods
          <5>3. CASE ~(after - 1 <= out[1])
            <6>1. after - 1 - out[1] = d * e - 1
              BY <3>6, <3>7
            <6>2. missed_periods(cad, out[1], after - 1) = (d * e - 1) \div e
              BY <2>4, <3>1, <3>10, <5>3, <6>1 DEF missed_periods
            <6> QED
              BY <5>1, <6>2
          <5> QED
            BY <5>2, <5>3
        <4> QED
          BY <2>1, <2>2, <3>3, <4>1, <4>2
      <3>11. CASE cad.type = "cron"
        <4>1. o = 0 /\ out[1] = f * e /\ after = (f + d) * e
          BY <3>1, <3>2, <3>4, <3>5, <3>11, SMTT(30) DEF GridOrigin
        <4>2. out[1] \div e = f /\ after \div e = f + d
          BY <3>9, <4>1
        <4>3. missed_periods(cad, out[1], after) = d
          <5>1. CASE d = 0
            <6>1. after <= out[1]
              BY <3>6, <3>7, <5>1
            <6> QED
              BY <5>1, <6>1 DEF missed_periods
          <5>2. CASE d # 0
            <6>1. ~(after <= out[1])
              BY <3>1, <3>6, <3>7, <5>2
            <6>2. missed_periods(cad, out[1], after) = (f + d) - f
              BY <2>4, <3>1, <3>11, <4>2, <6>1 DEF missed_periods
            <6> QED
              BY <6>2
          <5> QED
            BY <5>1, <5>2
        <4>4. ASSUME d # 0 PROVE missed_periods(cad, out[1], after - 1) = d - 1
          <5>1. (after - 1) \div e = f + d - 1
            <6>1. PICK h \in Nat : h = f + d /\ h # 0
              BY <4>4
            <6>2. (h * e - 1) \div e = h - 1
              BY <3>8, <6>1
            <6>3. after = h * e
              BY <4>1, <6>1
            <6> QED
              BY <6>1, <6>2, <6>3
          <5>2. CASE after - 1 <= out[1]
            <6>1. g = 1
              <7>1. after = out[1] + g /\ g >= e /\ e >= 1
                BY <3>1, <3>6, <4>4
              <7> QED
                BY <3>7, <5>2, <7>1
            <6>2. e = 1 /\ d = 1
              BY <3>1, <3>6, <4>4, <6>1
            <6> QED
              BY <5>2, <6>2 DEF missed_periods
          <5>3. CASE ~(after - 1 <= out[1])
            <6>1. missed_periods(cad, out[1], after - 1) = (f + d - 1) - f
              BY <2>4, <3>1, <3>11, <4>2, <5>1, <5>3 DEF missed_periods
            <6> QED
              BY <6>1
          <5> QED
            BY <5>2, <5>3
        <4> QED
          BY <2>1, <2>2, <3>3, <4>3, <4>4
      <3> QED
        BY <3>7, <3>10, <3>11
    <2> QED
      BY <2>3, <2>4
  <1>2. OnCalendar => (cad.type = "calendar" => MissedAgreesWithNextRun)
    BY CalendarCountsMissed
  <1>3. OnGrid /\ OnCalendar => MissedAgreesWithNextRun
    BY <1>1, <1>2
  <1> QED
    BY <1>3, PreviewInvariant, CalendarInvariant, PTL
=============================================================================

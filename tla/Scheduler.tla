----------------------------- MODULE Scheduler -----------------------------
(***************************************************************************)
(* One ScheduledJob row of apps/scheduler and everyone who writes it: the  *)
(* ticks (run_due_jobs followed by reconcile_run_outcomes, in as many      *)
(* trigger processes as happen to overlap), and staff requests (Run now    *)
(* and the edit form).                                                     *)
(*                                                                         *)
(* Each database statement is one step; a process may pause between any    *)
(* two, and the clock runs meanwhile.  The task engine is seen through     *)
(* chain_outcome: a fired run is unfinished (READY) until it is SUCCESSFUL *)
(* or FAILED, and a worker that was lost or stopped may still change that. *)
(* Jobs share nothing, so one row stands for each.                         *)
(***************************************************************************)
EXTENDS Schedules, Sequences, FiniteSets

CONSTANTS
    Ticks,          \* processes that run a tick: cron POST, command, beat
    Operators,      \* staff requests in progress
    Cadences,       \* cadences the row may carry
    Edits,          \* may the edit form be used?
    AllowOverlap,   \* ScheduledJob.allow_overlap
    CatchUpSkip,    \* is ScheduledJob.catch_up = SKIP?
    StaleAfter,     \* _stale_run_seconds()
    Horizon,        \* bound: the last instant of the clock
    MaxRequests,    \* bound: staff requests
    MaxFaults       \* bound: crashes, failed statements and lost workers

ASSUME SchedulerAssumption ==
    /\ None \notin Nat
    /\ IsFiniteSet(Ticks) /\ Ticks \cap Operators = {}
    /\ Cadences \subseteq CadenceType
    /\ Edits \in BOOLEAN /\ AllowOverlap \in BOOLEAN /\ CatchUpSkip \in BOOLEAN
    /\ StaleAfter \in Nat /\ Horizon \in Nat /\ MaxRequests \in Nat /\ MaxFaults \in Nat

Procs == Ticks \cup Operators

VARIABLES
    now,        \* the wall clock
    cadence,    \* the row: its cadence fields
    enabled,    \* the row: enabled
    nextRun,    \* the row: next_run_at
    lastStatus, \* the row: last_status
    totalRuns,  \* the row: total_runs
    runs,       \* ScheduledJobRun rows in the order of created_at
    engine,     \* what chain_outcome says of each enqueued task
    pc,         \* where each process stands
    at,         \* the tick's `now'
    job,        \* the ScheduledJob instance a process holds
    cur,        \* the run a process is looking at
    todo,       \* runs left in reconcile's loop
    seen,       \* reconcile's `new': the outcome read for its run
    requests,   \* staff requests so far
    faults,     \* crashes, failed statements and lost workers so far
    claimed,    \* history: slots some tick has claimed
    reclaimed,  \* history: slots claimed more than once
    rewound,    \* history: values of next_run_at a stale save put back
    lost,       \* history: slots whose tick died or failed before its run row
    given       \* history: the terminal outcomes that each chain has had

row == <<cadence, enabled, nextRun, lastStatus, totalRuns>>
local == <<at, job, cur, todo, seen>>
history == <<claimed, reclaimed, rewound, lost, given>>
vars == <<now, row, runs, engine, pc, local, requests, faults, history>>

RunStatus == {"queued", "skipped", "success", "failed"}
Outcomes == {"success", "failed"}
RunType ==
    [status : RunStatus, slot : Instants, task : Nat, created : Nat, mails : Nat]
JobType ==
    [next : Instants, cadence : Cadences \cup {None},
     status : RunStatus \cup {"", "invalid"}, total : Nat]
Blank == [next |-> None, cadence |-> None, status |-> "", total |-> 0]
Fetched == [next |-> nextRun, cadence |-> cadence, status |-> lastStatus,
            total |-> totalRuns]
NoTask == 0         \* a run row with a blank task_result_id

Init ==
    /\ now = 0
    /\ cadence \in Cadences
    \* a cadence that no longer parses was fine when next_run_at was seeded
    /\ nextRun = IF Malformed(cadence) THEN 1 ELSE next_run(cadence, 0)
    /\ enabled = TRUE
    /\ lastStatus = ""
    /\ totalRuns = 0
    /\ runs = <<>>
    /\ engine = <<>>
    /\ pc = [p \in Procs |-> "idle"]
    /\ at = [p \in Procs |-> 0]
    /\ job = [p \in Procs |-> Blank]
    /\ cur = [p \in Procs |-> 0]
    /\ todo = [p \in Procs |-> {}]
    /\ seen = [p \in Procs |-> "queued"]
    /\ requests = 0
    /\ faults = 0
    /\ claimed = {} /\ reclaimed = {} /\ rewound = {} /\ lost = {} /\ given = {}

Goto(p, l) == pc' = [pc EXCEPT ![p] = l]
Slot(p) == job[p].next                  \* scheduled_for; Run now has its own
AfterJob(p) == IF p \in Ticks THEN "list" ELSE "idle"

Forget(p) ==
    /\ at' = [at EXCEPT ![p] = 0]
    /\ job' = [job EXCEPT ![p] = Blank]
    /\ cur' = [cur EXCEPT ![p] = 0]
    /\ todo' = [todo EXCEPT ![p] = {}]
    /\ seen' = [seen EXCEPT ![p] = "queued"]

NewRun(p, status, task) ==
    [status |-> status, slot |-> Slot(p), task |-> task, created |-> now, mails |-> 0]

-----------------------------------------------------------------------------
(* Mutant: a job is due only after its instant has passed. *)
TickReadStrict(p) ==
    /\ pc[p] = "idle"
    /\ at' = [at EXCEPT ![p] = now]
    /\ IF enabled /\ nextRun # None /\ nextRun < now
       THEN Goto(p, "claim") /\ job' = [job EXCEPT ![p] = Fetched]
       ELSE Goto(p, "list") /\ UNCHANGED job
    /\ UNCHANGED <<now, row, runs, engine, cur, todo, seen, requests, faults, history>>

(* run_due_jobs: what is due.                                              *)
TickRead(p) ==
    /\ pc[p] = "idle"
    /\ at' = [at EXCEPT ![p] = now]
    /\ IF enabled /\ nextRun # None /\ nextRun <= now
       THEN Goto(p, "claim") /\ job' = [job EXCEPT ![p] = Fetched]
       ELSE Goto(p, "list") /\ UNCHANGED job
    /\ UNCHANGED <<now, row, runs, engine, cur, todo, seen, requests, faults, history>>

(* compute_next_run raised: the row is disabled. *)
DisableInvalid(p) ==
    /\ pc[p] = "claim" /\ Malformed(job[p].cadence)
    /\ enabled' = FALSE
    /\ lastStatus' = "invalid"
    /\ Goto(p, "list")
    /\ UNCHANGED <<now, cadence, nextRun, totalRuns, runs, engine, local,
                   requests, faults, history>>

(* The catch-up policy, decided from what the tick holds. *)
Decided(p) ==
    IF CatchUpSkip /\ missed_periods(job[p].cadence, Slot(p), at[p]) >= 1
    THEN "skip" ELSE "fire"

(* The overlap guard comes first. *)
Guarded(p) == IF AllowOverlap THEN Decided(p) ELSE "guard"

(* Mutant: the UPDATE is not conditional on the observed value. *)
BlindClaim(p) ==
    /\ pc[p] = "claim" /\ ~Malformed(job[p].cadence)
    /\ nextRun' = next_run(job[p].cadence, at[p])
    /\ claimed' = claimed \cup {Slot(p)}
    /\ reclaimed' = reclaimed \cup (claimed \cap {Slot(p)})
    /\ Goto(p, Guarded(p))
    /\ UNCHANGED <<now, cadence, enabled, lastStatus, totalRuns, runs, engine,
                   local, requests, faults, rewound, lost, given>>

(* The conditional UPDATE: only the tick that still sees the value it read *)
(* moves next_run_at.  It does not look at `enabled' again.                *)
Claim(p) ==
    /\ pc[p] = "claim" /\ ~Malformed(job[p].cadence)
    /\ IF nextRun = Slot(p)
       THEN /\ nextRun' = next_run(job[p].cadence, at[p])
            /\ claimed' = claimed \cup {Slot(p)}
            /\ reclaimed' = reclaimed \cup (claimed \cap {Slot(p)})
            /\ Goto(p, Guarded(p))
       ELSE /\ Goto(p, "list")
            /\ UNCHANGED <<nextRun, claimed, reclaimed>>
    /\ UNCHANGED <<now, cadence, enabled, lastStatus, totalRuns, runs, engine,
                   local, requests, faults, rewound, lost, given>>

(* _previous_run_active, first query: the newest QUEUED run with a task.   *)
Queued == {i \in DOMAIN runs : runs[i].status = "queued" /\ runs[i].task # NoTask}
Newest(S) == CHOOSE i \in S : \A j \in S : j <= i
Stale(p, i) == runs[i].created + StaleAfter < at[p]

FindPrevious(p) ==
    /\ pc[p] = "guard"
    /\ IF Queued = {} \/ Stale(p, Newest(Queued))
       THEN Goto(p, Decided(p)) /\ UNCHANGED cur
       ELSE Goto(p, "engine") /\ cur' = [cur EXCEPT ![p] = Newest(Queued)]
    /\ UNCHANGED <<now, row, runs, engine, at, job, todo, seen, requests, faults, history>>

(* Mutant: the guard's answer is ignored. *)
AskEngineIgnored(p) ==
    /\ pc[p] = "engine"
    /\ Goto(p, Decided(p))
    /\ UNCHANGED <<now, row, runs, engine, local, requests, faults, history>>

(* _previous_run_active, second query: has that run finished?              *)
AskEngine(p) ==
    /\ pc[p] = "engine"
    /\ Goto(p, IF engine[runs[cur[p]].task] = "READY" THEN "skip" ELSE Decided(p))
    /\ UNCHANGED <<now, row, runs, engine, local, requests, faults, history>>

(* _record a SKIPPED run: overlapping or missed. *)
RecordSkip(p) ==
    /\ pc[p] = "skip"
    /\ runs' = Append(runs, NewRun(p, "skipped", NoTask))
    /\ Goto(p, "list")
    /\ UNCHANGED <<now, row, engine, local, requests, faults, history>>

-----------------------------------------------------------------------------
(* enqueue_and_record, shared by the tick and by Run now.                  *)
Enqueue(p) ==
    /\ pc[p] = "fire"
    /\ engine' = Append(engine, "READY")
    /\ cur' = [cur EXCEPT ![p] = Len(engine')]
    /\ Goto(p, "record")
    /\ UNCHANGED <<now, row, runs, at, job, todo, seen, requests, faults, history>>

RecordQueued(p) ==
    /\ pc[p] = "record"
    /\ runs' = Append(runs, NewRun(p, "queued", cur[p]))
    /\ Goto(p, "bump")
    /\ UNCHANGED <<now, row, engine, local, requests, faults, history>>

(* The F() update of the bookkeeping columns. *)
Bump(p) ==
    /\ pc[p] = "bump"
    /\ lastStatus' = "queued"
    /\ totalRuns' = totalRuns + 1
    /\ Goto(p, AfterJob(p))
    /\ UNCHANGED <<now, cadence, enabled, nextRun, runs, engine, local,
                   requests, faults, history>>

(* The enqueue raised: the task path does not resolve, or anything else.   *)
(* A tick records the failure; Run now shows it to the operator.           *)
EnqueueFails(p) ==
    /\ pc[p] = "fire" /\ faults < MaxFaults
    /\ faults' = faults + 1
    /\ IF p \in Ticks THEN Goto(p, "badrec") \/ Goto(p, "failrec")
                      ELSE Goto(p, "idle")
    /\ UNCHANGED <<now, row, runs, engine, local, requests, history>>

(* Mutant: the other exceptions leave no run row. *)
RecordUnresolvableOnly(p) ==
    /\ pc[p] \in {"failrec", "badrec"}
    /\ runs' = IF pc[p] = "badrec" THEN Append(runs, NewRun(p, "failed", NoTask)) ELSE runs
    /\ Goto(p, IF pc[p] = "failrec" THEN "failset" ELSE "badset")
    /\ UNCHANGED <<now, row, engine, local, requests, faults, history>>

(* The except blocks: a FAILED run, then the job's own columns. *)
RecordFailed(p) ==
    /\ pc[p] \in {"failrec", "badrec"}
    /\ runs' = Append(runs, NewRun(p, "failed", NoTask))
    /\ Goto(p, IF pc[p] = "failrec" THEN "failset" ELSE "badset")
    /\ UNCHANGED <<now, row, engine, local, requests, faults, history>>

SetFailed(p) ==
    /\ pc[p] \in {"failset", "badset"}
    /\ enabled' = (enabled /\ pc[p] = "failset")
    /\ lastStatus' = IF pc[p] = "failset" THEN "failed" ELSE "invalid"
    /\ Goto(p, "list")
    /\ UNCHANGED <<now, cadence, nextRun, totalRuns, runs, engine, local,
                   requests, faults, history>>

-----------------------------------------------------------------------------
(* Mutant: the limit cuts off all runs but the newest. *)
ListNewest(p) ==
    /\ pc[p] = "list"
    /\ todo' = [todo EXCEPT ![p] = IF Queued = {} THEN {} ELSE {Newest(Queued)}]
    /\ Goto(p, "each")
    /\ UNCHANGED <<now, row, runs, engine, at, job, cur, seen, requests, faults, history>>

(* reconcile_run_outcomes, which follows every tick.                       *)
ListQueued(p) ==
    /\ pc[p] = "list"
    /\ todo' = [todo EXCEPT ![p] = Queued]
    /\ Goto(p, "each")
    /\ UNCHANGED <<now, row, runs, engine, at, job, cur, seen, requests, faults, history>>

(* What reconcile calls the outcome of a chain. *)
Terminal(s) == IF s = "SUCCESSFUL" THEN "success" ELSE "failed"
Outcome(i) == Terminal(engine[runs[i].task])

(* A run still unfinished is passed over. *)
ReadOutcome(p) ==
    /\ pc[p] = "each" /\ todo[p] # {}
    /\ todo' = [todo EXCEPT ![p] = @ \ {Newest(@)}]
    /\ IF engine[runs[Newest(todo[p])].task] = "READY"
       THEN UNCHANGED <<cur, seen, pc>>
       ELSE /\ cur' = [cur EXCEPT ![p] = Newest(todo[p])]
            /\ seen' = [seen EXCEPT ![p] = Outcome(Newest(todo[p]))]
            /\ Goto(p, "save")
    /\ UNCHANGED <<now, row, runs, engine, at, job, requests, faults, history>>

(* Mutant: the outcome is written on the job's newest run. *)
SaveOnNewest(p) ==
    /\ pc[p] = "save"
    /\ runs' = [runs EXCEPT ![Len(runs)].status = seen[p]]
    /\ Goto(p, "latest")
    /\ UNCHANGED <<now, row, engine, local, requests, faults, history>>

(* run.save(update_fields=[...]): unconditional, on a row and with an      *)
(* outcome read some time ago.                                             *)
SaveOutcome(p) ==
    /\ pc[p] = "save"
    /\ runs' = [runs EXCEPT ![cur[p]].status = seen[p]]
    /\ Goto(p, "latest")
    /\ UNCHANGED <<now, row, engine, local, requests, faults, history>>

AfterStatus(p) == IF seen[p] = "failed" THEN "mail" ELSE "each"

(* Is this the job's most recent run? *)
CheckLatest(p) ==
    /\ pc[p] = "latest"
    /\ Goto(p, IF cur[p] = Len(runs) THEN "status" ELSE AfterStatus(p))
    /\ UNCHANGED <<now, row, runs, engine, local, requests, faults, history>>

SetStatus(p) ==
    /\ pc[p] = "status"
    /\ lastStatus' = seen[p]
    /\ Goto(p, AfterStatus(p))
    /\ UNCHANGED <<now, cadence, enabled, nextRun, totalRuns, runs, engine,
                   local, requests, faults, history>>

(* _notify_failure, with recipients configured. *)
NotifyFailure(p) ==
    /\ pc[p] = "mail"
    /\ runs' = [runs EXCEPT ![cur[p]].mails = @ + 1]
    /\ Goto(p, "each")
    /\ UNCHANGED <<now, row, engine, local, requests, faults, history>>

TickEnds(p) ==
    /\ pc[p] = "each" /\ todo[p] = {}
    /\ Goto(p, "idle")
    /\ Forget(p)
    /\ UNCHANGED <<now, row, runs, engine, requests, faults, history>>

-----------------------------------------------------------------------------
(* Staff requests.  Run now asks neither the clock nor the overlap guard.  *)
RunNow(o) ==
    /\ pc[o] = "idle" /\ requests < MaxRequests
    /\ requests' = requests + 1
    /\ Goto(o, "fire")
    /\ UNCHANGED <<now, row, runs, engine, local, faults, history>>

(* The edit form (and PATCH) loads the row ... *)
EditRead(o) ==
    /\ Edits
    /\ pc[o] = "idle" /\ requests < MaxRequests
    /\ requests' = requests + 1
    /\ Goto(o, "edit")
    /\ job' = [job EXCEPT ![o] = Fetched]
    /\ UNCHANGED <<now, row, runs, engine, at, cur, todo, seen, faults, history>>

(* Mutant: a changed cadence is seeded with the current instant. *)
EditSeedsNow(o) ==
    /\ pc[o] = "edit"
    /\ \E c \in {k \in Cadences : ~Malformed(k)}, e \in BOOLEAN :
        LET reseed == e /\ (job[o].next = None \/ c # cadence)
        IN  /\ cadence' = c
            /\ enabled' = e
            /\ nextRun' = IF reseed THEN now ELSE job[o].next
            /\ rewound' = IF ~reseed /\ job[o].next # nextRun
                          THEN rewound \cup {job[o].next} ELSE rewound
    /\ lastStatus' = job[o].status
    /\ totalRuns' = job[o].total
    /\ job' = [job EXCEPT ![o] = Blank]
    /\ Goto(o, "idle")
    /\ UNCHANGED <<now, runs, engine, at, cur, todo, seen, requests, faults,
                   claimed, reclaimed, lost, given>>

(* ... and saves every column of the instance it holds.  save() re-seeds   *)
(* next_run_at when the row has none or the cadence differs from the       *)
(* stored one; any other next_run_at is written back as it was read.       *)
EditSave(o) ==
    /\ pc[o] = "edit"
    /\ \E c \in {k \in Cadences : ~Malformed(k)}, e \in BOOLEAN :
        LET reseed == e /\ (job[o].next = None \/ c # cadence)
        IN  /\ cadence' = c
            /\ enabled' = e
            /\ nextRun' = IF reseed THEN next_run(c, now) ELSE job[o].next
            /\ rewound' = IF ~reseed /\ job[o].next # nextRun
                          THEN rewound \cup {job[o].next} ELSE rewound
    /\ lastStatus' = job[o].status
    /\ totalRuns' = job[o].total
    /\ job' = [job EXCEPT ![o] = Blank]
    /\ Goto(o, "idle")
    /\ UNCHANGED <<now, runs, engine, at, cur, todo, seen, requests, faults,
                   claimed, reclaimed, lost, given>>

-----------------------------------------------------------------------------
(* Failures.                                                               *)
Unrecorded == {"guard", "engine", "skip", "fire", "record", "failrec", "badrec"}

Loses(p, where) ==
    lost' = IF p \in Ticks /\ pc[p] \in where THEN lost \cup {Slot(p)} ELSE lost

(* Where the exception of a failed statement lands: in enqueue_and_record  *)
(* the tick's except block; elsewhere in the job's processing the per-job  *)
(* handler of run_due_jobs; around a notification the one of               *)
(* _notify_failure; anywhere else nobody's, and the process gives up.      *)
Handler(p) ==
    CASE pc[p] \in {"record", "bump"} /\ p \in Ticks -> "failrec"
      [] pc[p] \in {"claim", "guard", "skip", "failrec", "badrec", "failset",
                    "badset"} -> "list"
      [] pc[p] = "mail" -> "each"
      [] OTHER -> "idle"

StatementFails(p) ==
    /\ pc[p] \notin {"idle", "fire", "engine", "each"} /\ faults < MaxFaults
    /\ faults' = faults + 1
    /\ Goto(p, Handler(p))
    /\ IF Handler(p) = "idle" THEN Forget(p) ELSE UNCHANGED local
    /\ Loses(p, {"guard", "skip", "failrec", "badrec"})
    /\ UNCHANGED <<now, row, runs, engine, requests, claimed, reclaimed, rewound, given>>

(* _engine_result swallows the exception and answers "unknown": the guard  *)
(* takes the run for finished, reconcile passes over it.                   *)
EngineReadFails(p) ==
    /\ \/ pc[p] = "engine" /\ Goto(p, Decided(p)) /\ UNCHANGED todo
       \/ /\ pc[p] = "each" /\ todo[p] # {}
          /\ todo' = [todo EXCEPT ![p] = @ \ {Newest(@)}]
          /\ UNCHANGED pc
    /\ faults < MaxFaults
    /\ faults' = faults + 1
    /\ UNCHANGED <<now, row, runs, engine, at, job, cur, seen, requests, history>>

(* The process is killed; the next trigger starts afresh. *)
Crash(p) ==
    /\ pc[p] # "idle" /\ faults < MaxFaults
    /\ faults' = faults + 1
    /\ Goto(p, "idle")
    /\ Forget(p)
    /\ Loses(p, Unrecorded)
    /\ UNCHANGED <<now, row, runs, engine, requests, claimed, reclaimed, rewound, given>>

-----------------------------------------------------------------------------
Clock ==
    /\ now < Horizon
    /\ now' = now + 1
    /\ UNCHANGED <<row, runs, engine, pc, local, requests, faults, history>>

Says(t, s) ==
    /\ engine' = [engine EXCEPT ![t] = s]
    /\ given' = IF s = "READY" THEN given ELSE given \cup {<<t, Terminal(s)>>}
    /\ UNCHANGED <<now, row, runs, pc, local, requests, claimed, reclaimed, rewound, lost>>

(* The task engine brings a chain to its end, if a worker is alive. *)
EngineFinishes ==
    \E t \in DOMAIN engine, s \in {"SUCCESSFUL", "FAILED"} :
        engine[t] = "READY" /\ Says(t, s) /\ UNCHANGED faults

(* An end that does not last: a worker given up for lost returns with a    *)
(* success or a failure that is retried, a forced stop fails a success.    *)
EngineRevises ==
    \E t \in DOMAIN engine, s \in {"READY", "SUCCESSFUL", "FAILED"} :
        /\ engine[t] \notin {"READY", s} /\ faults < MaxFaults
        /\ Says(t, s)
        /\ faults' = faults + 1

Fire(p) == Enqueue(p) \/ RecordQueued(p) \/ Bump(p)

TickStep(p) ==
    \/ TickRead(p) \/ DisableInvalid(p) \/ Claim(p) \/ FindPrevious(p)
    \/ AskEngine(p) \/ RecordSkip(p) \/ Fire(p) \/ RecordFailed(p) \/ SetFailed(p)
    \/ ListQueued(p) \/ ReadOutcome(p) \/ SaveOutcome(p) \/ CheckLatest(p)
    \/ SetStatus(p) \/ NotifyFailure(p) \/ TickEnds(p)

RequestStep(o) == RunNow(o) \/ EditRead(o) \/ EditSave(o) \/ Fire(o)

Fault(p) == EnqueueFails(p) \/ StatementFails(p) \/ EngineReadFails(p) \/ Crash(p)

Next ==
    \/ Clock
    \/ EngineFinishes
    \/ EngineRevises
    \/ \E p \in Ticks : TickStep(p)
    \/ \E o \in Operators : RequestStep(o)
    \/ \E p \in Procs : Fault(p)

Spec == Init /\ [][Next]_vars

(* Cron keeps calling and a started tick keeps going; nothing is assumed   *)
(* of the clock, of the task engine or of the operators.                   *)
LiveSpec == Spec /\ \A p \in Ticks : WF_vars(TickStep(p))

-----------------------------------------------------------------------------
Labels ==
    {"idle", "claim", "guard", "engine", "skip", "fire", "record", "bump",
     "failrec", "badrec", "failset", "badset", "list", "each", "save", "latest",
     "status", "mail", "edit"}

RowOK ==
    /\ now \in Nat
    /\ cadence \in Cadences
    /\ enabled \in BOOLEAN
    /\ nextRun \in Instants
    /\ lastStatus \in RunStatus \cup {"", "invalid"}
    /\ totalRuns \in Nat
RunsOK == runs \in Seq(RunType) /\ engine \in Seq({"READY", "SUCCESSFUL", "FAILED"})
PlacesOK == /\ pc \in [Procs -> Labels] /\ at \in [Procs -> Nat] /\ cur \in [Procs -> Nat]
            /\ seen \in [Procs -> RunStatus]
HoldingsOK ==
    job \in [Procs -> JobType] /\ todo \in [Procs -> SUBSET (1..Len(runs))]
HistoryOK ==
    /\ requests \in Nat /\ faults \in Nat
    /\ claimed \subseteq Nat /\ reclaimed \subseteq claimed
    /\ rewound \subseteq Instants /\ lost \subseteq Instants
    /\ given \subseteq Nat \X Outcomes

(* The columns, rows and local variables hold what the code puts in them.  *)
TypeOK == RowOK /\ RunsOK /\ PlacesOK /\ HoldingsOK /\ HistoryOK

(* A slot is claimed, and so fired, more than once only if a save from the *)
(* edit form had put back a next_run_at no later than it: among ticks      *)
(* alone, however many overlap and however long each is paused, the        *)
(* conditional UPDATE lets one through per slot.                           *)
OnlyRewindsReclaim ==
    \A s \in reclaimed : \E r \in rewound : r # None /\ r <= s

(* What services.py says of the claim: the same slot is never fired twice. *)
NeverDoubleFires == reclaimed = {}

InFlight(s) == \E p \in Ticks : pc[p] \in Unrecorded /\ Slot(p) = s

(* A claimed slot leaves a run row (queued, skipped or failed), unless the *)
(* tick that claimed it is still working on it, was killed, or failed on   *)
(* the insert of that very row: an enqueue that raises is never silent.    *)
ClaimLeavesRun ==
    \A s \in claimed :
        \/ \E i \in DOMAIN runs : runs[i].slot = s
        \/ InFlight(s)
        \/ s \in lost

Unfinished ==
    {i \in DOMAIN runs : /\ runs[i].task # NoTask
                         /\ engine[runs[i].task] = "READY"
                         /\ runs[i].created + StaleAfter >= now}

(* With a single trigger, no Run now and no failure, a job that does not   *)
(* allow overlap has at most one fresh unfinished run: the guard's two     *)
(* reads and the late insert of the run row leave no gap.                  *)
OneRunAtATime ==
    Cardinality(Ticks) = 1 /\ requests = 0 /\ faults = 0 /\ ~AllowOverlap =>
        Cardinality(Unfinished) <= 1

(* A run's status is written only with an outcome that its own chain has   *)
(* had, and a settled one is turned into the other only if the chain's own *)
(* outcome was revised: no reconciler, however stale the run and the       *)
(* outcome it holds, takes an outcome back or writes it on another run.    *)
OutcomeFollowsChain ==
    [][\A i \in DOMAIN runs : runs'[i].status # runs[i].status =>
            /\ <<runs[i].task, runs'[i].status>> \in given
            /\ \/ runs[i].status = "queued"
               \/ <<runs[i].task, runs[i].status>> \in given]_vars

(* "One failure email": a failed run is reported by one email.             *)
OneFailureMail == \A i \in DOMAIN runs : runs[i].mails <= 1

(* last_status is never written from a run that is no longer the newest.   *)
StragglerNeverOverwrites ==
    [][\A p \in Ticks : SetStatus(p) => cur[p] = Len(runs)]_vars

(* The job shows the outcome of its previous run: once every fired run is  *)
(* settled and every process rests, last_status no longer says "queued".   *)
LastStatusSettles ==
    (\A p \in Procs : pc[p] = "idle") /\ Queued = {} => lastStatus # "queued"

(* A due, enabled job is served: some tick claims the slot, or the row is  *)
(* disabled or rescheduled.                                                *)
DueIsServed ==
    \A s \in 0..Horizon :
        (enabled /\ nextRun = s /\ now >= s) ~> ~(enabled /\ nextRun = s)

(* The outcome of a fired run reaches its row, whatever failed on the way, *)
(* unless the chain turns out to be unfinished after all.                  *)
OutcomeReachesRun ==
    \A i \in 1..(Horizon + MaxRequests) :
        (i \in Queued /\ engine[runs[i].task] # "READY")
            ~> \/ i \in DOMAIN runs /\ runs[i].status \in {"success", "failed"}
               \/ i \in Queued /\ engine[runs[i].task] = "READY"

-----------------------------------------------------------------------------
(* The inductive strengthening of OnlyRewindsReclaim.  A tick claims only  *)
(* a slot that was due on its own clock, which is never ahead of the wall  *)
(* clock ...                                                               *)
Held ==
    /\ \A p \in Procs : at[p] <= now
    /\ \A p \in Ticks : pc[p] = "claim" =>
            job[p].next \in Nat /\ job[p].next <= at[p] /\ job[p].cadence \in Cadences

(* ... so claimed slots are past, and next_run_at is beyond all of them    *)
(* unless a stale save brought it back ...                                 *)
CursorAhead ==
    \A s \in claimed :
        /\ s <= now
        /\ nextRun # None /\ nextRun <= s => \E r \in rewound : r # None /\ r <= s

(* ... which only the edit form does. *)
OnlyEditsRewind == ~Edits => rewound = {} /\ \A p \in Procs : pc[p] # "edit"

ClaimInv == TypeOK /\ Held /\ CursorAhead /\ OnlyRewindsReclaim /\ OnlyEditsRewind
=============================================================================

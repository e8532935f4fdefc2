----------------------------- MODULE TaskQueue -----------------------------
(***************************************************************************)
(* The reliable task queue of apps/tasks: django-tasks-db rows, the worker *)
(* processes that claim and run them, the heartbeat thread and reaper that *)
(* every worker also is, the retry chains (TaskAttempt) and the record of  *)
(* attempts that completed after they had been declared lost.              *)
(*                                                                         *)
(* Each database statement is one step.  A transaction.atomic() block is   *)
(* one step.  A process may pause between any two of its steps.            *)
(*                                                                         *)
(* The columns of DBTaskResult are the functions r...; those of            *)
(* TaskAttempt the functions t...; each is indexed by the result id.       *)
(***************************************************************************)
EXTENDS Naturals, FiniteSets

CONSTANTS
    Workers,        \* worker incarnations: one per process ever started
    Commands,       \* processes running manage.py reap_tasks
    Roots,          \* results enqueued by application code
    Results,        \* every result id: Roots and the ids retries draw
    Raised,         \* exception classes a task body may raise
    RetryOn,        \* the policy's retry_on, as a subset of Raised
    Declared,       \* does the task carry an explicit @retry_policy?
    PolicyAttempts, \* RetryPolicy.attempts()
    RetryLost,      \* RetryPolicy.retry_lost
    Pins,           \* budgets a caller may pin on a chain, or None
    MaxFaults,      \* bound: process crashes and failed database statements
    Mortal,         \* bound: workers that may be killed
    Stoppable,      \* bound: workers that may be sent stop signals
    Sweepers,       \* bound: processes whose reaper passes are explored
    WindowCloses,   \* may the repair and late-completion windows elapse?
    None

ASSUME TaskAssumption ==
    /\ Roots \subseteq Results
    /\ RetryOn \subseteq Raised
    /\ Workers \cap Commands = {}
    /\ Mortal \subseteq Workers /\ Stoppable \subseteq Workers
    /\ Sweepers \subseteq Workers \cup Commands
    /\ Declared \in BOOLEAN /\ RetryLost \in BOOLEAN /\ WindowCloses \in BOOLEAN
    /\ ~Declared => RetryLost      \* DEFAULT_POLICY retries a worker death
    /\ PolicyAttempts \in Nat \ {0}
    /\ MaxFaults \in Nat
    /\ Pins \subseteq (Nat \ {0}) \cup {None}
    /\ None \notin Nat /\ None \notin Workers /\ None \notin Results
    /\ Raised \cap {None, "WorkerLost", "RetrySuperseded", "SystemExit"} = {}
    /\ None \notin {"WorkerLost", "RetrySuperseded", "SystemExit"}
    /\ None \notin {"first", "failed", "lost", "interrupted"}

Procs == Workers \cup Commands
Main(w) == <<w, "main">>
Sweep(p) == <<p, "sweep">>
Mains == Workers \X {"main"}
Sweeps == Procs \X {"sweep"}
Threads == Mains \cup Sweeps

VARIABLES
    rstatus,    \* DBTaskResult.status; "NONE" before the row exists
    rexc,       \* exception_class_path
    rworker,    \* worker_ids[-1]; None while the row was never claimed
    rage,       \* age of started_at (RUNNING) or finished_at (FAILED)
    troot,      \* TaskAttempt.root_id; the row itself when unrecorded
    tparent,    \* TaskAttempt.parent_id
    tattempt,   \* TaskAttempt.attempt
    tcause,     \* TaskAttempt.cause
    tmax,       \* TaskAttempt.max_attempts
    tcompleted, \* TaskAttempt.parent_completed_at is set
    tcancelled, \* TaskAttempt.retry_cancelled
    texpired,   \* created_at is older than LATE_COMPLETION_WINDOW
    hb,         \* WorkerHeartbeat row of each incarnation
    missed,     \* HeartbeatThread.missed_beats
    pc,         \* where each thread stands
    ret,        \* where a sweep thread's subroutine returns to
    cur,        \* the result a thread is working on
    todo,       \* results left in the loop of a sweep thread
    dcause,     \* the cause _decide returned to a thread
    stopping,   \* workers that received a first stop signal
    faults,     \* crashes and database errors so far
    reported    \* history: results whose worker wrote an outcome

rowVars == <<rstatus, rexc, rworker, rage>>
attVars == <<troot, tparent, tattempt, tcause, tmax, tcompleted, tcancelled, texpired>>
hbVars == <<hb, missed>>
threadVars == <<pc, ret, cur, todo, dcause>>
vars == <<rowVars, attVars, hbVars, threadVars, stopping, faults, reported>>

RowStatus == {"NONE", "READY", "RUNNING", "SUCCESSFUL", "FAILED"}
ExcPath == Raised \cup {None, "WorkerLost", "RetrySuperseded", "SystemExit"}
Cause == {"first", "failed", "lost", "interrupted"}
MainPC == {"unborn", "boot", "idle", "exec", "late", "cancel", "flag", "decide",
           "insert", "leaving", "gone"}
SweepPC == {"off", "wait", "find", "reap", "decide", "insert", "repairing",
            "detecting", "late", "cancel", "flag"}

TypeOK ==
    /\ rstatus \in [Results -> RowStatus]
    /\ rexc \in [Results -> ExcPath]
    /\ rworker \in [Results -> Workers \cup {None}]
    /\ rage \in [Results -> {"fresh", "due", "old"}]
    /\ troot \in [Results -> Results]
    /\ tparent \in [Results -> Results \cup {None}]
    /\ tattempt \in [Results -> Nat]
    /\ tcause \in [Results -> Cause]
    /\ tmax \in [Results -> (Nat \ {0}) \cup {None}]
    /\ tcompleted \in [Results -> BOOLEAN]
    /\ tcancelled \in [Results -> BOOLEAN]
    /\ texpired \in SUBSET Results
    /\ hb \in [Workers -> {"none", "fresh", "stale", "stopped"}]
    /\ missed \in [Workers -> 0..2]
    /\ pc \in [Threads -> MainPC \cup SweepPC]
    /\ ret \in [Sweeps -> {"reap", "repairing"}]
    /\ cur \in [Threads -> Results \cup {None}]
    /\ todo \in [Sweeps -> SUBSET Results]
    /\ dcause \in [Threads -> Cause \cup {None}]
    /\ stopping \in SUBSET Workers
    /\ faults \in 0..MaxFaults
    /\ reported \in SUBSET Results

Init ==
    /\ rstatus = [r \in Results |-> "NONE"]
    /\ rexc = [r \in Results |-> None]
    /\ rworker = [r \in Results |-> None]
    /\ rage = [r \in Results |-> "fresh"]
    /\ troot = [r \in Results |-> r]
    /\ tparent = [r \in Results |-> None]
    /\ tattempt = [r \in Results |-> 1]
    /\ tcause = [r \in Results |-> "first"]
    /\ tmax = [r \in Results |-> None]
    /\ tcompleted = [r \in Results |-> FALSE]
    /\ tcancelled = [r \in Results |-> FALSE]
    /\ texpired = {}
    /\ hb = [w \in Workers |-> "none"]
    /\ missed = [w \in Workers |-> 0]
    /\ pc = [t \in Threads |-> IF t \in Mains THEN "unborn"
                               ELSE IF t[1] \in Commands THEN "wait" ELSE "off"]
    /\ ret = [t \in Sweeps |-> "reap"]
    /\ cur = [t \in Threads |-> None]
    /\ todo = [t \in Sweeps |-> {}]
    /\ dcause = [t \in Threads |-> None]
    /\ stopping = {}
    /\ faults = 0
    /\ reported = {}
-----------------------------------------------------------------------------
(* Retry chains: reliability.py.                                           *)

\* Mutant: no unique parent_id.
HasChildNever(r) == FALSE

HasChild(r) == \E c \in Results : tparent[c] = r

\* attempt_info and the budget of _decide: a pinned budget wins over the policy's.
Budget(r) == IF tmax[r] # None THEN tmax[r] ELSE PolicyAttempts

\* Mutant: the operator's pin gets the default policy as it is.
RetriesLostByDefault(r) == RetryLost

\* policy.retry_lost after the IMPLICIT_PINNED_POLICY substitution.
RetriesLost(r) == IF tmax[r] # None /\ ~Declared THEN FALSE ELSE RetryLost

Classify(r, cause) ==
    IF rexc[r] = "WorkerLost" THEN "lost"
    ELSE IF rexc[r] = "SystemExit" THEN "interrupted" ELSE cause

\* _decide: would a FAILED row be retried when a path asks with this cause?
Decides(r, cause) ==
    /\ rstatus[r] = "FAILED"
    /\ rexc[r] # "RetrySuperseded"
    /\ tattempt[r] < Budget(r)
    /\ IF Classify(r, cause) \in {"lost", "interrupted"}
       THEN RetriesLost(r)
       ELSE rexc[r] \in RetryOn

\* The cause a path passes to maybe_retry: the reaper says "lost", the rest "failed".
AskedCause(t) == IF t \in Sweeps /\ ret[t] = "reap" THEN "lost" ELSE "failed"

\* Where maybe_retry and _mark_superseded return to, and a thread going there:
\* the receiver is then done with its task, the sweep with one row.
Returns(t) == IF t \in Mains THEN "idle" ELSE ret[t]
LateReturns(t) == IF t \in Mains THEN "idle" ELSE "detecting"
Goes(t, to) == pc' = [pc EXCEPT ![t] = to] /\ UNCHANGED <<cur, dcause>>
GoesBack(t, to) ==
    /\ pc' = [pc EXCEPT ![t] = to]
    /\ cur' = [cur EXCEPT ![t] = None]
    /\ dcause' = [dcause EXCEPT ![t] = None]

\* maybe_retry up to the transaction: read the row and decide.
Decide(t) ==
    /\ pc[t] = "decide"
    /\ LET r == cur[t] IN
       \/ /\ Decides(r, AskedCause(t))
          /\ dcause' = [dcause EXCEPT ![t] = Classify(r, AskedCause(t))]
          /\ pc' = [pc EXCEPT ![t] = "insert"]
          /\ UNCHANGED cur
       \/ /\ ~Decides(r, AskedCause(t))
          /\ GoesBack(t, Returns(t))
    /\ UNCHANGED <<rowVars, attVars, hbVars, ret, todo, stopping, faults, reported>>

\* The enqueue and the TaskAttempt insert, one transaction: the unique
\* parent_id rolls both back when another path retried the attempt first.
Insert(t) ==
    /\ pc[t] = "insert"
    /\ LET r == cur[t] IN
       \/ /\ HasChild(r)
          /\ UNCHANGED <<rowVars, attVars>>
       \/ /\ ~HasChild(r)
          /\ \E n \in Results \ Roots :
                /\ rstatus[n] = "NONE"
                /\ rstatus' = [rstatus EXCEPT ![n] = "READY"]
                /\ troot' = [troot EXCEPT ![n] = troot[r]]
                /\ tparent' = [tparent EXCEPT ![n] = r]
                /\ tattempt' = [tattempt EXCEPT ![n] = tattempt[r] + 1]
                /\ tcause' = [tcause EXCEPT ![n] = dcause[t]]
                /\ tmax' = [tmax EXCEPT ![n] = tmax[r]]
          /\ UNCHANGED <<rexc, rworker, rage, tcompleted, tcancelled, texpired>>
    /\ GoesBack(t, Returns(t))
    /\ UNCHANGED <<hbVars, ret, todo, stopping, faults, reported>>

\* A retry that exists because the attempt r was reaped, not yet stamped.
UnstampedLostChild(c, r) == tparent[c] = r /\ tcause[c] = "lost" /\ ~tcompleted[c]

\* The conditional UPDATE of _mark_superseded.  In the receiver a miss goes on
\* to maybe_retry when the attempt failed; in the sweep to the next candidate.
Stamp(t) ==
    /\ pc[t] = "late"
    /\ LET r == cur[t] IN
       \/ \E c \in Results :
             /\ UnstampedLostChild(c, r)
             /\ tcompleted' = [tcompleted EXCEPT ![c] = TRUE]
             /\ Goes(t, "cancel")
       \/ /\ ~\E c \in Results : UnstampedLostChild(c, r)
          /\ \/ t \in Mains /\ rstatus[r] = "FAILED" /\ Goes(t, "decide")
             \/ ~(t \in Mains /\ rstatus[r] = "FAILED") /\ GoesBack(t, LateReturns(t))
          /\ UNCHANGED tcompleted
    /\ UNCHANGED <<rowVars, troot, tparent, tattempt, tcause, tmax, tcancelled, texpired,
                   hbVars, ret, todo, stopping, faults, reported>>

\* Mutant: the cancel does not look whether a worker has claimed the retry.
CancellableAlways(c) == rstatus[c] \in {"READY", "RUNNING"}

\* WHERE status = READY of the best-effort cancel.
Cancellable(c) == rstatus[c] = "READY"

Cancel(t) ==
    /\ pc[t] = "cancel"
    /\ \E c \in Results :
          /\ tparent[c] = cur[t]
          /\ \/ /\ Cancellable(c)
                /\ rstatus' = [rstatus EXCEPT ![c] = "FAILED"]
                /\ rexc' = [rexc EXCEPT ![c] = "RetrySuperseded"]
                /\ rage' = [rage EXCEPT ![c] = "fresh"]
                /\ Goes(t, "flag")
             \/ /\ ~Cancellable(c)
                /\ GoesBack(t, LateReturns(t))
                /\ UNCHANGED <<rstatus, rexc, rage>>
    /\ UNCHANGED <<rworker, attVars, hbVars, ret, todo, stopping, faults, reported>>

\* The separate UPDATE retry_cancelled = True.
Flag(t) ==
    /\ pc[t] = "flag"
    /\ tcancelled' = [c \in Results |-> tcancelled[c] \/ tparent[c] = cur[t]]
    /\ GoesBack(t, LateReturns(t))
    /\ UNCHANGED <<rowVars, troot, tparent, tattempt, tcause, tmax, tcompleted, texpired,
                   hbVars, ret, todo, stopping, faults, reported>>
-----------------------------------------------------------------------------
(* A worker's main thread: db_worker.Command.handle around upstream's loop. *)

\* register_worker, then the synchronous safe_reap before the loop starts.
StartWorker(w) ==
    /\ pc[Main(w)] = "unborn"
    /\ hb' = [hb EXCEPT ![w] = "fresh"]
    /\ pc' = [pc EXCEPT ![Main(w)] = "boot",
                         ![Sweep(w)] = IF w \in Sweepers THEN "find" ELSE "wait"]
    /\ UNCHANGED <<rowVars, attVars, missed, ret, cur, todo, dcause, stopping, faults,
                   reported>>

\* The startup pass returned: the heartbeat thread and the claim loop start.
EnterLoop(w) ==
    /\ pc[Main(w)] = "boot"
    /\ pc[Sweep(w)] = "wait"
    /\ pc' = [pc EXCEPT ![Main(w)] = "idle"]
    /\ UNCHANGED <<rowVars, attVars, hbVars, ret, cur, todo, dcause, stopping, faults,
                   reported>>

\* Upstream's DBTaskResult.claim().
Claim(w, r) ==
    /\ pc[Main(w)] = "idle"
    /\ w \notin stopping
    /\ rstatus[r] = "READY"
    /\ rstatus' = [rstatus EXCEPT ![r] = "RUNNING"]
    /\ rworker' = [rworker EXCEPT ![r] = w]
    /\ rage' = [rage EXCEPT ![r] = "fresh"]
    /\ cur' = [cur EXCEPT ![Main(w)] = r]
    /\ pc' = [pc EXCEPT ![Main(w)] = "exec"]
    /\ UNCHANGED <<rexc, attVars, hbVars, ret, todo, dcause, stopping, faults, reported>>

\* Upstream's set_successful / set_failed: an unconditional UPDATE, after which
\* the task_finished receiver starts.
WriteOutcome(w, status, exc) ==
    LET r == cur[Main(w)] IN
    /\ pc[Main(w)] = "exec"
    /\ rstatus' = [rstatus EXCEPT ![r] = status]
    /\ rexc' = [rexc EXCEPT ![r] = exc]
    /\ rage' = [rage EXCEPT ![r] = "fresh"]
    /\ reported' = reported \cup {r}
    /\ pc' = [pc EXCEPT ![Main(w)] = "late"]
    /\ UNCHANGED <<rworker, attVars, hbVars, ret, cur, todo, dcause, stopping, faults>>

Succeed(w) == WriteOutcome(w, "SUCCESSFUL", None)
Fail(w, e) == WriteOutcome(w, "FAILED", e)

\* A first stop signal lets the current task finish; a second one raises
\* SystemExit in the main thread, once (the signals are reset: a third kills).
StopSignal(w) ==
    /\ w \in Stoppable
    /\ pc[Main(w)] \in MainPC \ {"unborn", "boot", "leaving", "gone"}
    /\ w \notin stopping
    /\ stopping' = stopping \cup {w}
    /\ UNCHANGED <<rowVars, attVars, hbVars, threadVars, faults, reported>>

\* In the task's body: run_task catches it and fails the row.
ForceStop(w) ==
    /\ w \in stopping
    /\ WriteOutcome(w, "FAILED", "SystemExit")

\* Between the claim and the body, or in the receiver of a failure, which is
\* sent outside the try: it leaves the loop, and the row is as it is.
StopEscapes(w) ==
    LET r == cur[Main(w)] IN
    /\ w \in stopping
    /\ \/ pc[Main(w)] = "exec"
       \/ /\ pc[Main(w)] \in {"late", "cancel", "flag", "decide", "insert"}
          /\ rstatus[r] = "FAILED" /\ rexc[r] # "SystemExit"
    /\ GoesBack(Main(w), "idle")
    /\ UNCHANGED <<rowVars, attVars, hbVars, ret, todo, stopping, faults, reported>>

\* In the receiver of a success, which is sent inside the try (signals.py): the
\* task is failed after all and its receiver runs again.  Which half of Flag
\* was done depends on the moment.
StopOverturns(w) ==
    LET r == cur[Main(w)] IN
    /\ w \in stopping
    /\ pc[Main(w)] \in {"late", "cancel", "flag"} /\ rstatus[r] = "SUCCESSFUL"
    /\ rstatus' = [rstatus EXCEPT ![r] = "FAILED"]
    /\ rexc' = [rexc EXCEPT ![r] = "SystemExit"]
    /\ rage' = [rage EXCEPT ![r] = "fresh"]
    /\ pc' = [pc EXCEPT ![Main(w)] = "late"]
    /\ \/ UNCHANGED tcancelled
       \/ /\ pc[Main(w)] = "flag"
          /\ tcancelled' = [c \in Results |-> tcancelled[c] \/ tparent[c] = r]
    /\ UNCHANGED <<rworker, troot, tparent, tattempt, tcause, tmax, tcompleted, texpired,
                   hbVars, ret, cur, todo, dcause, stopping, faults, reported>>

\* The finally block: thread.stop() may time out with a pass still running,
\* then mark_stopped, which is best effort (a pruned row matches nothing).
MarkStopped(w) ==
    /\ pc[Main(w)] = "idle"
    /\ w \in stopping
    /\ \/ hb' = [hb EXCEPT ![w] = IF @ = "none" THEN "none" ELSE "stopped"]
       \/ UNCHANGED hb
    /\ pc' = [pc EXCEPT ![Main(w)] = "leaving"]
    /\ UNCHANGED <<rowVars, attVars, missed, ret, cur, todo, dcause, stopping, faults,
                   reported>>

\* The process ends and takes its daemon heartbeat thread with it.
Vanishes(w) ==
    /\ pc' = [pc EXCEPT ![Main(w)] = "gone", ![Sweep(w)] = "off"]
    /\ cur' = [cur EXCEPT ![Main(w)] = None, ![Sweep(w)] = None]
    /\ dcause' = [dcause EXCEPT ![Main(w)] = None, ![Sweep(w)] = None]
    /\ todo' = [todo EXCEPT ![Sweep(w)] = {}]
    /\ missed' = [missed EXCEPT ![w] = 0]
    /\ stopping' = stopping \ {w}

Exit(w) ==
    /\ pc[Main(w)] = "leaving"
    /\ Vanishes(w)
    /\ UNCHANGED <<rowVars, attVars, hb, ret, faults, reported>>

Alive(w) == pc[Main(w)] \notin {"unborn", "gone"}

\* SIGKILL or the OOM killer, between any two steps.
Crash(w) ==
    /\ w \in Mortal /\ Alive(w)
    /\ faults < MaxFaults
    /\ faults' = faults + 1
    /\ Vanishes(w)
    /\ UNCHANGED <<rowVars, attVars, hb, ret, reported>>
-----------------------------------------------------------------------------
(* Heartbeats and the reaper pass: heartbeat.py and reaper.py.             *)

MaxMissed == 2      \* MAX_MISSED_BEATS_BEFORE_YIELDING

Looping(w) == Alive(w) /\ pc[Main(w)] # "boot" /\ pc[Sweep(w)] = "wait"

\* beat(): refreshes last_seen_at of the row if it still exists, and never
\* clears stopped_at.  Every REAP_EVERY-th beat is followed by a pass.
Beat(w) ==
    /\ Looping(w)
    /\ hb' = [hb EXCEPT ![w] = IF @ = "stale" THEN "fresh" ELSE @]
    /\ missed' = [missed EXCEPT ![w] = 0]
    /\ \/ w \in Sweepers /\ pc' = [pc EXCEPT ![Sweep(w)] = "find"]
       \/ UNCHANGED pc
    /\ UNCHANGED <<rowVars, attVars, ret, cur, todo, dcause, stopping, faults, reported>>

\* The beat raised: count it, and reap only below the threshold.
BeatFails(w) ==
    /\ Looping(w)
    /\ faults < MaxFaults
    /\ faults' = faults + 1
    /\ missed' = [missed EXCEPT ![w] = IF @ < MaxMissed THEN @ + 1 ELSE @]
    /\ \/ /\ w \in Sweepers /\ missed'[w] < MaxMissed
          /\ pc' = [pc EXCEPT ![Sweep(w)] = "find"]
       \/ UNCHANGED pc
    /\ UNCHANGED <<rowVars, attVars, hb, ret, cur, todo, dcause, stopping, reported>>

\* manage.py reap_tasks, run by hand or from cron.
RunCommand(c) ==
    /\ pc[Sweep(c)] = "wait" /\ c \in Sweepers
    /\ pc' = [pc EXCEPT ![Sweep(c)] = "find"]
    /\ UNCHANGED <<rowVars, attVars, hbVars, ret, cur, todo, dcause, stopping, faults,
                   reported>>

\* LOST_AFTER_SECONDS elapse on the database clock without a beat.
GoStale(w) ==
    /\ hb[w] = "fresh"
    /\ hb' = [hb EXCEPT ![w] = "stale"]
    /\ UNCHANGED <<rowVars, attVars, missed, threadVars, stopping, faults, reported>>

\* Time passes for a row: RUNNING rows reach ORPHAN_SECONDS ("old"), FAILED rows
\* leave REPAIR_GRACE ("due") and then REPAIR_WINDOW ("old").
GrowOld(r) ==
    /\ \/ rstatus[r] = "RUNNING" /\ rage[r] = "fresh" /\ rage' = [rage EXCEPT ![r] = "old"]
       \/ rstatus[r] = "FAILED" /\ rage[r] = "fresh" /\ rage' = [rage EXCEPT ![r] = "due"]
       \/ /\ WindowCloses /\ rstatus[r] = "FAILED" /\ rage[r] = "due"
          /\ rage' = [rage EXCEPT ![r] = "old"]
    /\ UNCHANGED <<rstatus, rexc, rworker, attVars, hbVars, threadVars, stopping, faults,
                   reported>>

\* LATE_COMPLETION_WINDOW elapses for a retry.
Expire(c) ==
    /\ WindowCloses
    /\ tparent[c] # None /\ c \notin texpired
    /\ texpired' = texpired \cup {c}
    /\ UNCHANGED <<rowVars, troot, tparent, tattempt, tcause, tmax, tcompleted, tcancelled,
                   hbVars, threadVars, stopping, faults, reported>>

\* Mutant: no fallback for a claimant whose heartbeat row is gone.
LostByHeartbeat(r) == hb[rworker[r]] \in {"stopped", "stale"}

\* _lost_reason: may the row's claimant be presumed dead?
Lost(r) ==
    LET w == rworker[r] IN
    \/ hb[w] \in {"stopped", "stale"}
    \/ hb[w] = "none" /\ rage[r] = "old"

\* A worker's pass excludes its own incarnation; the command excludes nobody.
Excluded(p, r) == p = rworker[r]

\* find_lost_tasks: the RUNNING rows this pass will try to fail.
FindLost(p) ==
    /\ pc[Sweep(p)] = "find"
    /\ todo' = [todo EXCEPT ![Sweep(p)] =
                   {r \in Results : rstatus[r] = "RUNNING" /\ ~Excluded(p, r) /\ Lost(r)}]
    /\ ret' = [ret EXCEPT ![Sweep(p)] = "reap"]
    /\ pc' = [pc EXCEPT ![Sweep(p)] = "reap"]
    /\ UNCHANGED <<rowVars, attVars, hbVars, cur, dcause, stopping, faults, reported>>

\* Mutant: the reaper's UPDATE trusts the list it read earlier.
ReapableAlways(r) == TRUE

\* WHERE status = RUNNING of the reaper's UPDATE.
Reapable(r) == rstatus[r] = "RUNNING"

\* One iteration of the reap loop, up to maybe_retry.
Reap(p) ==
    LET t == Sweep(p) IN
    /\ pc[t] = "reap"
    /\ \E r \in todo[t] :
          /\ todo' = [todo EXCEPT ![t] = @ \ {r}]
          /\ \/ /\ Reapable(r)
                /\ rstatus' = [rstatus EXCEPT ![r] = "FAILED"]
                /\ rexc' = [rexc EXCEPT ![r] = "WorkerLost"]
                /\ rage' = [rage EXCEPT ![r] = "fresh"]
                /\ cur' = [cur EXCEPT ![t] = r]
                /\ pc' = [pc EXCEPT ![t] = "decide"]
             \/ /\ ~Reapable(r)
                /\ UNCHANGED <<rstatus, rexc, rage, cur, pc>>
    /\ UNCHANGED <<rworker, attVars, hbVars, ret, dcause, stopping, faults, reported>>

\* Mutant: the repair sweep leaves worker deaths to the reaper.
MissedFailure(r) ==
    /\ rstatus[r] = "FAILED" /\ rage[r] = "due"
    /\ ~HasChild(r)
    /\ rexc[r] \notin {"RetrySuperseded", "WorkerLost"}
    /\ PolicyAttempts > 1 \/ (tmax[r] # None /\ tmax[r] > 1)

\* repair_missed_retries: recent failures no attempt row names as its parent.
Missed(r) ==
    /\ rstatus[r] = "FAILED" /\ rage[r] = "due"
    /\ ~HasChild(r)
    /\ rexc[r] # "RetrySuperseded"
    /\ PolicyAttempts > 1 \/ (tmax[r] # None /\ tmax[r] > 1)

FindMissed(p) ==
    LET t == Sweep(p) IN
    /\ pc[t] = "reap" /\ todo[t] = {}
    /\ todo' = [todo EXCEPT ![t] = {r \in Results : Missed(r)}]
    /\ ret' = [ret EXCEPT ![t] = "repairing"]
    /\ pc' = [pc EXCEPT ![t] = "repairing"]
    /\ UNCHANGED <<rowVars, attVars, hbVars, cur, dcause, stopping, faults, reported>>

Repair(p) ==
    LET t == Sweep(p) IN
    /\ pc[t] = "repairing"
    /\ \E r \in todo[t] :
          /\ todo' = [todo EXCEPT ![t] = @ \ {r}]
          /\ cur' = [cur EXCEPT ![t] = r]
    /\ pc' = [pc EXCEPT ![t] = "decide"]
    /\ UNCHANGED <<rowVars, attVars, hbVars, ret, dcause, stopping, faults, reported>>

\* Mutant: a late attempt that failed is not a late completion.
CameBackSuccessful(r) ==
    /\ \E c \in Results \ texpired : UnstampedLostChild(c, r)
    /\ rstatus[r] = "SUCCESSFUL"

\* detect_late_completions: reaped and retried attempts whose row no longer
\* carries the reaper's verdict.
CameBack(r) ==
    /\ \E c \in Results \ texpired : UnstampedLostChild(c, r)
    /\ \/ rstatus[r] = "SUCCESSFUL"
       \/ rstatus[r] = "FAILED" /\ rexc[r] # "WorkerLost"

FindLate(p) ==
    LET t == Sweep(p) IN
    /\ pc[t] = "repairing" /\ todo[t] = {}
    /\ todo' = [todo EXCEPT ![t] = {r \in Results : CameBack(r)}]
    /\ pc' = [pc EXCEPT ![t] = "detecting"]
    /\ UNCHANGED <<rowVars, attVars, hbVars, ret, cur, dcause, stopping, faults, reported>>

Detect(p) ==
    LET t == Sweep(p) IN
    /\ pc[t] = "detecting"
    /\ \E r \in todo[t] :
          /\ todo' = [todo EXCEPT ![t] = @ \ {r}]
          /\ cur' = [cur EXCEPT ![t] = r]
    /\ pc' = [pc EXCEPT ![t] = "late"]
    /\ UNCHANGED <<rowVars, attVars, hbVars, ret, dcause, stopping, faults, reported>>

\* prune_heartbeats deletes rows unseen for HEARTBEAT_RETENTION: some of the
\* stopped or stale ones.  The pass is over.
Prune(p) ==
    LET t == Sweep(p) IN
    /\ pc[t] = "detecting" /\ todo[t] = {}
    /\ \E dead \in SUBSET {w \in Workers : hb[w] \in {"stopped", "stale"}} :
          hb' = [w \in Workers |-> IF w \in dead THEN "none" ELSE hb[w]]
    /\ pc' = [pc EXCEPT ![t] = "wait"]
    /\ UNCHANGED <<rowVars, attVars, missed, ret, cur, todo, dcause, stopping, faults, reported>>

\* A statement raises.  maybe_retry's callers catch it per row, the receiver
\* catches each half of itself, and anything else ends the pass (safe_reap).
DbError(t) ==
    /\ faults < MaxFaults
    /\ faults' = faults + 1
    /\ \/ /\ pc[t] \in {"decide", "insert"}
          /\ GoesBack(t, Returns(t))
          /\ UNCHANGED todo
       \/ /\ t \in Mains /\ pc[t] \in {"late", "cancel", "flag"}
          /\ \/ rstatus[cur[t]] = "FAILED" /\ Goes(t, "decide")
             \/ rstatus[cur[t]] # "FAILED" /\ GoesBack(t, "idle")
          /\ UNCHANGED todo
       \/ /\ t \in Sweeps
          /\ pc[t] \in {"find", "reap", "repairing", "detecting", "late", "cancel", "flag"}
          /\ GoesBack(t, "wait")
          /\ todo' = [todo EXCEPT ![t] = {}]
    /\ UNCHANGED <<rowVars, attVars, hbVars, ret, stopping, reported>>

\* Application code enqueues a task; a scheduled job pins its budget in the
\* same transaction (pin_max_attempts).
Enqueue(r, pin) ==
    /\ rstatus[r] = "NONE"
    /\ rstatus' = [rstatus EXCEPT ![r] = "READY"]
    /\ tmax' = [tmax EXCEPT ![r] = pin]
    /\ UNCHANGED <<rexc, rworker, rage, troot, tparent, tattempt, tcause, tcompleted,
                   tcancelled, texpired, hbVars, threadVars, stopping, faults, reported>>

Next ==
    \/ \E r \in Roots, pin \in Pins : Enqueue(r, pin)
    \/ \E w \in Workers :
          \/ StartWorker(w) \/ EnterLoop(w) \/ Succeed(w) \/ StopSignal(w)
          \/ ForceStop(w) \/ StopEscapes(w) \/ StopOverturns(w)
          \/ MarkStopped(w) \/ Exit(w) \/ Crash(w)
          \/ Beat(w) \/ BeatFails(w) \/ GoStale(w)
          \/ \E r \in Results : Claim(w, r)
          \/ \E e \in Raised : Fail(w, e)
    \/ \E c \in Commands : RunCommand(c)
    \/ \E p \in Procs :
          \/ FindLost(p) \/ Reap(p) \/ FindMissed(p) \/ Repair(p)
          \/ FindLate(p) \/ Detect(p) \/ Prune(p)
    \/ \E t \in Threads :
          \/ Decide(t) \/ Insert(t) \/ Stamp(t) \/ Cancel(t) \/ Flag(t) \/ DbError(t)
    \/ \E r \in Results : GrowOld(r) \/ Expire(r)

Spec == Init /\ [][Next]_vars
-----------------------------------------------------------------------------
(* Properties.                                                             *)

Exists(r) == rstatus[r] # "NONE"
Executed(r) == rworker[r] # None

\* However the signal receiver, every reaper and every repair sweep race, the
\* attempts of one chain form a line: no two share an attempt number, and none
\* is numbered past the chain's budget.  So a task body is started at most
\* max_attempts times per enqueue (maybe_retry, TaskAttempt.parent_id unique).
ChainsAreLinear ==
    /\ \A a, b \in Results :
          Exists(a) /\ Exists(b) /\ troot[a] = troot[b] /\ tattempt[a] = tattempt[b]
          => a = b
    /\ \A a \in Results : Exists(a) => tattempt[a] <= Budget(a)

\* A retry cancelled as superseded never ran, never will, and is never itself
\* retried: the cancel races the claim of the same row, and no retry path takes
\* a bookkeeping row as input (_mark_superseded, _decide, U4 in the tests).
CancelledStaysCancelled ==
    \A r \in Results : rexc[r] = "RetrySuperseded" =>
        rstatus[r] = "FAILED" /\ ~Executed(r) /\ ~HasChild(r)

\* "A worker that finishes the task at the same moment wins and nothing is
\* overwritten" (reaper.py): once a worker has written an outcome, no reaper and
\* no cancel ever replaces it.
OutcomeIsKept ==
    \A r \in reported : rstatus[r] \in {"SUCCESSFUL", "FAILED"}
                        /\ rexc[r] \notin {"WorkerLost", "RetrySuperseded"}

\* "When the reaper is the reason, it cannot run twice unnoticed" (reaper.py):
\* an attempt that completed although it was reaped and retried is stamped, or
\* its row still shows the sweep that it came back.
DoubleRunIsNoticeable ==
    \A r \in reported, c \in Results :
        tparent[c] = r /\ tcause[c] = "lost" /\ ~tcompleted[c] =>
            \/ CameBack(r)
            \/ c \in texpired

\* retry_cancelled is only ever claimed of a retry that did not run and whose
\* parent did complete, so "the task ran once" (reliability.py) is true.
CancelClaimIsTrue ==
    \A c \in Results : tcancelled[c] =>
        ~Executed(c) /\ tcompleted[c] /\ tparent[c] \in reported

\* "The operator control must never be more aggressive than the explicit
\* decorator" (IMPLICIT_PINNED_POLICY): under a pinned budget a task nobody
\* declared repeatable is repeated only after its own body raised, never after
\* its worker was lost or force-stopped inside it, whichever path asks.
PinRepeatsOnlyRaised ==
    ~Declared => \A c \in Results : tparent[c] # None /\ tmax[c] # None =>
        tparent[c] \in reported /\ rexc[tparent[c]] \in Raised

-----------------------------------------------------------------------------
(* The inductive invariant behind these properties.                        *)

\* What each status says about the rest of the row.
RowInv ==
    \A r \in Results :
        /\ rstatus[r] = "NONE" => tparent[r] = None /\ troot[r] = r /\ tattempt[r] = 1
        /\ rstatus[r] \in {"NONE", "READY"} => ~Executed(r) /\ rexc[r] = None
        /\ rstatus[r] = "RUNNING" => Executed(r) /\ rexc[r] = None
        /\ rstatus[r] \in {"NONE", "READY", "RUNNING"} => r \notin reported
        /\ rstatus[r] = "SUCCESSFUL" => Executed(r) /\ rexc[r] = None /\ r \in reported
        /\ rstatus[r] = "FAILED" =>
              \/ rexc[r] = "RetrySuperseded" /\ ~Executed(r) /\ r \notin reported
              \/ rexc[r] = "WorkerLost" /\ Executed(r) /\ r \notin reported
              \/ /\ rexc[r] \notin {"RetrySuperseded", "WorkerLost"}
                 /\ Executed(r) /\ r \in reported

\* Threads only work on rows that were claimed, and a sweep looking for late
\* completions only on rows their worker reported.
ThreadInv ==
    /\ \A t \in Threads : cur[t] # None => Executed(cur[t])
    /\ \A t \in Threads :
          /\ pc[t] \in {"exec", "decide", "insert", "late", "cancel", "flag"} => cur[t] # None
          /\ pc[t] = "insert" => tattempt[cur[t]] < Budget(cur[t]) /\ dcause[t] # None
          /\ pc[t] \in {"late", "cancel", "flag"} => cur[t] \in reported
    /\ \A t \in Sweeps :
          /\ \A r \in todo[t] : Executed(r)
          /\ pc[t] \in {"detecting", "late", "cancel", "flag"} => todo[t] \subseteq reported

\* A retry continues its parent's chain, under the parent's budget.
ChainInv ==
    /\ \A c \in Results : tparent[c] # None =>
          /\ Exists(c) /\ Executed(tparent[c])
          /\ troot[c] = troot[tparent[c]]
          /\ tattempt[c] = tattempt[tparent[c]] + 1
          /\ tmax[c] = tmax[tparent[c]]
    /\ \A c \in Results : tparent[c] = None => troot[c] = c /\ tattempt[c] = 1
    /\ \A a, b \in Results : tparent[a] # None /\ tparent[a] = tparent[b] => a = b
    /\ \A r \in Results : tattempt[r] >= 1

\* A thread past the stamp works on a stamped retry; past the cancel, on one
\* that is cancelled.
SupersedeInv ==
    /\ \A t \in Threads : pc[t] \in {"cancel", "flag"} =>
          \E c \in Results :
             /\ tparent[c] = cur[t] /\ tcompleted[c]
             /\ pc[t] = "flag" => rexc[c] = "RetrySuperseded"
    /\ \A c \in Results : tcancelled[c] => rexc[c] = "RetrySuperseded" /\ tcompleted[c]
    /\ \A c \in Results : tcompleted[c] => tparent[c] \in reported

IInv ==
    TypeOK /\ RowInv /\ ThreadInv /\ ChainInv /\ ChainsAreLinear /\ SupersedeInv
-----------------------------------------------------------------------------
(* Liveness.  A worker process that is not killed keeps executing its       *)
(* receiver and its sweep statements; the supervisor starts workers; cron   *)
(* keeps running the command; clocks advance.  Task bodies, stop signals,   *)
(* beats of a paused worker and faults are not fair.                        *)

\* A thread runs one statement after another, so one condition per thread.
Subroutine(t) == Decide(t) \/ Insert(t) \/ Stamp(t) \/ Cancel(t) \/ Flag(t)
Pass(p) ==
    \/ FindLost(p) \/ Reap(p) \/ FindMissed(p) \/ Repair(p)
    \/ FindLate(p) \/ Detect(p) \/ Prune(p)

Fairness ==
    /\ \A w \in Workers :
          /\ WF_vars(StartWorker(w) \/ EnterLoop(w) \/ Subroutine(Main(w)))
          /\ WF_vars(GoStale(w) /\ ~Alive(w))
    /\ \A w \in Workers \cap Sweepers :
          WF_vars((Beat(w) /\ pc'[Sweep(w)] = "find") \/ Pass(w) \/ Subroutine(Sweep(w)))
    /\ \A c \in Commands : WF_vars(RunCommand(c) \/ Pass(c) \/ Subroutine(Sweep(c)))
    /\ \A r \in Results : WF_vars(GrowOld(r))

FairSpec == Spec /\ Fairness

\* A row left RUNNING by a dead process does not stay RUNNING forever, even if
\* the heartbeat row that would have proved the death has been pruned.
LostTaskIsReaped ==
    \A r \in Results :
        (rstatus[r] = "RUNNING" /\ \E w \in Workers : rworker[r] = w /\ pc[Main(w)] = "gone")
        ~> rstatus[r] # "RUNNING"

\* A failure whose retry was never enqueued (the worker died before its signal,
\* a statement raised) is retried in the end by the repair sweep, as long as
\* REPAIR_WINDOW does not close on it.
MissedRetryIsRepaired ==
    \A r \in Results : Decides(r, "failed") ~> (HasChild(r) \/ ~Decides(r, "failed"))

\* An attempt that completed although it was reaped and retried is stamped in
\* the end, even when its worker dies before task_finished is sent.
DoubleRunIsNoticed ==
    \A c \in Results : (tparent[c] \in reported /\ tcause[c] = "lost") ~> tcompleted[c]

=============================================================================

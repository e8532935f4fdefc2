------------------------------ MODULE Webhooks ------------------------------
(***************************************************************************)
(* Outbound deliveries of apps/webhooks to one endpoint: fan-out from a    *)
(* model save, replay and test sends, the deliver_webhook task with its    *)
(* backoff, the retry tick, the endpoint's roll-up counters and its        *)
(* automatic disabling, and the staff form that edits the endpoint.        *)
(*                                                                         *)
(* Each database statement and the POST itself is a step of its own.       *)
(* deliver_webhook has no retry policy, so the engine never runs a task    *)
(* whose worker died a second time: apps/tasks only marks it failed.       *)
(* Endpoints share no rows, so one stands for each.                        *)
(***************************************************************************)
EXTENDS Integers, FiniteSets

CONSTANTS
    Deliveries,   \* WebhookDelivery rows that may come to exist
    Workers,      \* task workers
    Ticks,        \* processes in run_due_deliveries
    Requests,     \* web requests, or other code that saves a model
    MaxAttempts,  \* SMALLSTACK_WEBHOOK_MAX_ATTEMPTS
    Threshold,    \* SMALLSTACK_WEBHOOK_AUTO_DISABLE_AFTER, 0 for never
    MaxFaults,    \* bound: crashes and refused enqueues
    MaxEdits      \* bound: saves of the endpoint form

ASSUME WebhooksAssumption ==
    /\ MaxAttempts \in Nat \ {0}
    /\ Threshold \in Nat /\ MaxFaults \in Nat /\ MaxEdits \in Nat
    /\ Workers \cap Ticks = {} /\ Workers \cap Requests = {} /\ Ticks \cap Requests = {}

Procs == Workers \cup Ticks \cup Requests

VARIABLES
    status,       \* WebhookDelivery.status, "none" before the row exists
    attempt,      \* WebhookDelivery.attempt
    maxAttempts,  \* WebhookDelivery.max_attempts
    cursor,       \* WebhookDelivery.next_attempt_at, named by the attempt that set it; 0 for None
    due,          \* deliveries whose next_attempt_at has passed
    queue,        \* READY deliver_webhook tasks of each delivery
    enabled,      \* WebhookEndpoint.enabled
    failures,     \* WebhookEndpoint.consecutive_failures
    total,        \* WebhookEndpoint.total_deliveries
    pc,           \* where each process stands
    cur,          \* the delivery a process works on
    seen,         \* worker: the attempt counter it read
    result,       \* worker: what came of the attempt
    todo,         \* tick: <<delivery, cursor>> pairs left in its loop
    form,         \* request: the endpoint instance the form loaded
    faults, edits,
    posts,        \* history: POSTs sent for each delivery
    mails         \* history: dead-delivery mails queued

rows == <<status, attempt, maxAttempts, cursor, due>>
endpoint == <<enabled, failures, total>>
local == <<cur, seen, result, todo, form>>
bounds == <<faults, edits>>
history == <<posts, mails>>
vars == <<rows, queue, endpoint, pc, local, bounds, history>>

Endpoint == [enabled : BOOLEAN, failures : Nat, total : Nat]
EndpointRow == [enabled |-> enabled, failures |-> failures, total |-> total]
Terminal == {"success", "dead"}
Results == {"none", "ok", "fail", "dead"}

TypeOK ==
    /\ status \in [Deliveries -> {"none", "pending", "retrying"} \cup Terminal]
    /\ attempt \in [Deliveries -> Nat]
    /\ maxAttempts \in [Deliveries -> Nat]
    /\ cursor \in [Deliveries -> Nat]
    /\ due \subseteq {d \in Deliveries : status[d] = "retrying"}
    /\ queue \in [Deliveries -> Nat]
    /\ enabled \in BOOLEAN /\ failures \in Nat /\ total \in Nat
    /\ pc \in [Procs -> {"idle", "create", "enqueue", "edit", "read", "send", "record",
                         "bump", "check", "disable", "notify", "claim"}]
    /\ cur \in [Procs -> Deliveries]
    /\ seen \in [Procs -> Nat]
    /\ result \in [Procs -> Results]
    /\ todo \in [Procs -> SUBSET (Deliveries \X Nat)]
    /\ form \in [Procs -> Endpoint]
    /\ faults \in Nat /\ edits \in Nat
    /\ posts \in [Deliveries -> Nat] /\ mails \in [Deliveries -> Nat]

Init ==
    /\ status = [d \in Deliveries |-> "none"]
    /\ attempt = [d \in Deliveries |-> 0]
    /\ maxAttempts = [d \in Deliveries |-> MaxAttempts]
    /\ cursor = [d \in Deliveries |-> 0]
    /\ due = {}
    /\ queue = [d \in Deliveries |-> 0]
    /\ enabled = TRUE /\ failures = 0 /\ total = 0
    /\ pc = [p \in Procs |-> "idle"]
    /\ cur \in [Procs -> Deliveries] /\ \A p, q \in Procs : cur[p] = cur[q]
    /\ seen = [p \in Procs |-> 0]
    /\ result = [p \in Procs |-> "none"]
    /\ todo = [p \in Procs |-> {}]
    /\ form = [p \in Procs |-> [enabled |-> TRUE, failures |-> 0, total |-> 0]]
    /\ faults = 0 /\ edits = 0
    /\ posts = [d \in Deliveries |-> 0] /\ mails = [d \in Deliveries |-> 0]

Goto(p, label) == pc' = [pc EXCEPT ![p] = label]

-----------------------------------------------------------------------------
(* Requests that create deliveries                                         *)

\* WebhookDelivery.objects.create: a PENDING row with `limit' attempts.
NewDelivery(r, d, limit) ==
    /\ status[d] = "none"
    /\ status' = [status EXCEPT ![d] = "pending"]
    /\ maxAttempts' = [maxAttempts EXCEPT ![d] = limit]
    /\ cur' = [cur EXCEPT ![r] = d]
    /\ Goto(r, "enqueue")
    /\ UNCHANGED <<attempt, cursor, due, queue, endpoint, seen, result, todo, form, bounds, history>>

\* A save fires an event: fan_out lists the enabled endpoints ...
FanOut(r) ==
    /\ pc[r] = "idle" /\ enabled /\ \E d \in Deliveries : status[d] = "none"
    /\ Goto(r, "create")
    /\ UNCHANGED <<rows, queue, endpoint, local, bounds, history>>

\* ... and creates a delivery for each.
CreateDelivery(r) == pc[r] = "create" /\ \E d \in Deliveries : NewDelivery(r, d, MaxAttempts)

\* replay_delivery and replay_dead: any past delivery, enabled endpoint or not.
Replay(r) ==
    /\ pc[r] = "idle"
    /\ \E o, d \in Deliveries : status[o] # "none" /\ NewDelivery(r, d, maxAttempts[o])

\* test_endpoint: a ping with one attempt.
TestEndpoint(r) == pc[r] = "idle" /\ \E d \in Deliveries : NewDelivery(r, d, 1)

\* Where _enqueue_delivery returns to: the tick's loop, or the end.
AfterEnqueue(p) == IF todo[p] # {} THEN "claim" ELSE "idle"

\* _enqueue_delivery.
Enqueue(p) ==
    /\ pc[p] = "enqueue"
    /\ queue' = [queue EXCEPT ![cur[p]] = @ + 1]
    /\ Goto(p, AfterEnqueue(p))
    /\ UNCHANGED <<rows, endpoint, local, bounds, history>>

\* _enqueue_delivery swallows a broker error.
EnqueueFails(p) ==
    /\ pc[p] = "enqueue" /\ faults < MaxFaults
    /\ faults' = faults + 1
    /\ Goto(p, AfterEnqueue(p))
    /\ UNCHANGED <<rows, queue, endpoint, local, edits, history>>

-----------------------------------------------------------------------------
(* The deliver_webhook task                                                *)

\* A worker takes a task ...
Take(w) == \E d \in Deliveries :
    /\ pc[w] = "idle" /\ queue[d] > 0
    /\ queue' = [queue EXCEPT ![d] = @ - 1]
    /\ cur' = [cur EXCEPT ![w] = d]
    /\ Goto(w, "read")
    /\ UNCHANGED <<rows, endpoint, seen, result, todo, form, bounds, history>>

\* ... and reads the delivery; a terminal one is skipped.
Read(w) ==
    /\ pc[w] = "read"
    /\ seen' = [seen EXCEPT ![w] = attempt[cur[w]]]
    /\ Goto(w, IF status[cur[w]] \in Terminal THEN "idle" ELSE "send")
    /\ UNCHANGED <<rows, queue, endpoint, cur, result, todo, form, bounds, history>>

\* The POST, answered with a 2xx or anything else.
Send(w) == \E ok \in BOOLEAN :
    /\ pc[w] = "send"
    /\ posts' = [posts EXCEPT ![cur[w]] = @ + 1]
    /\ result' = [result EXCEPT ![w] = IF ok THEN "ok" ELSE "fail"]
    /\ Goto(w, "record")
    /\ UNCHANGED <<rows, queue, endpoint, cur, seen, todo, form, bounds, mails>>

\* The SSRF guard refuses the target: an attempt without a POST.
Blocked(w) ==
    /\ pc[w] = "send"
    /\ result' = [result EXCEPT ![w] = "fail"]
    /\ Goto(w, "record")
    /\ UNCHANGED <<rows, queue, endpoint, cur, seen, todo, form, bounds, history>>

StatusOffByOne(w, n) ==
    CASE result[w] = "ok" -> "success"
      [] result[w] # "ok" /\ n > maxAttempts[cur[w]] -> "dead"
      [] OTHER -> "retrying"

\* The status that _record_attempt gives the delivery after attempt n.
StatusAfter(w, n) ==
    CASE result[w] = "ok" -> "success"
      [] result[w] # "ok" /\ n >= maxAttempts[cur[w]] -> "dead"
      [] OTHER -> "retrying"

\* next_attempt_at is written: the new time has yet to pass.
SetCursor(d, c) == cursor' = [cursor EXCEPT ![d] = c] /\ due' = due \ {d}

NoCursor(s, n) == 0

\* next_attempt_at after attempt n: a retry's time, cleared otherwise.
NextCursor(s, n) == IF s = "retrying" THEN n ELSE 0

\* _record_attempt: outcome and next cursor in one save of the fields it owns.
RecordAttempt(w) ==
    LET d == cur[w]
        n == seen[w] + 1
        s == StatusAfter(w, n)
    IN  /\ pc[w] = "record"
        /\ attempt' = [attempt EXCEPT ![d] = n]
        /\ status' = [status EXCEPT ![d] = s]
        /\ SetCursor(d, NextCursor(s, n))
        /\ result' = [result EXCEPT ![w] = IF s = "dead" THEN "dead" ELSE @]
        /\ Goto(w, "bump")
        /\ UNCHANGED <<maxAttempts, queue, endpoint, cur, seen, todo, form, bounds, history>>

\* What follows the roll-up of a failed attempt: the mail, if it was the last.
AfterBump(w) == IF result[w] = "dead" THEN "notify" ELSE "idle"

\* _bump_endpoint: the counters, each moved by F() in one UPDATE.
Bump(w) ==
    /\ pc[w] = "bump"
    /\ total' = total + 1
    /\ failures' = IF result[w] = "ok" THEN 0 ELSE failures + 1
    /\ Goto(w, CASE result[w] = "ok" -> "idle"
                 [] result[w] # "ok" /\ Threshold > 0 -> "check"
                 [] OTHER -> AfterBump(w))
    /\ UNCHANGED <<rows, queue, enabled, local, bounds, history>>

FailedExactly == failures = Threshold /\ enabled

\* Has the endpoint failed often enough to be disabled?
PersistentlyFailing == failures >= Threshold /\ enabled

\* _bump_endpoint reads the endpoint back ...
Check(w) ==
    /\ pc[w] = "check"
    /\ Goto(w, IF PersistentlyFailing THEN "disable" ELSE AfterBump(w))
    /\ UNCHANGED <<rows, queue, endpoint, local, bounds, history>>

\* ... and disables it.
Disable(w) ==
    /\ pc[w] = "disable"
    /\ enabled' = FALSE
    /\ Goto(w, AfterBump(w))
    /\ UNCHANGED <<rows, queue, failures, total, local, bounds, history>>

\* _notify_dead queues the mail.
NotifyDead(w) ==
    /\ pc[w] = "notify"
    /\ mails' = [mails EXCEPT ![cur[w]] = @ + 1]
    /\ Goto(w, "idle")
    /\ UNCHANGED <<rows, queue, endpoint, local, bounds, posts>>

-----------------------------------------------------------------------------
(* The retry tick                                                          *)

\* The deliveries that run_due_deliveries selects, with their cursors.
DueRows == {<<d, cursor[d]>> : d \in {e \in due : status[e] = "retrying" /\ cursor[e] # 0}}

\* run_due_deliveries lists them ...
ListDue(t) ==
    /\ pc[t] = "idle" /\ DueRows # {}
    /\ todo' = [todo EXCEPT ![t] = DueRows]
    /\ Goto(t, "claim")
    /\ UNCHANGED <<rows, queue, endpoint, cur, seen, result, form, bounds, history>>

\* One conditional UPDATE; if it matched, the delivery is queued next.
ClaimRow(t, row, won) ==
    LET d == row[1]
        rest == todo[t] \ {row}
    IN  /\ todo' = [todo EXCEPT ![t] = rest]
        /\ status' = [status EXCEPT ![d] = IF won THEN "pending" ELSE @]
        /\ IF won THEN SetCursor(d, 0) ELSE UNCHANGED <<cursor, due>>
        /\ cur' = [cur EXCEPT ![t] = IF won THEN d ELSE @]
        /\ Goto(t, IF won THEN "enqueue" ELSE IF rest # {} THEN "claim" ELSE "idle")
        /\ UNCHANGED <<attempt, maxAttempts, queue, endpoint, seen, result, form, bounds, history>>

MatchesKey(row) == TRUE

MatchesStatus(row) == status[row[1]] = "retrying"

\* The WHERE of the claim: the row still has the cursor that was listed.
Matches(row) == cursor[row[1]] = row[2]

\* ... and claims them one by one.
Claim(t) == pc[t] = "claim" /\ \E row \in todo[t] : ClaimRow(t, row, Matches(row))

\* A backoff passes.
Elapse(d) ==
    /\ status[d] = "retrying" /\ d \notin due
    /\ due' = due \cup {d}
    /\ UNCHANGED <<status, attempt, maxAttempts, cursor, queue, endpoint, pc, local, bounds, history>>

-----------------------------------------------------------------------------
(* The endpoint form, and failures                                         *)

\* The form loads the endpoint ...
EditRead(r) ==
    /\ pc[r] = "idle" /\ edits < MaxEdits
    /\ form' = [form EXCEPT ![r] = EndpointRow]
    /\ edits' = edits + 1
    /\ Goto(r, "edit")
    /\ UNCHANGED <<rows, queue, endpoint, cur, seen, result, todo, faults, history>>

\* ... and saves every column of it, the counters it never shows included.
EditSave(r) == \E on \in BOOLEAN :
    /\ pc[r] = "edit"
    /\ enabled' = on
    /\ failures' = form[r].failures
    /\ total' = form[r].total
    /\ Goto(r, "idle")
    /\ UNCHANGED <<rows, queue, local, bounds, history>>

\* A process dies between two statements.
Crash(p) ==
    /\ pc[p] # "idle" /\ faults < MaxFaults
    /\ faults' = faults + 1
    /\ Goto(p, "idle")
    /\ todo' = [todo EXCEPT ![p] = {}]
    /\ UNCHANGED <<rows, queue, endpoint, cur, seen, result, form, edits, history>>

-----------------------------------------------------------------------------
WorkerStep(w) ==
    \/ Take(w) \/ Read(w) \/ Send(w) \/ Blocked(w) \/ RecordAttempt(w)
    \/ Bump(w) \/ Check(w) \/ Disable(w) \/ NotifyDead(w)
TickStep(t) == ListDue(t) \/ Claim(t) \/ Enqueue(t)
Finish(r) == CreateDelivery(r) \/ Enqueue(r) \/ EditSave(r)
Begin(r) == FanOut(r) \/ Replay(r) \/ TestEndpoint(r) \/ EditRead(r)

Next ==
    \/ \E w \in Workers : WorkerStep(w)
    \/ \E t \in Ticks : TickStep(t)
    \/ \E r \in Requests : Begin(r) \/ Finish(r)
    \/ \E d \in Deliveries : Elapse(d)
    \/ \E p \in Procs : EnqueueFails(p) \/ Crash(p)

Spec == Init /\ [][Next]_vars

\* Workers and the cron tick keep running, time passes, and a request that
\* has begun goes on.  Nobody has to begin one.
Fairness ==
    /\ \A w \in Workers : WF_vars(WorkerStep(w))
    /\ \A t \in Ticks : WF_vars(TickStep(t))
    /\ \A r \in Requests : WF_vars(Finish(r))
    /\ \A d \in Deliveries : WF_vars(Elapse(d))

FairSpec == Spec /\ Fairness

-----------------------------------------------------------------------------
\* p is on its way to queue or to send delivery d.
Carries(p, d) == cur[p] = d /\ pc[p] \in {"enqueue", "read", "send", "record"}

\* Safety: a delivery is on one way to its endpoint at a time.  Of the tasks
\* queued for it, the tick or request about to queue one, and the workers
\* sending it, there is at most one, and only while it is PENDING ("two
\* concurrent ticks/workers can never send the same delivery twice").
OneSendAtATime ==
    \A d \in Deliveries :
      /\ queue[d] <= 1
      /\ queue[d] = 1 => \A p \in Procs : ~Carries(p, d)
      /\ \A p, q \in Procs : Carries(p, d) /\ Carries(q, d) => p = q
      /\ (queue[d] = 1 \/ \E p \in Procs : Carries(p, d)) => status[d] = "pending"

\* Safety: no delivery is POSTed more than max_attempts times, whatever dies,
\* and every recorded attempt that was not blocked had its POST: the counter
\* of a row is never ahead of max_attempts.
AttemptsBounded ==
    \A d \in Deliveries : posts[d] <= maxAttempts[d] /\ attempt[d] <= maxAttempts[d]

\* Action property: a retry starts only after its own backoff has passed; a
\* tick holding an older cursor of the same delivery cannot start it early.
BackoffRespected ==
    [][\A d \in Deliveries :
         status[d] = "retrying" /\ status'[d] = "pending" => d \in due]_vars

\* Safety, with no crash and no form: whenever nobody is writing, an endpoint
\* with Threshold failures in a row has been disabled, even if several
\* workers failed on it together.
FailingIsDisabled ==
    /\ faults = 0 /\ edits = 0 /\ Threshold > 0
    /\ \A w \in Workers : pc[w] \notin {"check", "disable"}
    /\ failures >= Threshold
    => ~enabled

\* Liveness, with no crash and no refused enqueue: every delivery is
\* delivered or given up in the end.
DeliverySettles == \A d \in Deliveries : status[d] = "pending" ~> status[d] \in Terminal

\* Liveness, as _enqueue_delivery has it: a delivery whose enqueue the broker
\* refused stays PENDING "for the tick to pick up".
PendingIsPickedUp == \A d \in Deliveries : status[d] = "pending" ~> status[d] # "pending"

\* Action property, as the docs have it ("After N consecutive failures an
\* endpoint auto-disables"): when deliver_webhook disables the endpoint, its
\* last N attempts have failed.
DisabledForCause ==
    [][\A w \in Workers : pc[w] = "disable" /\ enabled /\ ~enabled' => failures >= Threshold]_vars
=============================================================================

# Formal models of CW Station

CW Station is a Django workbench for Morse (CW) radio operators: it decodes audio, drives an SDR
receiver and a transceiver, keeps a logbook and answers on the air. It is built on SmallStack, a
platform of Django apps that provides background tasks, schedules, webhooks, approvals and so on.
The models in this directory are written from the Python code under `src/apps`. `PROJECT.json` maps
every definition that models code to the lines it models, and lists the components, the hazards, the
runs and the theorems.

## 1. The parts of the system

| Part | State it keeps | Operations | What is hard | What makes it correct |
|---|---|---|---|---|
| `apps/tasks` reliable queue | `DBTaskResult` rows, `TaskAttempt` chains, `WorkerHeartbeat` rows | claim, run, report, beat, reap, retry, repair, stamp, cancel, prune, stop | every worker is also a reaper; workers are killed or paused between any two statements and may come back after their task was given away | chains never fork or exceed their budget; a worker's outcome is overwritten only by a forced stop of that worker; a double run is noticed; lost tasks are reaped and missed retries repaired |
| `apps/scheduler` ticks | `ScheduledJob` row, `ScheduledJobRun` history | tick (claim, overlap guard, catch-up, fire, record), run now, edit, reconcile | several triggers overlap; operators save rows that ticks have moved on; outcomes are settled by whoever looks first | a slot is claimed once; a claim leaves a run; due jobs are served; a run carries outcomes of its own chain only, and changes only with it |
| `apps/scheduler` cadence arithmetic | none | `next_run`, `missed_periods`, preview | boundaries of a grid, days that some months lack | no fire skipped or repeated; the two functions agree |
| `apps/scheduler` code sync | code-declared rows, `auto_retired`, `schedule_overridden` | sync, retire, resurrect, edit, reset | processes of different releases sync at once; operators own what they changed | overrides stick; a row that is off has an owner for it |
| `apps/webhooks` outbound | `WebhookDelivery` and `WebhookEndpoint` rows | fan out, deliver, back off, retry tick, replay, test, disable, edit | an enqueue fails after the row is written; ticks hold stale lists; counters decide over an endpoint | one send at a time; bounded attempts; back-off respected; every delivery settles |
| `apps/webhooks` inbound | `WebhookReceipt` rows, a per-thread suppression depth | receive, reject, dispatch, suppress | two sites whose handlers write back; handlers that raise | own writes are announced and handlers' are not |
| `apps/cw` transmit | the transmit lock, `_state`, the rig's PTT | transmit, play, unkey, close | an exchange with rigctld fails or its answer is lost at any point; playback dies | one transmission; keyed exactly while it plays; the lock comes free |
| `apps/cw` rig daemon | the managed `rigctld` process and its spec | start, stop, status | status reads without the lock | status is about one process |
| `apps/cw` receiver | one `rtl_fm` process, a pump thread, a speaker sink, a pid file | start, stop, retune, seek, status | threads of an old session outlive it; the server restarts and the process does not | the server's own `rtl_fm` is always supervised, an earlier server's is on file or was never noted or could not be killed; stop silences every other; no operation hangs |
| `apps/cw` band survey | survey state, worker thread | start, work, status | check-then-act on the receiver, one dongle | a survey ends, whoever has the dongle |
| `apps/cw` decoder, audio | buffers, decoded text | detect, decode, synthesise | numeric signal processing | - |
| `apps/cw` logbook, QRZ, eQSL | QSO rows with a mark per service, two remote logs | log, edit, delete, import ADIF, upload, export | answers of a remote service are lost, uploads overlap, forms write old marks back | a mark is true; a row is sent twice only for a reason |
| `apps/approvals` | requests, assignees, in-app notifications | request, decide, cancel, expire, sweep, callback | decision against expiry, second decision, death before the callback | settled once; the effect runs once, for the outcome that stands; overdue requests are settled |
| `apps/telemetry` | a bounded queue, a writer thread, counters, logger levels | emit, write, flush, close, open and close a capture window | overflow, failing writes, a missing table, shutdown, windows that expire | written or counted as dropped; levels come back |
| `apps/heartbeat` | beats, daily totals, epoch, maintenance windows | beat, fold and prune, reset, window, uptime page | a page reads two tables while a prune moves rows from one to the other | pruning does not change a day's figures; no beat counts twice |
| `apps/runbook` | a document with its head, its versions | create, import, write, append, edit, archive, delete, prune, expire | web requests and janitors work on instances loaded earlier; a page creates a document in three statements | the head is the newest version, or there never was one; a prune spares what is recent |
| `apps/mcp` OAuth grants, `apps/tokenmgr` | tokens, one-time codes that hold a key | consent, redeem, scrub, revoke | two redemptions at once; a scrub meets a redemption | a code yields its key once, and the key works |
| the others (`notifications`, `feeds`, `search`, `datasets`, the rest of `mcp`, `api`, `accounts`, `profile`, `activity`, `explorer`, `help`, `usermanager`, `website`, `smallstack`) | see PROJECT.json | request handlers over one row, rendering, reporting | | |

The parts meet in the database and in the queue: the scheduler, the webhooks and the approvals all
enqueue tasks through `apps/tasks` and read back what `chain_outcome` says about them; the receiver and the
survey share the one dongle; the approvals ring and clear the notifications.

## 2. Modules and how they correspond to the code

One step of a model is one SQL statement or one `atomic()` block, and what happens in memory between
two of them. A process's place in its code is `pc[p]`; variables that a function holds across
statements are per-process variables. Every statement of another process may come in between. Counters
named `faults`, `requests`, `edits`, `forged`, `deaths` bound what the environment does; constants named
`Max...` are those bounds.

| Module | Models | Used by |
|---|---|---|
| `TaskQueue` | `apps/tasks`: reliability, reaper, heartbeat, signals, db_worker, reap_tasks | `TaskOutcome`, `TaskQueueProofs` |
| `AttemptLedger` | what the queue promises to those who enqueue: the abstract specification | `TaskOutcome` |
| `TaskOutcome` | `chain_outcome`, the walk over a chain that the rest of the system reads, and the mapping by which `TaskQueue` implements `AttemptLedger` | `MCTaskQueue`, `TaskQueueProofs` |
| `Schedules` | `next_run`, `missed_periods` for fixed units and cron | `Scheduler`, `SchedulePreview` |
| `SchedulePreview` | their loops for months and years, and `preview_runs`, which walks `next_run` from fire to fire | `MCInputs`, `InputsProofs` |
| `Scheduler` | ticks, reconcile, Run now, edit form on one job | `MCScheduler`, `SchedulerProofs` |
| `SchedulerSync` | `sync_code_jobs` against edits, resets and the disabling tick | `MCInputs`, `InputsProofs` |
| `Webhooks` | fan-out, delivery task, retry tick, replay, endpoint form | `MCWebhooks`, `WebhooksProofs` |
| `WebhookInbound` | `incoming_webhook`, `dispatch_incoming`, `suppress_webhooks` on two paired sites | `MCInputs`, `InputsProofs` |
| `Transmit` | `transmit_session` and its exchanges with rigctld | `MCRadio`, `RadioProofs` |
| `Receiver` | `radiodaemon` and `bandscan` over the one dongle | `MCRadio`, `RadioProofs` |
| `ApprovalGate` | what the approvals promise: the abstract specification | `Approvals` |
| `Approvals` | `apps/approvals` services, statement by statement; implements `ApprovalGate` | `MCServices`, `ServicesProofs` |
| `LogCapture` | `DatabaseLogHandler` and capture windows of one process | `MCServices`, `ServicesProofs` |
| `Heartbeat` | beats, prune, windows and the daily figures of one monitor | `MCRecords`, `RecordsProofs` |
| `Runbook` | versions and head of one document, web edits, retention | `MCRecords`, `RunbookProofs` |
| `Logbook` | the log and its exchange with eQSL and QRZ | `MCRecords`, `RecordsProofs` |
| `Grants` | OAuth consents, codes and tokens | `MCRecords`, `RecordsProofs` |

The parts that share no state with each other are checked side by side: `MCRadio`, `MCInputs`, `MCServices`
and `MCRecords` extend several modules, a variable `part` picks the one that moves, and the others stay
as they were at the start. A behaviour of such a run is a behaviour of one module, so each property means
what it means in its own module. Parts that do interact are in one module: the receiver with the survey,
the approvals with the notifications they raise and resolve, web edits with retention, consent with
redemption and scrub, the prune with the page that reads what it moves.

**TaskQueue.** The columns of a result row are `rstatus`, `rexc`, `rworker` and `rage`; those of its
`TaskAttempt` row start with `t`; `hb` is the heartbeat table. Each worker process has two threads, its
claim loop and its heartbeat thread (which beats, and reaps, repairs, detects and prunes); `reap_tasks` is
a process with a sweep thread only. `rage` stands for the age of a row's timestamps relative to the
thresholds of the code (`ORPHAN_SECONDS`, `REPAIR_GRACE`, `REPAIR_WINDOW`). `reported` is a history variable.
The claim and the two setters of `DBTaskResult` and the signal handling of `Worker` belong to
django-tasks and are modelled from how `apps/tasks` uses them. A second stop signal raises `SystemExit` wherever the
main thread is: in the body the row fails (`ForceStop`); between claim and body, and in the receiver of a failure, it
leaves the loop and the row as it is (`StopEscapes`); in the receiver of a success, which upstream sends inside its
`try`, the success is turned into a failure (`StopOverturns`). `AttemptLedger` has a phase per attempt and seven
actions: accept, start, give up, report, overturn, withdraw, repeat. `TaskQueue` implements it, as `LedgerRefined` says; the
mapping `Phase` takes the reaper's and the cancel's verdicts, which the table stores as FAILED rows with an
exception class of their own, for the phases LOST and CANCELLED.

**Scheduler.** One job row, its runs and the tasks they enqueued. A tick reads the due row, claims it with
the conditional UPDATE on `next_run_at`, asks the overlap guard, applies the catch-up policy, enqueues,
records the run and updates the counters, then reconciles queued runs with the engine and sends failure
mail. The task engine is seen through `chain_outcome`, whose walk is `TaskOutcome`'s subject. A terminal answer is
not the last word: `EngineRevises` is the worker that was taken for lost and returns, and the forced stop that fails
a success; each costs one of the `MaxFaults`. A reconciler keeps in `seen` what it read and saves it unconditionally.
`claimed`, `lost`, the rewinding of a slot and `given`, the outcomes a chain has had, are history variables.

**SchedulerSync.** Each process has its release's registry; a sync reads a row, refreshes and saves it, and
retires rows that no longer have a spec. `chosen` remembers what an operator chose, and forgets it when
another save overlaps with the choice.

**Webhooks.** Deliveries of one endpoint. `due` says that the back-off of a RETRYING row has passed, `cursor`
is `next_attempt_at`, named by the attempt that set it: a tick that lists a row holds the cursor it saw. `posts` is a history
variable.

**WebhookInbound.** Two paired sites, each with web threads and task workers of its own; `depth` is the
thread-local nesting of `suppress_webhooks`. Events carry the origin that sent them and, for the
properties only, the site whose write caused them.

**Transmit.** Each request takes the lock, renders, and hands over to a daemon thread that connects, probes,
keys, plays, unkeys, closes and releases. An exchange with rigctld may fail before or after the rig carried
the command out.

**Receiver.** `alive` is the set of `rtl_fm` processes, `dongle` the one that has the device, `tracked` and
`pidfile` what the server knows of them; `radioOp` is the operation that holds `_op_lock`, with the
statement it is at; `pumps` are the pump threads with the process each reads from, and `sinkOpen` and
`sinkGone` the two events that they share. A survey sweeps band after band with its own process. A restart
of the server loses its memory and threads and keeps processes and the pid file. `_reap_stale` kills the process
on file, or does not: the file cannot be read, `ps` is missing or slow, the kill fails; the file is unlinked either
way, if it can be. `heard`, `started`, `orphans` (processes whose pid never got on file), `spared` (processes a
`_reap_stale` found on file and left alive) and `inherited` (those alive at the last restart) are history variables.

**Approvals.** A call is a record: its next statement, the row it loaded, the status it saw, what it wants to
write. Loading, judging and the conditional UPDATE of `_claim` are separate steps, and so are the callback and
the notifications after it; every other call, the sweep, the lazy expiry of a queue page and a death may come
in between. `effects` and `dropped` are history variables. `ApprovalGate` has two variables and three actions;
`Approvals` implements it with `outcome` replaced by the status column, as `GateRefined` says.

**LogCapture.** Records may be emitted after `shutdown()` too, which starts a new writer. The queue and a batch are the number of records in them. Two threads take and write batches: the
writer and the one that runs `logging.shutdown()`. A counter is read and stored in two steps, because `+=`
is, so a concurrent addition may be written over (`missed`). `levels` and `saved` are the loggers'
levels and the ones the capture will restore. `offered`, `missed` and `hurried` are history variables.

**Heartbeat.** Time is counted in minutes. A prune groups the old beats, reads the daily rows and commits the
sums and the deletion; with `Serialised` (SQLite's immediate transactions) no other prune comes in between.
The page reads the totals, looks for raw beats and counts them in three steps. `recorded` is a history variable.

**Runbook.** `document` is the row, `rows` its versions by id and number. Keyed writes and bundle imports are one
transaction (an import of an empty body leaves a document without a version); a page that creates a document inserts the row,
inserts version 1 and saves the head in three steps (`InsertDocument`, `InsertFirst`, `SyncHead`), between which it may die; any other
web request loads an instance and saves a version, a body or a form later, whatever happened meanwhile; a
janitor loads, lists, deletes, expires. `aged` are the versions past the age limit. `pruned` and `overtaken`
(a stale form wrote the head back, or a prune freed the number a stale request wanted) are history variables.

**Logbook.** A QSO row has a mark for each service. Uploads give rows to eQSL in one exchange and mark them
afterwards; exports go row by row; imports check and create in two steps; forms write back the whole row
they loaded, and the form that creates a row saves it a second time (`SubmitNew`, `SaveAgain`). `taken`, `uploads` and `excused` are history variables.

**Grants.** A grant is a token and a code. Consent mints the token, scrubs expired codes (list, deactivate, clear)
and creates the code; redemption reads the code, claims it with a conditional UPDATE and answers with the key
it read. `given`, `withdrawn` and `straddled` (the TTL ran out during a redemption) are history variables.

## 3. Runs

Bounds are small on purpose; each is the smallest at which the races named can happen, and the theorems
of section 5 remove them for the safety properties that matter most.

| Run | Instance | What it shows |
|---|---|---|
| `tasks_safety` | two workers, the second also sweeps; one task with a budget of two; one crash or failed statement; three result ids, one more than the budget needs, so that a second retry of one attempt would show | `ChainsAreLinear`, `CancelledStaysCancelled`, `LedgerRefined` (the refinement of `AttemptLedger`), and for readers of the chain `ForkIsReported` |
| `tasks_stops` | a stoppable worker, `reap_tasks` as the only sweeper, windows that close, an undeclared task whose caller may pin two attempts | `PinRepeatsOnlyRaised`: a pinned budget never repeats a lost or interrupted run; `LostTaskIsReaped`: a RUNNING row of a dead process is reaped even after its heartbeat was pruned |
| `tasks_live` | two workers, one mortal | `DoubleRunIsNoticed`: a late completion is stamped in the end; `MissedRetryIsRepaired`: a retry that nobody enqueued is enqueued by a sweep |
| `sched_tick` | two overlapping ticks, one operator request (Run now or edit), one fault or revised outcome, an interval and a malformed cadence | `OnlyRewindsReclaim`, `ClaimLeavesRun`, `OutcomeFollowsChain` |
| `sched_live` | one trigger that keeps being called, one fault, three instants | `OneRunAtATime` (a single trigger, as long as nothing has failed), `DueIsServed`, `OutcomeReachesRun` |
| `hook_delivery` | one delivery of three attempts, two ticks, two workers, two requests, one fault, one save of the form | `OneSendAtATime`, `AttemptsBounded`, `BackoffRespected` |
| `hook_endpoint` | two deliveries that may fail together on an endpoint with a threshold of two | `FailingIsDisabled`, `DeliverySettles` |
| `inputs` | preview: intervals of 0 to 3, cron grids of 0 to 4, months of every length, starts around each boundary; sync: two processes, two jobs, two cadences, one deploy, two edits; inbound: two sites with two threads and a worker each, two own writes, two forged requests, one fault | `NoFireSkipped`, `MissedAgreesWithNextRun`; `MarkerExplainsOff`, `OverrideSticks`; `EventsAreOwnWrites` |
| `station` | transmit: three requests, two link faults, a restart; receiver: two processes, a survey of one band, a restart | `KeyedWhilePlaying`, `LockComesFree`; `ReceiversAreKnown`, `StopSilences`, `OperationsEnd` |
| `services` | approvals: one request, two users of whom one is staff and may leave, a web, an API and a cron process, one death; log capture: a queue and a batch of two, three records, two windows, four loggers | `EffectLostOnlyByCrash`, `GateRefined` (the refinement), `OverdueIsSettled`; `RecordsAddUp`, `CaptureSettles` |
| `records` | heartbeat: three days of two minutes, two serialised pruners, one window across midnight, a reset epoch; runbook: four ids for documents and versions, of which one version is kept, one web request (that creates or edits), one janitor; logbook: one contact, two rows, two requests, one mishap; grants: two consents, two requests, one death or lost answer | `NeverOvercounts`, `PruneIsInvisible`; `HeadIsNewest`, `RecentSurvive`; `MarksAreTrue`; `OneWorkingKey` |
| `tx_left_keyed` | two requests, one link fault | violated: see section 4 |

Why these bounds reach the cases. Three result ids are needed because a fork of a chain needs two children of
one attempt. `MaxChain` (`_MAX_CHAIN`, 1000 in the code) is the budget of two, the least for which no walk is cut short. Two own writes are needed because the second is made at the peer while a handler for the first
one runs there. Two `rtl_fm` processes are what a late pump needs: the old session's and the new one's. One
approval request suffices because rows interact only through the requester's pending cap; three processes are
a winner, a loser and the sweep. A queue of two with three records overflows once, and two windows overlap or
follow each other. Three days are one beyond the retention, so a day may be folded in two batches, and a window
across midnight excludes minutes of both halves. Four ids with one version kept let a request that loaded version
two be overtaken by a write and a prune, and another request, a janitor or a deletion meet a creation between two of its statements. Two consents are needed because the scrub of one consent meets the
redemption of the other. A third worker, tick or redemption adds no new pair of racing statements; the theorems
of section 5 cover any number where there is one.

`CHECK_DEADLOCK FALSE` stands in the configurations of systems that may stop for good: a finished chain, a
settled delivery and a silent link have no next step once the environment's bounds are used up.

## 4. What the code does otherwise than it says

`tx_left_keyed` is a listed finding: `set_ptt(True)` stands before the `try` whose `finally` unkeys, so a
lost answer leaves the rig keyed although the docstring says "PTT off (in a finally, always)".

The following were met while modelling. For each one the property that states the documented behaviour
and the configuration that reaches the violation are kept here, so that they can be run again after a
change of the code (`tlc -config <cfg> <module>`; `TaskReaders` and `SchedulerReports` state two each, which
`-continue` reports one after the other).

| Configuration, module | Property | What happens |
|---|---|---|
| `TaskReaders`, `MCTaskQueue` | `RetryingMeansRetryComing` | `chain_outcome` (reliability.py:598) says RETRYING for an attempt that came back, failed and cancelled its own retry; its unique `parent_id` is used up, so no retry will come. The comment at 498-500 says "another is on its way". |
| `TaskReaders`, `MCTaskQueue` | `OutcomeIsNotBookkeeping` | The cancel of a retry and the `retry_cancelled` mark (reliability.py:393) are two statements; if the second never happens the cancelled row becomes the chain's outcome, which exceptions.py:36-37 says it "must never be". |
| `SchedulerRewind`, `MCScheduler` | `NeverDoubleFires` | A tick claims a slot between the edit form reading the row and saving all its columns (models.py:219): the slot fires again. services.py:6-7 says "two concurrent ticks can never double-fire the same schedule". Without the form it holds (theorem `TicksAloneFireOnce`). |
| `SchedulerReports`, `MCScheduler` | `OneFailureMail` | Two reconciles that listed the same failed run both send the mail (services.py:365); docs/skills/scheduler.md:141 says "there's one failure email". |
| `SchedulerReports`, `MCScheduler` | `LastStatusSettles` | A skipped run recorded while the fired one is running leaves `last_status` at "queued" after everything has settled (services.py:359); models.py:248-249 calls it "the previous run's outcome". |
| `SchedulerStraggler`, `MCScheduler` | `StragglerNeverOverwrites` | A run recorded between the latest-run query and the UPDATE (services.py:363) is overwritten, which the comment at 357-358 excludes. |
| `SyncHandOff`, `SchedulerSync` | `HandOffStays` | `auto_retired` outlives an operator enabling and disabling the row (registry.py:134), and the sync enables it again; registry.py:16-17 says operator intent "is never overwritten". |
| `WebhookStranded`, `MCWebhooks` | `PendingIsPickedUp` | A delivery whose enqueue failed stays PENDING (services.py:241 selects RETRYING only); services.py:173-174 says the tick picks it up. |
| `WebhookDisabled`, `MCWebhooks` | `DisabledForCause` | A success between the read of `consecutive_failures` and the UPDATE (tasks.py:275) disables an endpoint that has just answered. |
| `InboundEcho`, `WebhookInbound` | `EchoIsDropped` | With `cascade=True` handlers an event comes back under the peer's origin, so the comparison at views.py:753 drops nothing; models.py:286 says a two-way link "can't echo". |
| `TransmitRefused`, `Transmit` | `RefusalIsTrue` | An exception between taking the lock and starting the thread (transmit.py:59) leaves the lock held: every later request is told "Already transmitting". |
| `HeartbeatPage`, `Heartbeat` | `PageIsExact` | A prune commits between the page's two queries (status.py:497): its beats are in neither half of the sum and the day is shown too low for one request. The comment at 497-498 says "The halves are disjoint by construction" and that "addition is exact". |
| `ReceiverSilent`, `Receiver` | `SilentStartFails` | The pump of an earlier receiver ends late and sets the events the new one has just cleared (radiodaemon.py:341), so a start is reported as playing whose own sink never opened; radiodaemon.py:524-528 says "Fail the start instead". |
| `RunbookExpiry`, `Runbook` | `ExpiresOnlyIdle` | A document that is edited between the sweep's query and its turn is archived or deleted all the same; the docstring of retention.py says "ttl_days after last update". |
| `GrantsExpiry`, `Grants` | `OnlyUndeliveredExpire` | A code whose time runs out during its redemption may be listed by a scrub before the claim and its token deactivated after it: the client holds a dead key. mcp/models.py:45-49 says "never delivered to anyone". |

More without a configuration of their own. A monthly interval anchored on the 29th to 31st loses its
day at the first shorter month (schedules.py:119 adds the period to the clipped sum), which is why
`NoFireSkipped` speaks of days that every month has. An operator who retunes a row between a sync's read
and its save is overwritten (registry.py:153), which is why `OverrideSticks` speaks of choices that no save
overlapped. A stale form overlapping a stale sync can leave a job enabled without a `next_run_at` until the
next sync. With `Serialised = FALSE` in `Records.cfg` (two write transactions at once, as under READ
COMMITTED) two prunes fold the same beats and `PruneIsInvisible` is violated; SQLite's settings rule
it out. Two imports of one record may both find it missing and create it twice. eQSL's partial result is not
looked at: all rows of an answered upload are marked, which is why `MarksAreTrue` says "in an upload that was answered" and not
"accepted". A record that QRZ refuses ends an export, and stands before the same rows in the next one. A death
after a token was minted and before its code exists, or an answer lost after the claim, leaves a live token
that nobody holds. A `_reap_stale` whose `ps` is missing or too slow, or whose kill fails, unlinks the pid file although
the earlier server's `rtl_fm` plays on (radiodaemon.py:398-413): no later stop reaches it, which is why `ReceiversAreKnown` and
`StopSilences` except such processes. A settled run keeps its outcome although its chain
may go on (a worker taken for lost returns): settled runs are not listed again, so a run may stay "failed" whose task succeeded in the
end, and of two reconcilers that listed a run the later save stands whatever it read (scheduler/services.py:327-356); `OutcomeFollowsChain` therefore asks for
outcomes the chain has had. A page that dies while it creates a document leaves one without a version, as does the
import of an empty body (runbook/service.py:346-359, bundle.py:239-240), which is the second case of `HeadIsNewest`. `stats()` of the log handler may miss what two threads added at once.

## 5. Proofs

All theorems hold for every value of the constants that satisfies the modules' named assumptions: disjoint
sets of processes, natural bounds, a positive number of attempts, two paired sites, values such as `None`, `Absent` or `0`
that are no instant, row or contact. The sets of workers, ticks, requests, rows, jobs, threads and janitors are
arbitrary; only the triggers of a scheduler are assumed to be finitely many, because `OneRunAtATime` counts them.
Two loops of the code have a limit on their turns, and an assumption says that it is out of reach: `ChainsFit` (no
budget or pin exceeds `_MAX_CHAIN`; the code caps retries at 10 and walks 1000 steps) and `StepsSuffice` (a preview ends
before the 10 000 turns of the calendar loop are used up, which are 833 years of months).

Each proof has the same shape: an inductive invariant, found with TLC first, a lemma or a case per action, a
step per conjunct the action can disturb. What makes an invariant inductive is nearly always what a process
*knows*: the instance it loaded, the row it listed, the answer it has and the write it is on the way to make.

* **TaskQueueProofs.** `IInv` is `TypeOK`, `RowInv` (what a row's columns say of each other), `ThreadInv` (what
  a thread between two statements knows of the row it holds), `ChainInv` (attempt numbers, parents and
  budgets), `ChainsAreLinear` and `SupersedeInv` (a stamped parent, its cancelled child). None of the
  properties is inductive alone: that a cancelled retry stays cancelled rests on what the thread that
  cancels has seen, and that on chains being linear. Proved: `TypeCorrect`, `LinearChains`, `CancelledForGood`,
  `KeptOutcome`, `NoticeableDoubleRun`, `TrueCancelClaim`. Two more conjuncts, `Executing` (a worker executes the row it
  claimed and has not reported it) and `PinDecided` (a thread about to retry a pinned row saw its body raise), give
  `PinIsNeverAggressive` and the action property `OutcomesAreFinal`: what a worker wrote about its attempt is never
  written again, except that a forced stop of that worker in the receiver of a success fails it (`StopsOverturn`; a
  failure stands without exception, `FailuresStand`). *Readers:* the walk of `chain_outcome` goes from a row to its child while there is one, so what it has
  seen after n turns is the attempts 1 to n (`WalkIterates`, by the least n for which it would not be); attempt numbers have
  no gap (`ChainIsDense`), whence the walk ends on the last one: `ForksAreReported`, and `OutcomeIsLast`, which says of which row
  the outcome is. *Refinement:* `RetryDecided` says what a thread about to retry knows of the row (it is lost, or failed by
  its own account), `RetryJustified` what that leaves in the table, `StampedIsLost` that only a retry of a lost
  attempt is cancelled. From them `RetriesAreJustified`, and `QueueImplementsLedger`: `LedgerInitialised`, then `NextRefinesLedger`
  with one lemma per statement that moves the ledger (`EnqueueAccepts`, `ClaimStarts`, `WriteReports`, `ReapGivesUp`,
  `StopsOverturn`, `CancelWithdraws`, `InsertRepeats`); every other statement leaves the phases, parents, numbers and limits alone
  (`LedgerStutters`).
* **SchedulerProofs.** `ClaimInv` is `TypeOK`, `Held` (the instance a tick holds), `CursorAhead` (`next_run_at` is
  later than every claimed slot that no stale save put back), `OnlyRewindsReclaim` and `OnlyEditsRewind`;
  that `next_run` is later than its argument comes from a lemma on `step_interval` and `cron_next`. Proved:
  `SchedulerTypes`, `ReclaimNeedsRewind`, `TicksAloneFireOnce`, `NoSilentClaim`. The run history has an invariant of its
  own, `RunHistory`: `Chains` (the outcome a chain has is one it has had; while no worker was lost, a chain that has had
  one is finished), `Settled` (a settled run carries an outcome its chain has had, and whoever is about to write an
  outcome has read it from the chain of the run it writes), `InOrder` (rows are in the order of their creation) and `Spaced` (under a single trigger every
  unfinished run but the newest is past the stale-run limit). From it `RunsFollowChains` and `GuardKeepsApart`, the
  overlap guard: it looks at the newest run only, which suffices because the others have aged.
* **WebhooksProofs.** `IInv` is `TypeOK`, `OneSendAtATime`, `CursorOK` (a cursor is set exactly while the row
  is RETRYING), `ListedOK` (a cursor that a tick holds is due as long as it is the row's), `BudgetOK` (POSTs,
  attempts and the limit) and `CarrierOK` (what whoever is on the way with a delivery knows of it). Proved: `TypeCorrect`,
  `NeverSentTwiceAtOnce`, `AttemptsStayBounded`, the action property `RetriesAwaitBackoff`, and, with `FormOpened`,
  `FailingEndpointIsOff`: the worker whose addition reaches the threshold sees it when it checks. `MailOK` (a worker on its
  way to the failure mail holds a delivery that is dead and has not been mailed) gives `DeadMailIsSentOnce`;
  `EndedDeliveryIsFinal` is the action property that a delivery which was delivered or given up sees no further POST,
  attempt or status (a replay is a delivery of its own).
* **InputsProofs.** *Inbound webhooks:* the depth of a thread is 1 exactly while it runs a handler that does not
  cascade (`DepthOK`), whence `LoopGuard`: the events sent are the writes made outside handlers. *Sync:* `SyncInv` says of
  the instances that processes hold what `MarkerExplainsOff` says of rows (`HeldExplainsOff`), because a save
  writes them back whole, and that a sync holding a row an operator chose for sees the mark (`ChoiceIsMarked`). Proved:
  `MarkerIsNeverLost`, `OverrideAlwaysSticks`. *Cadences:* `NextRunIsFirst` and `MissedPeriodsCount` say what `next_run` and
  `missed_periods` compute for every cadence with a fixed period, anchor and instant. `OnGrid` says that the walk
  has listed the fires of the grid one after the other. Months and years have no grid, because a short
  month clips the day: `OnCalendar` says that the fires listed are consecutive turns of the loop from the anchor, the first of
  them its first turn later than the start, and `CursorsCompose` that walking on from a fire is walking on
  from the anchor (a clipped day stays clipped). From both `PreviewSkipsNothing` and `PreviewCountsMissed`, for every cadence.
* **RadioProofs.** *Transmit:* `IInv` is `TypeOK`, `OneTransmission`, `KeyedWhilePlaying`, `KeyHasOwner` (until the first
  fault a rig keyed by CAT has a transmission at work) and `PttSteps` (who goes through the keying steps).
  Proved: `OneAtATime`, `AudioIsKeyed`, `KeyIsOwned`. *Receiver:* `ReceiverInv` is `ReceiverTypeOK`, `SupervisedIsNamed` and
  `PlayingIsOnFile` and `OwnIsSupervised`: what plays is the process on file, except between `Popen` and the note of its pid, when
  every other one has been reaped or is lost (never noted, or found by a `_reap_stale` and not killed); and of what the running server
  process spawned only the supervised one is alive, so that the lost are all from before a restart. Proved: `NoUntrackedReceiver` and
  the action property `StopIsSilence`.
* **ServicesProofs.** *Log capture:* `LogCaptureInv` adds to `RecordsAddUp` that a thread holds records only inside a write
  (`HandsAreEmpty`). Proved: `RecordsAlwaysAddUp`. *Approvals:* `ApprovalsInv` is `ApprovalsTypeOK`, `FilingIsFresh` (a key being filed is
  not in the table), `VerdictsAreOutcomes` (what calls want to write), `WinnerIsAlone` (at most one call is between
  claim and callback of a request, it holds the outcome that stands, and no effect has run),
  `AnnouncesWhatStands` (the instance it holds has the status of the row), `NoEarlyEffect` (no
  effect while a request is open) and `EffectLostOnlyByCrash`. The refinement needs `WinnerIsAlone` and `NoEarlyEffect`:
  without them a second callback would be a step that the gate does not allow. Proved: `ApprovalsTypeCorrect`,
  `EffectsSurviveRaces`, and `ApprovalsImplementGate`, by `GateInitialised` (the initial states map to initial states)
  and `NextRefinesGate` (every step is a step of the gate or leaves its variables alone), one lemma per action.
* **RecordsProofs.** *Heartbeat:* the three theorems assume `Serialised`, which is what the SQLite settings of the
  repository give (`BEGIN IMMEDIATE`); without it `PruneIsInvisible` is false (section 4). `Balanced` says that a recorded
  beat is a row or in its day's totals; `Isolated` that an open prune holds what the tables still say; `PageBelow`
  that a page which has read the totals is below what was recorded by at least the beats still to come. Proved:
  `NoBeatCountsTwice` and the action property `PrunesAreInvisible`. *Grants:* `CodesAreFresh`, `KeysAreClaimed` (a key went
  out with the claim of its code) and `ScrubsAreLate` (a scrub lists only codes whose time is over); a redemption
  reads only those whose time is not, so for the two to meet the time must run out in between. Proved:
  `KeysWorkOnce`. *Logbook:* `HeldMarksAreTrue` (of the instances that forms write back) and `SentIsRemembered` (whoever will mark
  a row has the service's answer for it). Proved: `MarksStayTrue`.
* **RunbookProofs.** `RunbookInv` is `RunbookTypeOK`, `VersionsAreDistinct`, `MemoriesAreOld`, `HeadsAreNumbered`,
  `NumbersHaveNoGap`, `CutInOrder` (ids and numbers grow together until a stale instance has taken the head back),
  `HeadIsNewest`, `HeadlessIsNew` (whoever holds a document that has no head saw it without one), `CreationsComeFirst` (a document has one creator, and
  the version it has yet to make the head is the only one) and `PrunesAreSafe`: what a janitor has listed for deletion has aged or still has `Keep` newer versions, whatever
  others delete meanwhile, because they delete older ones first. Proved: `HeadStaysNewest` and the
  action property `PrunesSpareRecent`. Its first attempt failed for a good reason: once a stale request has taken the head
  back, a young version may have a lower number than an aged one, and two janitors, one that counts the aged
  version and one that deletes it, then leave fewer than `Keep`. TLC shows it with `Keep = 1`, two janitors, one editor
  and four versions, in sixteen steps. `RecentSurvive` therefore speaks of documents that no stale instance has overtaken.

Only model-checked: the liveness properties (`LostTaskIsReaped`, `DoubleRunIsNoticed`, `MissedRetryIsRepaired`, `DueIsServed`,
`OutcomeReachesRun`, `DeliverySettles`, `LockComesFree`, `OperationsEnd`, `OverdueIsSettled`, `CaptureSettles`), which are out of the
prover's reach. Every safety property of a passing run has a theorem.

## 6. Fairness

* Tasks: a worker process is started again by its supervisor and goes on; a heartbeat thread keeps beating
  and finishes its pass; `reap_tasks` is run from cron; a dead worker's heartbeat grows stale and rows grow
  old, because time passes. Nothing is assumed of a task's body (it may run for ever), of faults, stops or
  pruning.
* Scheduler: ticks keep being called (cron, the beat command or the HTTP trigger) and a started tick goes on.
  Nothing is assumed of the engine, of operators or of how fast the clock moves.
* Webhooks: workers and ticks keep working, a request that has created a delivery goes on to enqueue it,
  back-offs pass.
* Transmit: a started transmission goes on; every exchange with rigctld ends because the socket has a timeout,
  and playback ends or fails. Nothing is assumed of users or of the operator's hand.
* Receiver: every wait of an operation has a timeout, so its next step comes; a spawned `rtl_fm` claims the dongle
  or gives up; a sweep is one pass that ends. Nothing is assumed of when processes die, sinks open or pumps end.
* Approvals: a call that has started runs on unless its process dies; the scheduler runs the sweep every five
  minutes. Nothing is assumed of users, callbacks' results or the clock.
* Log capture: threads are scheduled, applications finish loading, a window's time passes. The poll of the
  capture state is strongly fair: the writer may pass it by while its interval is not over (`SkipPoll`), and
  intervals do end. Nothing is assumed of the database.

## 7. What is not modelled

* Tasks: back-off delays (a retry is READY at once), arguments, queue names, the batch limit of a sweep (`REPAIR_BATCH`, 100), tracing.
* Scheduler: `--no-reconcile`, `prune_job_runs`, the limit of 200 runs per reconcile, `last_enqueued_at`, time zones,
  DST and the general cron syntax (zoneinfo and croniter). The form's computation of the next run and its save
  are one step. Sync and tick meet in the step `TickDisables` of `SchedulerSync` only.
* Webhooks: deletion of an endpoint with its deliveries, `last_status`, payloads, signatures, receivers that do not
  require one, `total_received`, secret rotation. The window of a minute is a fixed one.
* Transmit, receiver: the wire format of rigctld, audio, frequencies, gains, the arithmetic of a sweep, a second survey
  request (refused under the survey's lock), the save of a finished survey, and an exception of `client.close()` in the last `finally` of a
  transmission (transmit.py:82): a socket's `close` would have to fail, and the lock would then not come free.
* Approvals: titles, notes, contexts, e-mail, the kinds' own hooks; there is one kind of request. `SelfApprove` is a constant; the run has it off, as the default is.
* Log capture: contents, exclusions by name, pruning of stored records, a record that cannot be rendered (counted in `errors` and nowhere else).
* Heartbeat: response times, SLA targets, alerts, the other figures of the page, which read the same tables.
* Runbook: bodies, sections, ownership and lock checks, comments, images, subscriptions, exports.
* Logbook: ADIF text, the callsign lookup with its session key, encryption of stored passwords.
* Grants: checks that only reject (redirect address, challenge, scope), client registration, access levels.
* Rig daemon: one lock around starting and stopping a child process. What is left is that `status()` tests and reads
  the shared spec without the lock, of which the repository claims nothing.
* The decoder and the audio engine are floating-point signal processing on one thread: their results are
  outside what TLC can enumerate or the provers can reason about.
* The rest, and with it most of the repository's lines, has no behaviour over time to check: CRUD and API
  frameworks whose handlers run one statement over one row, table and display definitions, pages, forms,
  template tags, management commands that print, deployment checks, settings, migrations, seeds and tests.
  A model of such a handler would restate its assignment. Where such code does meet another actor (the form
  base under the logbook and the endpoint form, the queue page that expires requests lazily, the
  uptime page) it is part of the module whose state it touches.

## 8. Plan

In this order; all but the last step are done.

1. `TaskQueue`, `TaskOutcome`. 2. `Scheduler`, `Schedules`, `SchedulePreview`, `SchedulerSync`.
3. `Webhooks`, `WebhookInbound`. 4. `Transmit`. 5. `Receiver` with the band survey.
6. `Approvals` with its abstract specification `ApprovalGate`, the refinement checked and proved.
7. `LogCapture`. 8. `Heartbeat`, `Runbook`, `Logbook`, `Grants`.
9. A theorem for every safety property that a run checks. 10. `AttemptLedger`, the abstract specification of
`TaskQueue`, the refinement checked and proved.
11. More abstract specifications: `Transmit` as a single-owner radio, `Webhooks` as a delivery with at most
    `max_attempts` sends; then the feeds and the search index, whose workers go through the queue.

----------------------------- MODULE LogCapture -----------------------------
(***************************************************************************)
(* DatabaseLogHandler of one process (apps/telemetry): threads that log    *)
(* put records on a bounded queue, a writer thread stores them in batches  *)
(* and polls the capture window, and logging.shutdown() drains what is     *)
(* left.  Records are told apart only by their level; a queue or batch is  *)
(* the number of records in it.                                            *)
(***************************************************************************)
EXTENDS Integers, FiniteSets

CONSTANTS
    QueueSize, BatchSize,   \* the handler's tunables
    Baseline,               \* TELEMETRY_LOG_LEVEL
    Loggers,                \* the loggers whose levels matter
    ParentOf,               \* the logger hierarchy, "root" at the top
    Configured,             \* the .level each logger has, 0 = NOTSET
    CaptureLoggers,         \* TELEMETRY_CAPTURE_LOGGERS
    Pinned,                 \* PINNED_LOGGERS: logger -> floor
    RecordLevels,           \* bound: the levels of the records logged
    MaxRecords,             \* bound: how many records are logged
    MaxWindows              \* bound: how many capture windows are opened

ASSUME LogCaptureAssumption ==
    /\ QueueSize \in Nat \ {0} /\ BatchSize \in Nat \ {0} /\ Baseline \in Nat
    /\ MaxRecords \in Nat /\ MaxWindows \in Nat
    /\ CaptureLoggers \subseteq Loggers /\ DOMAIN Pinned \subseteq Loggers

VARIABLES
    ready,      \* django_apps.models_ready
    level,      \* the handler's level
    queue,      \* records on the queue
    threads,    \* the writer thread and the thread that shuts logging down
    stopping,   \* the _stopping event
    counts,     \* the handler's counters: written, dropped
    noTable,    \* monotonic() < _no_table_until
    migrated,   \* the telemetry_logrecord table exists
    open,       \* capture windows: the level of each unexpired one, oldest first
    opened,     \* how many windows were opened
    levels,     \* .level of every logger
    saved,      \* _saved_levels: the loggers touched, with their old .level
    offered,    \* history: records that passed the level check
    missed,     \* history: what a concurrent count wrote over
    hurried     \* history: shutdown ran out of time somewhere

logVars == <<ready, level, queue, threads, stopping, counts, noTable, migrated, open,
             opened, levels, saved, offered, missed, hurried>>

Unused == [pc |-> "off", hand |-> 0, attempt |-> 0, base |-> 0]

\* hand: the records of the batch; base: the counter as loaded before the sum.
Thread(pcs) == [pc : pcs, hand : 0 .. BatchSize, attempt : 0 .. 2, base : Nat]

Writer == threads.writer
Closer == threads.closer

LogCaptureTypeOK ==
    /\ ready \in BOOLEAN /\ stopping \in BOOLEAN /\ noTable \in BOOLEAN
    /\ migrated \in BOOLEAN /\ hurried \in BOOLEAN
    /\ queue \in 0 .. QueueSize
    /\ threads \in [writer : Thread({"off", "take", "write", "written", "dropped", "poll"}),
                    closer : Thread({"off", "flush", "write", "written", "dropped", "join",
                                     "last", "closed"})]
    /\ counts \in [written : Nat, dropped : Nat]
    /\ offered \in 0 .. MaxRecords /\ missed \in Int
    /\ DOMAIN saved \subseteq Loggers

LogCaptureInit ==
    /\ ready = FALSE
    /\ level = Baseline
    /\ queue = 0
    /\ threads = [writer |-> Unused, closer |-> Unused]
    /\ stopping = FALSE
    /\ counts = [written |-> 0, dropped |-> 0]
    /\ noTable = FALSE
    /\ migrated \in BOOLEAN
    /\ open = {}
    /\ opened = 0
    /\ levels = Configured
    /\ saved = [n \in {} |-> 0]
    /\ offered = 0
    /\ missed = 0
    /\ hurried = FALSE

-----------------------------------------------------------------------------
(* Logging a record, and starting the writer.                              *)

\* _ensure_worker: a dead or missing writer is started once models are ready.
Ensured == IF Writer.pc = "off" /\ ready
           THEN [threads EXCEPT !.writer = [Unused EXCEPT !.pc = "take"]]
           ELSE threads

\* TelemetryConfig.ready() starts the writer of every process.
AppsReady ==
    /\ ~ready
    /\ ready' = TRUE
    /\ threads' = [threads EXCEPT !.writer = [Unused EXCEPT !.pc = "take"]]
    /\ stopping' = FALSE
    /\ UNCHANGED <<level, queue, counts, noTable, migrated, open, opened, levels,
                   saved, offered, missed, hurried>>

\* emit, under the handler's lock, which shutdown holds from its first flush to
\* the end; a record after that starts the writer again.  (One that cannot be
\* rendered is counted in errors only, and is not among the accepted ones.)
Emit(l) ==
    /\ Closer.pc \in {"off", "closed"}
    /\ offered < MaxRecords
    /\ l >= level
    /\ offered' = offered + 1
    /\ IF queue < QueueSize
       THEN queue' = queue + 1 /\ UNCHANGED counts
       ELSE counts' = [counts EXCEPT !.dropped = @ + 1] /\ UNCHANGED queue
    /\ threads' = Ensured
    /\ stopping' = (stopping /\ threads' = threads)
    /\ UNCHANGED <<ready, level, noTable, migrated, open, opened, levels, saved,
                   missed, hurried>>

-----------------------------------------------------------------------------
(* _take_batch and _write, on the writer thread or on the one that flushes. *)

Taken == IF queue < BatchSize THEN queue ELSE BatchSize

\* Where a thread goes on after its batch.
After(t) == IF t = "writer" THEN "poll" ELSE IF stopping THEN "last" ELSE "flush"

Hold(t, n) == threads' = [threads EXCEPT ![t] =
                              [Unused EXCEPT !.pc = "write", !.hand = n]]

TakeBatch ==
    /\ Writer.pc = "take" /\ ~stopping
    /\ IF queue = 0 THEN threads' = [threads EXCEPT !.writer.pc = "poll"]
       ELSE Hold("writer", Taken)
    /\ queue' = queue - Taken
    /\ UNCHANGED <<ready, level, stopping, counts, noTable, migrated, open, opened,
                   levels, saved, offered, missed, hurried>>

\* _run leaves its loop when _stopping is set, and the thread is gone.
WriterStops ==
    /\ Writer.pc = "take" /\ stopping
    /\ threads' = [threads EXCEPT !.writer = Unused]
    /\ UNCHANGED <<ready, level, queue, stopping, counts, noTable, migrated, open,
                   opened, levels, saved, offered, missed, hurried>>

Done(t) == [threads EXCEPT ![t] = [Unused EXCEPT !.pc = After(t)]]

\* self.written += len(rows), and so for dropped: the counter is loaded, len()
\* is called, the sum is stored; another thread may run in between.
StartCount(t, counter) == threads' = [threads EXCEPT ![t].pc = counter,
                                                     ![t].base = counts[counter]]

\* bulk_create succeeds.
WriteRows(t) ==
    /\ threads[t].pc = "write"
    /\ ~noTable /\ migrated
    /\ StartCount(t, "written")
    /\ UNCHANGED <<ready, level, queue, stopping, counts, noTable, migrated, open,
                   opened, levels, saved, offered, missed, hurried>>

\* A transient failure: two retries, then the batch is given up.
WriteFails(t) ==
    /\ threads[t].pc = "write"
    /\ ~noTable /\ migrated
    /\ IF threads[t].attempt < 2
       THEN threads' = [threads EXCEPT ![t].attempt = @ + 1]
       ELSE StartCount(t, "dropped")
    /\ UNCHANGED <<ready, level, queue, stopping, counts, noTable, migrated, open,
                   opened, levels, saved, offered, missed, hurried>>

\* The table is missing, or was a moment ago: the batch is given up at once.
WriteHasNoTable(t) ==
    /\ threads[t].pc = "write"
    /\ noTable \/ ~migrated
    /\ noTable' = TRUE
    /\ StartCount(t, "dropped")
    /\ UNCHANGED <<ready, level, queue, stopping, counts, migrated, open, opened,
                   levels, saved, offered, missed, hurried>>

\* Mutant: a batch given up is logged and not counted.
ForgetDrop(t) ==
    /\ threads[t].pc \in {"written", "dropped"}
    /\ counts' = [counts EXCEPT !.written =
                    @ + IF threads[t].pc = "written" THEN threads[t].hand ELSE 0]
    /\ threads' = Done(t)
    /\ UNCHANGED <<ready, level, queue, stopping, noTable, migrated, open, opened,
                   levels, saved, offered, missed, hurried>>

StoreCount(t) ==
    LET counter == threads[t].pc IN
    /\ counter \in {"written", "dropped"}
    /\ counts' = [counts EXCEPT ![counter] = threads[t].base + threads[t].hand]
    /\ missed' = missed + (counts[counter] - threads[t].base)
    /\ threads' = Done(t)
    /\ UNCHANGED <<ready, level, queue, stopping, noTable, migrated, open, opened,
                   levels, saved, offered, hurried>>

-----------------------------------------------------------------------------
(* The capture window and the logger levels (capture.py).                  *)

\* start() and stop(); a window also expires by itself.
StartCapture(l) ==
    /\ opened < MaxWindows
    /\ opened' = opened + 1
    /\ open' = open \cup {<<opened, l>>}
    /\ UNCHANGED <<ready, level, queue, threads, stopping, counts, noTable, migrated,
                   levels, saved, offered, missed, hurried>>

StopCapture ==
    /\ open # {}
    /\ open' = {}
    /\ UNCHANGED <<ready, level, queue, threads, stopping, counts, noTable, migrated,
                   opened, levels, saved, offered, missed, hurried>>

WindowExpires(w) ==
    /\ w \in open
    /\ open' = open \ {w}
    /\ UNCHANGED <<ready, level, queue, threads, stopping, counts, noTable, migrated,
                   opened, levels, saved, offered, missed, hurried>>

\* effective_level(active_window()): the window that expires last, whichever.
EffectiveLevels ==
    IF open = {} THEN {Baseline}
    ELSE {IF w[2] < Baseline THEN w[2] ELSE Baseline : w \in open}

\* Logger.getEffectiveLevel: the first ancestor with a level of its own.  The
\* hierarchy modelled is two deep.
EffectiveLevel(ls, n) == IF ls[n] # 0 THEN ls[n] ELSE ls[ParentOf[n]]

\* The pinned loggers, after the capture loggers have been lowered to l.
Lowered(l) ==
    [n \in Loggers |-> IF n \in CaptureLoggers /\ l < EffectiveLevel(levels, n)
                       THEN l ELSE levels[n]]

Floored(ls) ==
    [n \in Loggers |-> IF n \in DOMAIN Pinned /\ EffectiveLevel(ls, n) < Pinned[n]
                       THEN Pinned[n] ELSE ls[n]]

\* _saved_levels.setdefault for every logger whose level is set.
SavedWith(old, new) ==
    [n \in DOMAIN saved \cup {m \in Loggers : new[m] # old[m]} |->
        IF n \in DOMAIN saved THEN saved[n] ELSE old[n]]

\* Mutant: the window's end is noticed and the loggers are left as they are.
LeftLowered == levels

\* restore_levels
Restored == [n \in Loggers |-> IF n \in DOMAIN saved THEN saved[n] ELSE levels[n]]

\* _poll_capture: the handler's level, then apply_levels.
PollCapture ==
    /\ Writer.pc = "poll"
    /\ \E l \in EffectiveLevels :
        /\ level' = l
        /\ IF l >= Baseline
           THEN levels' = Restored /\ saved' = [n \in {} |-> 0]
           ELSE /\ levels' = Floored(Lowered(l))
                /\ saved' = SavedWith(levels, levels')
    /\ threads' = [threads EXCEPT !.writer.pc = "take"]
    /\ UNCHANGED <<ready, queue, stopping, counts, noTable, migrated, open, opened,
                   offered, missed, hurried>>

\* The last poll is less than poll_interval ago.
SkipPoll ==
    /\ Writer.pc = "poll"
    /\ threads' = [threads EXCEPT !.writer.pc = "take"]
    /\ UNCHANGED <<ready, level, queue, stopping, counts, noTable, migrated, open,
                   opened, levels, saved, offered, missed, hurried>>

-----------------------------------------------------------------------------
(* logging.shutdown(): flush(), then close(): stop, join, flush again.     *)

Shutdown ==
    /\ Closer.pc = "off"
    /\ threads' = [threads EXCEPT !.closer.pc = "flush"]
    /\ UNCHANGED <<ready, level, queue, stopping, counts, noTable, migrated, open,
                   opened, levels, saved, offered, missed, hurried>>

\* One turn of flush's loop: a batch, or nothing left, or out of time.
Flush ==
    /\ Closer.pc \in {"flush", "last"}
    /\ \/ /\ queue > 0
          /\ Hold("closer", Taken)
          /\ queue' = queue - Taken
          /\ UNCHANGED <<stopping, hurried>>
       \/ /\ threads' = [threads EXCEPT !.closer.pc =
                            IF @ = "flush" THEN "join" ELSE "closed"]
          /\ stopping' = (stopping \/ Closer.pc = "flush")
          /\ hurried' = (hurried \/ queue > 0)
          /\ UNCHANGED queue
    /\ UNCHANGED <<ready, level, counts, noTable, migrated, open, opened, levels,
                   saved, offered, missed>>

\* join(timeout): the writer has ended, or the wait is over.
Join ==
    /\ Closer.pc = "join"
    /\ threads' = [threads EXCEPT !.closer.pc = "last"]
    /\ hurried' = (hurried \/ Writer.pc # "off")
    /\ UNCHANGED <<ready, level, queue, stopping, counts, noTable, migrated, open,
                   opened, levels, saved, offered, missed>>

-----------------------------------------------------------------------------

Migrate ==
    /\ ~migrated
    /\ migrated' = TRUE
    /\ UNCHANGED <<ready, level, queue, threads, stopping, counts, noTable, open,
                   opened, levels, saved, offered, missed, hurried>>

\* The sixty seconds after a missing table are over.
NoTableEnds ==
    /\ noTable
    /\ noTable' = FALSE
    /\ UNCHANGED <<ready, level, queue, threads, stopping, counts, migrated, open,
                   opened, levels, saved, offered, missed, hurried>>

WriterStep ==
    \/ TakeBatch \/ WriterStops \/ PollCapture \/ SkipPoll
    \/ WriteRows("writer") \/ WriteFails("writer") \/ WriteHasNoTable("writer")
    \/ StoreCount("writer")

CloserStep ==
    \/ Flush \/ Join
    \/ WriteRows("closer") \/ WriteFails("closer") \/ WriteHasNoTable("closer")
    \/ StoreCount("closer")

LogCaptureNext ==
    \/ AppsReady \/ Shutdown \/ WriterStep \/ CloserStep \/ Migrate \/ NoTableEnds
    \/ \E l \in RecordLevels : Emit(l) \/ StartCapture(l)
    \/ StopCapture
    \/ \E w \in open : WindowExpires(w)

LogCaptureSpec == LogCaptureInit /\ [][LogCaptureNext]_logVars

\* Threads are scheduled, the application finishes starting, the poll interval
\* passes, windows expire.
LogCaptureFairness ==
    /\ WF_logVars(WriterStep) /\ SF_logVars(PollCapture)
    /\ WF_logVars(CloserStep) /\ WF_logVars(AppsReady)
    /\ WF_logVars(\E w \in open : WindowExpires(w))

LogCaptureFairSpec == LogCaptureSpec /\ LogCaptureFairness

-----------------------------------------------------------------------------
(* Properties.                                                             *)

\* Every record the handler accepted is on the queue, in a thread's hands,
\* counted in stats() as written or as dropped; a counter misses only what was
\* added while another thread was adding to it.
RecordsAddUp ==
    offered = counts.written + counts.dropped + missed + queue
              + Writer.hand + Closer.hand

\* A record on the queue does not stay there, whatever the database does: a
\* thread takes it and writes or counts it, unless a shutdown ran out of time.
\* And a capture ends by itself: when no window is open, the handler and the
\* loggers go back to their levels, unless the process shuts down.
CaptureSettles ==
    /\ (queue > 0) ~> (queue = 0 \/ hurried)
    /\ (open = {}) ~> (open # {} \/ stopping \/ (level = Baseline /\ levels = Configured))
=============================================================================

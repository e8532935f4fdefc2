----------------------------- MODULE Heartbeat -----------------------------
(***************************************************************************)
(* Uptime records of one monitor (apps/heartbeat): one beat per minute,    *)
(* maintenance windows, the epoch, the pruner that folds old beats into    *)
(* daily totals, and the page that adds totals and surviving beats up.     *)
(* Time is counted in minutes, the beat interval; a day has DayLength of   *)
(* them.  Response times, notes and SLA targets are left out.              *)
(***************************************************************************)
EXTENDS Integers, FiniteSets

CONSTANTS
    DayLength,    \* minutes in a day
    LastDay,      \* bound: the days modelled are 0 .. LastDay
    Retention,    \* HEARTBEAT_RETENTION_DAYS, in days
    Pruners,      \* processes that run prune_old_heartbeats
    Serialised,   \* one write transaction at a time (SQLite, BEGIN IMMEDIATE)
    Windows,      \* bound: the maintenance windows staff may open
    MaxWindows,   \* bound: how many are open at once
    Epochs        \* bound: the instants staff may reset the epoch to

ASSUME HeartbeatAssumption ==
    /\ DayLength \in Nat \ {0} /\ LastDay \in Nat /\ Retention \in Nat \ {0}
    /\ Serialised \in BOOLEAN /\ MaxWindows \in Nat /\ Epochs \subseteq Nat
    /\ Windows \subseteq [from : Int, to : Int, excluded : BOOLEAN]
    /\ \A w \in Windows : w.from < w.to

VARIABLES
    minute,      \* now(), truncated
    beats,       \* Heartbeat rows: status per minute, "none" where there is none
    daily,       \* HeartbeatDaily rows
    epoch,       \* HeartbeatEpoch.started_at, NoEpoch when there is no row
    windows,     \* MaintenanceWindow rows: from, to, excluded
    prunes,      \* what each pruner holds between its statements
    page,        \* what the uptime page holds between its queries
    recorded     \* history: beats ever recorded, per day

beatVars == <<minute, beats, daily, epoch, windows, prunes, page, recorded>>

Days == 0 .. LastDay

Minutes == 0 .. (LastDay + 1) * DayLength - 1

NoEpoch == -1

DayOf(t) == t \div DayLength

\* _day_bounds
DayStart(d) == d * DayLength
DayEnd(d) == (d + 1) * DayLength
DayMinutes(d) == {t \in Minutes : DayStart(d) <= t /\ t < DayEnd(d)}

Empty == [ok |-> 0, fail |-> 0, maintenance |-> 0]

NoPrune == [pc |-> "idle", cutoff |-> 0, batch |-> [d \in Days |-> Empty],
            rows |-> [d \in Days |-> Empty]]

NoPage == [pc |-> "idle", day |-> 0, ok |-> 0, observed |-> 0]

Totals == [ok : Nat, fail : Nat, maintenance : Nat]

\* A prune between two statements of its transaction.
Prune == [pc : {"idle", "grouped", "read"}, cutoff : Int,
          batch : [Days -> Totals], rows : [Days -> Totals]]

\* The page between two queries.
Page == [pc : {"idle", "summaries", "raw", "shown"}, day : Days, ok : Nat, observed : Nat]

HeartbeatTypeOK ==
    /\ minute \in Minutes
    /\ beats \in [Minutes -> {"none", "ok", "fail"}]
    /\ daily \in [Days -> Totals]
    /\ epoch \in Minutes \cup {NoEpoch}
    /\ windows \subseteq [from : Int, to : Int, excluded : BOOLEAN]
    /\ prunes \in [Pruners -> Prune]
    /\ page \in Page
    /\ recorded \in [Days -> Nat]

HeartbeatInit ==
    /\ minute = 0
    /\ beats = [t \in Minutes |-> "none"]
    /\ daily = [d \in Days |-> Empty]
    /\ epoch = NoEpoch
    /\ windows = {}
    /\ prunes = [p \in Pruners |-> NoPrune]
    /\ page = NoPage
    /\ recorded = [d \in Days |-> 0]

\* With BEGIN IMMEDIATE nothing is written while a prune's transaction is open.
MayWrite == Serialised => \A p \in Pruners : prunes[p].pc = "idle"

-----------------------------------------------------------------------------
(* Checks, windows and the epoch.                                          *)

ClockTick ==
    /\ minute + 1 \in Minutes
    /\ minute' = minute + 1
    /\ UNCHANGED <<beats, daily, epoch, windows, prunes, page, recorded>>

\* run_monitor_check: update_or_create of this minute's beat, then
\* HeartbeatEpoch.ensure_epoch from the oldest surviving one.
RunMonitorCheck(status) ==
    /\ MayWrite
    /\ beats' = [beats EXCEPT ![minute] = status]
    /\ recorded' = [recorded EXCEPT ![DayOf(minute)] =
                        @ + (IF beats[minute] = "none" THEN 1 ELSE 0)]
    /\ epoch' = IF epoch # NoEpoch THEN epoch
                ELSE CHOOSE t \in Minutes :
                        /\ beats'[t] # "none"
                        /\ \A s \in Minutes : beats'[s] # "none" => t <= s
    /\ UNCHANGED <<minute, daily, windows, prunes, page>>

\* HeartbeatEpoch.reset from the SLA form, truncated to the minute.
ResetEpoch(t) ==
    /\ MayWrite
    /\ epoch' = t
    /\ UNCHANGED <<minute, beats, daily, windows, prunes, page, recorded>>

\* open_window / maintenance_create; open_window_for starts now.
OpenWindow(w) ==
    /\ MayWrite
    /\ Cardinality(windows) < MaxWindows
    /\ windows' = windows \cup {w}
    /\ UNCHANGED <<minute, beats, daily, epoch, prunes, page, recorded>>

\* maintenance_delete
DeleteWindow(w) ==
    /\ MayWrite
    /\ w \in windows
    /\ windows' = windows \ {w}
    /\ UNCHANGED <<minute, beats, daily, epoch, prunes, page, recorded>>

Active(w) == w.from <= minute /\ w.to > minute

\* close_windows: active windows end now; future ones go if asked.
CloseWindows(deleteFuture) ==
    /\ MayWrite
    /\ windows' = {IF Active(w) THEN [w EXCEPT !.to = minute] ELSE w :
                    w \in {v \in windows : ~(deleteFuture /\ v.from > minute)}}
    /\ windows' # windows
    /\ UNCHANGED <<minute, beats, daily, epoch, prunes, page, recorded>>

\* get_excluded_ranges: the merged SLA-excluded windows, as the minutes in them.
Excluded == {t \in Minutes : \E w \in windows : w.excluded /\ w.from <= t /\ t < w.to}

\* expected_intervals_for_day: from the epoch row, up to now, less maintenance.
Expected(d) ==
    Cardinality({t \in DayMinutes(d) \ Excluded : t >= epoch /\ t < minute})

-----------------------------------------------------------------------------
(* prune_old_heartbeats: one transaction of grouped count, get_or_create,  *)
(* save and delete.                                                        *)

With(status, ts) == {t \in ts : beats[t] = status}

\* Mutant: the beat at the cutoff is counted, and not deleted.
OldRecordsInclusive(cutoff) == {t \in Minutes : beats[t] # "none" /\ t <= cutoff}

\* The old_records queryset, evaluated anew by every statement that uses it.
OldRecords(cutoff) == {t \in Minutes : beats[t] # "none" /\ t < cutoff}

\* Mutant: the totals forget to set the excluded beats apart.
BatchUnsplit(d, cutoff) ==
    LET old == OldRecords(cutoff) \cap DayMinutes(d)
    IN [ok |-> Cardinality(With("ok", old)), fail |-> Cardinality(With("fail", old)),
        maintenance |-> 0]

\* A day's share of the batch: beats outside the excluded ranges by status,
\* beats inside them under maintenance.
Batch(d, cutoff) ==
    LET old == OldRecords(cutoff) \cap DayMinutes(d)
    IN [ok |-> Cardinality(With("ok", old \ Excluded)),
        fail |-> Cardinality(With("fail", old \ Excluded)),
        maintenance |-> Cardinality(old \cap Excluded)]

Cutoff == minute - Retention * DayLength

\* The transaction opens and the old records are counted.
PruneGroup(p) ==
    /\ prunes[p].pc = "idle"
    /\ MayWrite
    /\ OldRecords(Cutoff) # {}
    /\ prunes' = [prunes EXCEPT ![p] =
           [NoPrune EXCEPT !.pc = "grouped", !.cutoff = Cutoff,
                           !.batch = [d \in Days |-> Batch(d, Cutoff)]]]
    /\ UNCHANGED <<minute, beats, daily, epoch, windows, page, recorded>>

\* get_or_create: the totals the batch will be added to.
PruneRead(p) ==
    /\ prunes[p].pc = "grouped"
    /\ prunes' = [prunes EXCEPT ![p].pc = "read", ![p].rows = daily]
    /\ UNCHANGED <<minute, beats, daily, epoch, windows, page, recorded>>

Plus(a, b) == [ok |-> a.ok + b.ok, fail |-> a.fail + b.fail,
               maintenance |-> a.maintenance + b.maintenance]

\* Accumulates into the row that was read.
Fold(rows, batch) == [d \in Days |-> Plus(rows[d], batch[d])]

\* The days the batch touches are saved, its beats deleted, the transaction
\* committed.
PruneCommit(p) ==
    LET prune == prunes[p]
        totals == Fold(prune.rows, prune.batch) IN
    /\ prune.pc = "read"
    /\ daily' = [d \in Days |-> IF prune.batch[d] # Empty THEN totals[d] ELSE daily[d]]
    /\ beats' = [t \in Minutes |-> IF t < prune.cutoff THEN "none" ELSE beats[t]]
    /\ prunes' = [prunes EXCEPT ![p] = NoPrune]
    /\ UNCHANGED <<minute, epoch, windows, page, recorded>>

-----------------------------------------------------------------------------
(* _daily_uptime_map: the summaries are read, then the raw beats.          *)

Observed(d) == {t \in DayMinutes(d) \ Excluded : beats[t] # "none"}

ReadSummaries(d) ==
    /\ page.pc = "idle"
    /\ DayOf(minute) > d
    /\ page' = [pc |-> "summaries", day |-> d, ok |-> daily[d].ok,
                observed |-> daily[d].ok + daily[d].fail]
    /\ UNCHANGED <<minute, beats, daily, epoch, windows, prunes, recorded>>

\* raw_by_date: only days with surviving beats are looked at again.
FindRaw ==
    /\ page.pc = "summaries"
    /\ page' = [page EXCEPT !.pc = IF \E t \in DayMinutes(page.day) : beats[t] # "none"
                                   THEN "raw" ELSE "shown"]
    /\ UNCHANGED <<minute, beats, daily, epoch, windows, prunes, recorded>>

ReadBeats ==
    LET raw == Observed(page.day) IN
    /\ page.pc = "raw"
    /\ page' = [page EXCEPT !.pc = "shown", !.ok = @ + Cardinality(With("ok", raw)),
                            !.observed = @ + Cardinality(raw)]
    /\ UNCHANGED <<minute, beats, daily, epoch, windows, prunes, recorded>>

LeavePage ==
    /\ page.pc = "shown"
    /\ page' = NoPage
    /\ UNCHANGED <<minute, beats, daily, epoch, windows, prunes, recorded>>

HeartbeatNext ==
    \/ ClockTick
    \/ \E status \in {"ok", "fail"} : RunMonitorCheck(status)
    \/ \E t \in Epochs \cap Minutes : ResetEpoch(t)
    \/ \E w \in Windows : OpenWindow(w)
    \/ \E w \in windows : DeleteWindow(w)
    \/ \E deleteFuture \in BOOLEAN : CloseWindows(deleteFuture)
    \/ \E p \in Pruners : PruneGroup(p) \/ PruneRead(p) \/ PruneCommit(p)
    \/ \E d \in Days : ReadSummaries(d)
    \/ FindRaw \/ ReadBeats
    \/ LeavePage

HeartbeatSpec == HeartbeatInit /\ [][HeartbeatNext]_beatVars

-----------------------------------------------------------------------------
(* Properties.                                                             *)

\* What the page computes for a completed day: beats up, and the denominator.
Figure(d) ==
    LET ok == daily[d].ok + Cardinality(With("ok", Observed(d)))
        observed == daily[d].ok + daily[d].fail + Cardinality(Observed(d))
    IN <<ok, IF observed > Expected(d) THEN observed ELSE Expected(d)>>

\* status.py: a completed day's uptime does not change as its beats cross the
\* retention boundary, maintenance or not.
PruneIsInvisible ==
    [][beats' # beats /\ minute' = minute /\ recorded' = recorded
           /\ windows' = windows /\ epoch' = epoch
       => \A d \in Days : d < DayOf(minute) => Figure(d)' = Figure(d)]_beatVars

\* A page that reads totals and beats while a prune commits in between may
\* miss beats, but never counts one twice: no day is shown above what was
\* recorded.
NeverOvercounts ==
    page.pc = "shown" => page.ok <= page.observed /\ page.observed <= recorded[page.day]

\* status.py: "The halves are disjoint by construction, so addition is exact":
\* without maintenance the page counts every beat of a completed day.
PageIsExact ==
    page.pc = "shown" /\ MaxWindows = 0 => page.observed = recorded[page.day]
=============================================================================

-------------------------- MODULE SchedulePreview --------------------------
(***************************************************************************)
(* The preview of a cadence being edited: ScheduledJobForm.preview_runs    *)
(* and the scheduler_preview endpoint walk next_run from fire to fire.     *)
(* The walk is what the properties of the arithmetic are stated on.  An    *)
(* interval in months or years has the type "calendar" here.               *)
(***************************************************************************)
EXTENDS Schedules, Sequences, FiniteSetsExt

CONSTANTS
    Cadences,       \* the cadences an operator may type
    Starts,         \* instants at which the preview is asked for
    Dates,          \* dates at which a calendar cadence's preview is asked for
    PreviewRuns,    \* n: how many fires are shown
    MonthDays,      \* lengths of the twelve months
    MaxSteps        \* bound of the calendar loops, for the code's 10_000

CalendarType ==
    [type : {"calendar"}, every : Nat, anchor_at : Instants, run_at : {None}]

ASSUME PreviewAssumption ==
    /\ None \notin Nat
    /\ Cadences \subseteq CadenceType \cup CalendarType
    /\ Starts \subseteq Nat /\ Dates \subseteq Nat
    /\ PreviewRuns \in Nat
    /\ MonthDays \in [1..12 -> 28..31] /\ MaxSteps \in Nat

-----------------------------------------------------------------------------
(* Month and year intervals (the second halves of _step_interval and       *)
(* missed_periods): relativedelta is not linear, so the code walks from    *)
(* the anchor one period at a time.  A date is 100 * month + day, months   *)
(* counted from the January of the anchor's year, so that dates compare as *)
(* numbers.                                                                *)

Month(t) == t \div 100
Day(t) == t % 100
DaysIn(m) == MonthDays[(m % 12) + 1]

(* t + relativedelta(months=k): the day is clipped to the month's length. *)
AddMonths(t, k) ==
    LET m == Month(t) + k
    IN  100 * m + (IF Day(t) > DaysIn(m) THEN DaysIn(m) ELSE Day(t))

(* The loop's cursor after each turn: a period is added to the last sum.   *)
Cursors(from, months) ==
    LET at[i \in 0..MaxSteps] == IF i = 0 THEN from ELSE AddMonths(at[i - 1], months)
    IN  at
Cursor(from, months, n) == Cursors(from, months)[n]

(* The first cursor later than `after', or the last if the loop runs out. *)
calendar_step(anchor, months, after) ==
    LET later == {n \in 0..(MaxSteps - 1) : Cursor(anchor, months, n) > after}
    IN  Cursor(anchor, months, IF later = {} THEN MaxSteps ELSE Min(later))

(* How many cursors after scheduled_for are not later than now. *)
calendar_missed(months, scheduled_for, now) ==
    Cardinality({n \in 1..MaxSteps : Cursor(scheduled_for, months, n) <= now})

(* No calendar loop runs out: 10 000 turns are at least 833 years.         *)
ASSUME StepsSuffice == \A d \in Dates : Month(d) + PreviewRuns <= MaxSteps

-----------------------------------------------------------------------------
(* The preview.                                                            *)

VARIABLES
    cad,    \* the throwaway instance
    start,  \* timezone.now() when the walk began
    after,  \* the cursor
    out     \* the fires listed so far

previewVars == <<cad, start, after, out>>

PreviewInit ==
    /\ cad \in {c \in Cadences : ~Malformed(c)}
    /\ start \in IF cad.type = "calendar" THEN Dates ELSE Starts
    /\ after = start
    /\ out = <<>>

(* next_run, with calendar intervals. *)
Following(c, t) ==
    IF c.type = "calendar"
    THEN calendar_step(IF c.anchor_at = None THEN t ELSE c.anchor_at, c.every, t)
    ELSE next_run(c, t)

(* missed_periods, with calendar intervals. *)
Missed(c, scheduled_for, t) ==
    IF c.type = "calendar" THEN calendar_missed(c.every, scheduled_for, t)
    ELSE missed_periods(c, scheduled_for, t)

(* One turn of the loop; it breaks on None. *)
Walk ==
    /\ Len(out) < PreviewRuns
    /\ Following(cad, after) # None
    /\ out' = Append(out, Following(cad, after))
    /\ after' = Following(cad, after)
    /\ UNCHANGED <<cad, start>>

PreviewNext == Walk

PreviewSpec == PreviewInit /\ [][PreviewNext]_previewVars

-----------------------------------------------------------------------------
(* When the documentation says a cadence fires: the reference that next_run *)
(* is compared with.  For intervals the docstring of _step_interval has    *)
(* it: anchor + k * delta.  Periods are at least 1, so the preview lists   *)
(* no fire with a number above `last'.                                     *)
FiresAt(c, from) ==
    LET anchor == IF c.anchor_at = None THEN from ELSE c.anchor_at
        first == IF c.anchor_at = None THEN 1 ELSE 0
        last == from + PreviewRuns
    IN  CASE c.type = "once" -> {c.run_at}
          [] c.type = "cron" -> {k * c.every : k \in 0..last}
          [] c.type = "interval" -> {anchor + k * c.every : k \in first..last}
          [] c.type = "calendar" -> {AddMonths(anchor, k * c.every) : k \in first..MaxSteps}

CommonDay ==
    cad.type = "calendar" =>
        Day(IF cad.anchor_at = None THEN start ELSE cad.anchor_at) <= 28

(* Every fire listed is later than the one before it and no instant at     *)
(* which the cadence fires lies between them: the jump over whole periods  *)
(* in _step_interval neither skips an instant nor returns `after' itself.  *)
(* A calendar interval keeps to the docstring if every month has its day;  *)
(* an anchor on a later day loses it at the first shorter month.           *)
NoFireSkipped ==
    CommonDay => \A i \in DOMAIN out :
        LET prev == IF i = 1 THEN start ELSE out[i - 1]
        IN  /\ out[i] > prev
            /\ out[i] \in FiresAt(cad, start)
            /\ ~ \E t \in FiresAt(cad, start) : prev < t /\ t < out[i]

(* A tick that is due for the first fire listed but only runs at the last  *)
(* one has missed exactly the fires in between: missed_periods, which the  *)
(* skip policy trusts, and next_run agree, at and around each boundary.    *)
MissedAgreesWithNextRun ==
    out # <<>> =>
        /\ Missed(cad, out[1], after) = Len(out) - 1
        /\ Len(out) > 1 => Missed(cad, out[1], after - 1) = Len(out) - 2
=============================================================================

----------------------------- MODULE Schedules -----------------------------
(***************************************************************************)
(* The cadence arithmetic of apps/scheduler/schedules.py for fixed units:  *)
(* when does a schedule fire next, and how many fires did a late tick      *)
(* miss.  An instant is a natural number.  A cadence is the record of the  *)
(* model's cadence fields; `every' stands for the parsed interval_spec or  *)
(* cron_expression, 0 for one that does not parse.                         *)
(***************************************************************************)
EXTENDS Integers

CONSTANT None           \* Python's None, a NULL column

Instants == Nat \cup {None}

CadenceType ==
    [type : {"once", "interval", "cron"}, every : Nat,
     anchor_at : Instants, run_at : Instants]

(* next_run raises ScheduleConfigError. *)
Malformed(c) ==
    IF c.type = "once" THEN c.run_at = None ELSE c.every = 0

(* Mutant: the anchor counts as a fire even when it is `after' itself. *)
StepFromAnchor(anchor, every, after) ==
    IF after <= anchor
    THEN anchor
    ELSE anchor + ((after - anchor) \div every + 1) * every

(* anchor, if it is still to come; else the first later multiple. *)
step_interval(anchor, every, after) ==
    IF after < anchor
    THEN anchor
    ELSE anchor + ((after - anchor) \div every + 1) * every

(* croniter's get_next, for expressions that fire on a regular grid. *)
cron_next(every, after) == (after \div every + 1) * every

(* Defined for cadences that are not Malformed. *)
next_run(c, after) ==
    IF c.type = "once" THEN (IF c.run_at > after THEN c.run_at ELSE None)
    ELSE IF c.type = "interval"
         THEN step_interval(IF c.anchor_at = None THEN after ELSE c.anchor_at,
                            c.every, after)
         ELSE cron_next(c.every, after)

(* Mutant: a period that has only begun counts as missed. *)
MissedRoundsUp(c, scheduled_for, now) ==
    IF now <= scheduled_for \/ c.type = "once" THEN 0
    ELSE (now - scheduled_for + c.every - 1) \div c.every

(* The loop over _cron_next counts the grid instants in (scheduled_for,    *)
(* now].  It gives up at 10 000, which only the message of a run shows.    *)
missed_periods(c, scheduled_for, now) ==
    IF now <= scheduled_for \/ c.type = "once" THEN 0
    ELSE IF c.type = "interval" THEN (now - scheduled_for) \div c.every
    ELSE now \div c.every - scheduled_for \div c.every
=============================================================================

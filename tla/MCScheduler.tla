---------------------------- MODULE MCScheduler ----------------------------
EXTENDS Scheduler, TLC

Every(n) == [type |-> "interval", every |-> n, anchor_at |-> None, run_at |-> None]
Cron(n) == [type |-> "cron", every |-> n, anchor_at |-> None, run_at |-> None]
Once(t) == [type |-> "once", every |-> 0, anchor_at |-> None, run_at |-> t]

Triggers == Permutations(Ticks)

MCPlain == {Cron(1)}
MCEnding == {Cron(1), Once(1)}
MCRetuned == {Every(1), Cron(0)}
=============================================================================

-------------------------- MODULE SchedulerProofs --------------------------
(***************************************************************************)
(* Proofs about Scheduler, for any number of triggers and staff requests,  *)
(* any cadences, any clock bound and any number of failures.               *)
(*                                                                         *)
(* Each step theorem has the same shape: one case per action.  The steps   *)
(* that matter are Claim (the conditional UPDATE moves next_run_at past    *)
(* every claimed slot), EditSave (the only step that moves it back) and    *)
(* the inserts of run rows.  A run follows its chain because what a        *)
(* reconciler holds was read from the chain of the run it writes           *)
(* (Settled); runs keep apart because the newest unfinished one is the     *)
(* only one the guard has not let age (Spaced).                            *)
(***************************************************************************)
EXTENDS Scheduler, FiniteSetTheorems, WellFoundedInduction, TLAPS

(* The jump of _step_interval over whole periods lands after the gap. *)
LEMMA PeriodsExceedGap ==
    ASSUME NEW g \in Nat, NEW p \in Nat, p # 0
    PROVE  /\ (g \div p + 1) * p \in Nat
           /\ (g \div p + 1) * p > g
  <1>1. p \in Nat \ {0}
    OBVIOUS
  <1> QED
    BY <1>1, Z3

(* next_run is strictly later than `after', or None. *)
LEMMA NextRunLater ==
    ASSUME NEW c \in CadenceType, ~Malformed(c), NEW t \in Nat
    PROVE  /\ next_run(c, t) \in Instants
           /\ next_run(c, t) # None => next_run(c, t) \in Nat /\ next_run(c, t) > t
  <1> USE SchedulerAssumption DEF CadenceType, Malformed, Instants
  <1>1. CASE c.type = "once"
    BY <1>1 DEF next_run
  <1>2. CASE c.type = "interval"
    <2> DEFINE a == IF c.anchor_at = None THEN t ELSE c.anchor_at
    <2>1. a \in Nat /\ c.every \in Nat /\ c.every # 0
      BY <1>2
    <2>2. next_run(c, t) = step_interval(a, c.every, t)
      BY <1>2 DEF next_run
    <2> HIDE DEF a
    <2>3. CASE t < a
      BY <2>1, <2>2, <2>3 DEF step_interval
    <2>4. CASE ~(t < a)
      <3>1. t - a \in Nat
        BY <2>1, <2>4
      <3>2. /\ ((t - a) \div c.every + 1) * c.every \in Nat
            /\ ((t - a) \div c.every + 1) * c.every > t - a
        BY <2>1, <3>1, PeriodsExceedGap
      <3> DEFINE k == ((t - a) \div c.every + 1) * c.every
      <3>3. next_run(c, t) = a + k
        BY <2>2, <2>4 DEF step_interval
      <3>4. k \in Nat /\ k > t - a
        BY <3>2
      <3> HIDE DEF k
      <3> QED
        BY <2>1, <3>3, <3>4
    <2> QED
      BY <2>3, <2>4
  <1>3. CASE c.type = "cron"
    <2>1. next_run(c, t) = (t \div c.every + 1) * c.every
      BY <1>3 DEF next_run, cron_next
    <2>2. c.every \in Nat /\ c.every # 0
      BY <1>3
    <2>3. (t \div c.every + 1) * c.every \in Nat /\ (t \div c.every + 1) * c.every > t
      BY <2>2, PeriodsExceedGap
    <2> QED
      BY <2>1, <2>3
  <1> QED
    BY <1>1, <1>2, <1>3

-----------------------------------------------------------------------------
(* Every nonempty set of naturals has a least member. *)
LEMMA LeastNumber ==
    ASSUME NEW S, S \subseteq Nat, S # {}
    PROVE  \E x \in S : \A y \in S : x <= y
  <1>1. IsWellFoundedOn(OpToRel(<, Nat), Nat)
    BY NatLessThanWellFounded
  <1>2. PICK x \in S : \A y \in S : ~(<<y, x>> \in OpToRel(<, Nat))
    BY <1>1, WFMin
  <1>3. \A y \in S : ~(y < x)
    BY <1>2 DEF OpToRel
  <1> QED
    BY <1>3

(* Newest picks the last: a nonempty set of run numbers has a greatest one. *)
LEMMA NewestIsGreatest ==
    ASSUME NEW n \in Nat, NEW S, S \subseteq 1..n, S # {}
    PROVE  Newest(S) \in S /\ \A j \in S : j <= Newest(S)
  <1> DEFINE D == {k \in 0..n : n - k \in S}
  <1>1. PICK i \in S : TRUE
    OBVIOUS
  <1>2. n - i \in D
    <2>1. i \in 1..n
      BY <1>1
    <2>2. n - i \in 0..n /\ n - (n - i) = i
      BY <2>1
    <2> QED
      BY <1>1, <2>2
  <1>3. PICK d \in D : \A e \in D : d <= e
    <2>1. D \subseteq Nat
      OBVIOUS
    <2>2. D # {}
      BY <1>2
    <2> HIDE DEF D
    <2> QED
      BY <2>1, <2>2, LeastNumber
  <1>4. n - d \in S /\ d \in 0..n
    BY <1>3
  <1>5. ASSUME NEW j \in S PROVE j <= n - d
    <2>1. j \in 1..n /\ n - j \in 0..n /\ n - (n - j) = j
      OBVIOUS
    <2>2. n - j \in D
      BY <2>1
    <2>3. d <= n - j
      BY <1>3, <2>2
    <2> QED
      BY <1>4, <2>1, <2>3
  <1> QED
    BY <1>4, <1>5 DEF Newest

(* The labels that the helper operators yield. *)
LEMMA HelperLabels ==
    ASSUME NEW p
    PROVE  /\ Decided(p) \in {"skip", "fire"}
           /\ Guarded(p) \in {"skip", "fire", "guard"}
           /\ AfterJob(p) \in {"list", "idle"}
           /\ AfterStatus(p) \in {"mail", "each"}
           /\ Handler(p) \in {"failrec", "list", "each", "idle"}
  BY DEF Decided, Guarded, AfterJob, AfterStatus, Handler

(* A fetched row is an instance, and so is the blank one. *)
LEMMA InstancesTyped ==
    ASSUME TypeOK
    PROVE  Fetched \in JobType /\ Blank \in JobType
  BY DEF TypeOK, RowOK, Fetched, Blank, JobType, Instants, RunStatus

(* _record builds a run row. *)
LEMMA NewRunTyped ==
    ASSUME TypeOK, NEW p \in Procs, NEW s \in RunStatus, NEW t \in Nat
    PROVE  NewRun(p, s, t) \in RunType
  BY DEF TypeOK, RowOK, HoldingsOK, NewRun, RunType, JobType, Slot

(* Writing one column of one run leaves a sequence of runs of that length. *)
LEMMA RunUpdateTyped ==
    ASSUME NEW rs \in Seq(RunType), NEW i \in Nat, NEW s \in RunStatus
    PROVE  /\ [rs EXCEPT ![i].status = s] \in Seq(RunType)
           /\ Len([rs EXCEPT ![i].status = s]) = Len(rs)
           /\ [rs EXCEPT ![i].mails = @ + 1] \in Seq(RunType)
           /\ Len([rs EXCEPT ![i].mails = @ + 1]) = Len(rs)
  <1>1. \A j \in 1..Len(rs) : rs[j] \in RunType
    OBVIOUS
  <1>2. \A r \in RunType : [r EXCEPT !.status = s] \in RunType
    BY DEF RunType
  <1>3. \A r \in RunType : [r EXCEPT !.mails = @ + 1] \in RunType
    BY SMTT(30) DEF RunType
  <1> DEFINE u == [rs EXCEPT ![i] = [rs[i] EXCEPT !.status = s]]
             v == [rs EXCEPT ![i] = [rs[i] EXCEPT !.mails = @ + 1]]
  <1>4. rs \in [1..Len(rs) -> RunType] /\ Len(rs) \in Nat
    OBVIOUS
  <1>5. u \in [1..Len(rs) -> RunType]
    BY <1>2, <1>4
  <1>6. v \in [1..Len(rs) -> RunType]
    BY <1>3, <1>4
  <1>7. u \in Seq(RunType) /\ Len(u) = Len(rs)
    BY <1>4, <1>5
  <1>8. v \in Seq(RunType) /\ Len(v) = Len(rs)
    BY <1>4, <1>6
  <1> QED
    BY <1>7, <1>8, Zenon

(* The save of an outcome leaves a table of runs of the same length. *)
LEMMA SaveTyped ==
    ASSUME TypeOK, NEW p \in Ticks, SaveOutcome(p)
    PROVE  runs' \in Seq(RunType) /\ Len(runs') = Len(runs)
  <1>1. /\ runs' = [runs EXCEPT ![cur[p]].status = seen[p]]
        /\ runs \in Seq(RunType) /\ cur[p] \in Nat /\ seen[p] \in RunStatus
    BY DEF TypeOK, RunsOK, PlacesOK, Procs, SaveOutcome
  <1>2. runs' \in Seq(RunType)
    BY <1>1, RunUpdateTyped DEF RunStatus
  <1>3. Len(runs') = Len(runs)
    BY <1>1, RunUpdateTyped DEF RunStatus
  <1> QED
    BY <1>2, <1>3

(* What a winning claim writes: an instant after the tick's clock, or None. *)
LEMMA ClaimedNext ==
    ASSUME TypeOK, Held, NEW p \in Ticks, Claim(p)
    PROVE  /\ next_run(job[p].cadence, at[p]) \in Instants
           /\ next_run(job[p].cadence, at[p]) # None =>
                /\ next_run(job[p].cadence, at[p]) \in Nat
                /\ next_run(job[p].cadence, at[p]) > at[p]
  <1>1. job[p].cadence \in Cadences /\ ~Malformed(job[p].cadence)
    BY DEF Held, Claim
  <1>2. job[p].cadence \in CadenceType
    BY <1>1, SchedulerAssumption
  <1>3. at[p] \in Nat
    BY DEF TypeOK, PlacesOK, Procs
  <1> QED
    BY <1>1, <1>2, <1>3, NextRunLater

(* What a saved edit writes: a later instant, None, or what it had read. *)
LEMMA SavedNext ==
    ASSUME TypeOK, NEW c \in Cadences, ~Malformed(c)
    PROVE  /\ next_run(c, now) \in Instants
           /\ next_run(c, now) # None => next_run(c, now) \in Nat /\ next_run(c, now) > now
  <1>1. c \in CadenceType /\ now \in Nat
    BY SchedulerAssumption DEF TypeOK, RowOK
  <1> QED
    BY <1>1, NextRunLater

(* The cases of a step: every proof about Next goes through them. *)
LEMMA StepCases ==
    ASSUME [Next]_vars
    PROVE  \/ Clock \/ EngineFinishes \/ EngineRevises
           \/ \E p \in Ticks :
                \/ TickRead(p) \/ DisableInvalid(p) \/ Claim(p) \/ FindPrevious(p)
                \/ AskEngine(p) \/ RecordSkip(p) \/ RecordFailed(p) \/ SetFailed(p)
                \/ ListQueued(p) \/ ReadOutcome(p) \/ SaveOutcome(p)
                \/ CheckLatest(p) \/ SetStatus(p) \/ NotifyFailure(p) \/ TickEnds(p)
           \/ \E o \in Operators : RunNow(o) \/ EditRead(o) \/ EditSave(o)
           \/ \E p \in Procs :
                \/ Enqueue(p) \/ RecordQueued(p) \/ Bump(p)
                \/ EnqueueFails(p) \/ StatementFails(p) \/ EngineReadFails(p) \/ Crash(p)
           \/ UNCHANGED vars
  BY DEF Next, TickStep, RequestStep, Fire, Fault, Procs

(* Every step keeps the types. *)
LEMMA TypeStep ==
    TypeOK /\ Held /\ [Next]_vars => TypeOK'
  <1> SUFFICES ASSUME TypeOK, Held, [Next]_vars
               PROVE  TypeOK'
    OBVIOUS
  <1> USE DEF TypeOK, Procs
  <1>1. CASE Clock
    <2>1. RowOK'
      <3>1. now \in Nat /\ now' = now + 1
        BY <1>1, Zenon DEF RowOK, Clock
      <3>2. now' \in Nat
        BY <3>1
      <3> QED
        BY <1>1, <3>2 DEF RowOK, Clock, row
    <2>2. RunsOK'
      BY <1>1 DEF RunsOK, Clock, row, local, history
    <2>3. PlacesOK'
      BY <1>1 DEF PlacesOK, Goto, Labels, Clock, row, local, history
    <2>4. HoldingsOK'
      BY <1>1 DEF HoldingsOK, Clock, row, local, history
    <2>5. HistoryOK'
      BY <1>1 DEF HistoryOK, Clock, row, local, history
    <2> QED
      BY <2>1, <2>2, <2>3, <2>4, <2>5
  <1>2. CASE EngineFinishes \/ EngineRevises
    <2>1. PICK t \in DOMAIN engine, s \in {"READY", "SUCCESSFUL", "FAILED"} :
              Says(t, s) /\ (faults' = faults \/ faults' = faults + 1)
      BY <1>2 DEF EngineFinishes, EngineRevises
    <2>2. RowOK'
      BY <2>1 DEF RowOK, Says, row
    <2>3. RunsOK'
      BY <2>1 DEF RunsOK, Says
    <2>4. PlacesOK' /\ HoldingsOK'
      BY <2>1 DEF PlacesOK, HoldingsOK, Says, local
    <2>5. HistoryOK'
      <3>1. t \in Nat /\ Terminal(s) \in Outcomes
        BY <2>1 DEF RunsOK, Terminal, Outcomes
      <3>2. given' \subseteq Nat \X Outcomes
        BY <2>1, <3>1 DEF HistoryOK, Says
      <3> QED
        BY <2>1, <3>2 DEF HistoryOK, Says
    <2> QED
      BY <2>2, <2>3, <2>4, <2>5
  <1>3. ASSUME NEW p \in Ticks, TickRead(p) PROVE TypeOK'
    <2>1. RowOK'
      BY <1>3 DEF RowOK, TickRead, row, local, history
    <2>2. RunsOK'
      BY <1>3 DEF RunsOK, TickRead, row, local, history
    <2>3. PlacesOK'
      BY <1>3 DEF PlacesOK, Goto, Labels, RowOK, TickRead, row, local, history
    <2>4. HoldingsOK'
      BY <1>3, InstancesTyped DEF HoldingsOK, TickRead, row, local, history
    <2>5. HistoryOK'
      BY <1>3 DEF HistoryOK, TickRead, row, local, history
    <2> QED
      BY <2>1, <2>2, <2>3, <2>4, <2>5
  <1>4. ASSUME NEW p \in Ticks, DisableInvalid(p) PROVE TypeOK'
    <2>1. RowOK'
      BY <1>4 DEF RowOK, DisableInvalid, row, local, history
    <2>2. RunsOK'
      BY <1>4 DEF RunsOK, DisableInvalid, row, local, history
    <2>3. PlacesOK'
      BY <1>4 DEF PlacesOK, Goto, Labels, DisableInvalid, row, local, history
    <2>4. HoldingsOK'
      BY <1>4 DEF HoldingsOK, DisableInvalid, row, local, history
    <2>5. HistoryOK'
      BY <1>4 DEF HistoryOK, DisableInvalid, row, local, history
    <2> QED
      BY <2>1, <2>2, <2>3, <2>4, <2>5
  <1>5. ASSUME NEW p \in Ticks, Claim(p) PROVE TypeOK'
    <2>1. RowOK'
      <3>1. nextRun' \in Instants
        BY <1>5, ClaimedNext DEF RowOK, Claim
      <3> QED
        BY <1>5, <3>1 DEF RowOK, Claim
    <2>2. RunsOK'
      BY <1>5 DEF RunsOK, Claim, row, local, history
    <2>3. PlacesOK'
      BY <1>5, HelperLabels DEF PlacesOK, Goto, Labels, Claim, row, local, history
    <2>4. HoldingsOK'
      BY <1>5 DEF HoldingsOK, Claim, row, local, history
    <2>5. HistoryOK'
      <3>1. Slot(p) \in Nat
        BY <1>5 DEF Held, Claim, Slot
      <3> QED
        BY <1>5, <3>1 DEF HistoryOK, Claim
    <2> QED
      BY <2>1, <2>2, <2>3, <2>4, <2>5
  <1>6. ASSUME NEW p \in Ticks, FindPrevious(p) PROVE TypeOK'
    <2>1. RowOK'
      BY <1>6 DEF RowOK, FindPrevious, row, local, history
    <2>2. RunsOK'
      BY <1>6 DEF RunsOK, FindPrevious, row, local, history
    <2>3. PlacesOK'
      <3>1. Queued \subseteq 1..Len(runs) /\ Len(runs) \in Nat
        BY DEF Queued, RunsOK
      <3>2. ASSUME Queued # {} PROVE Newest(Queued) \in Nat
        <4>1. Newest(Queued) \in Queued
          BY <3>1, <3>2, NewestIsGreatest
        <4>2. Newest(Queued) \in 1..Len(runs)
          BY <3>1, <4>1, Zenon
        <4> QED
          BY <3>1, <4>2
      <3> QED
        BY <1>6, <3>2, HelperLabels DEF PlacesOK, Goto, Labels, FindPrevious
    <2>4. HoldingsOK'
      BY <1>6 DEF HoldingsOK, FindPrevious, row, local, history
    <2>5. HistoryOK'
      BY <1>6 DEF HistoryOK, FindPrevious, row, local, history
    <2> QED
      BY <2>1, <2>2, <2>3, <2>4, <2>5
  <1>7. ASSUME NEW p \in Ticks, AskEngine(p) PROVE TypeOK'
    <2>1. RowOK'
      BY <1>7 DEF RowOK, AskEngine, row, local, history
    <2>2. RunsOK'
      BY <1>7 DEF RunsOK, AskEngine, row, local, history
    <2>3. PlacesOK'
      BY <1>7, HelperLabels DEF PlacesOK, Goto, Labels, AskEngine, row, local, history
    <2>4. HoldingsOK'
      BY <1>7 DEF HoldingsOK, AskEngine, row, local, history
    <2>5. HistoryOK'
      BY <1>7 DEF HistoryOK, AskEngine, row, local, history
    <2> QED
      BY <2>1, <2>2, <2>3, <2>4, <2>5
  <1>8. ASSUME NEW p \in Ticks, RecordSkip(p) PROVE TypeOK'
    <2>1. RowOK'
      BY <1>8 DEF RowOK, RecordSkip, row, local, history
    <2>2. RunsOK'
      BY <1>8, NewRunTyped DEF RunsOK, RunStatus, NoTask, PlacesOK, RecordSkip, row, local, history
    <2>3. PlacesOK'
      BY <1>8 DEF PlacesOK, Goto, Labels, RecordSkip, row, local, history
    <2>4. HoldingsOK'
      BY <1>8, <2>2 DEF HoldingsOK, RunsOK, RecordSkip, row, local, history
    <2>5. HistoryOK'
      BY <1>8 DEF HistoryOK, RecordSkip, row, local, history
    <2> QED
      BY <2>1, <2>2, <2>3, <2>4, <2>5
  <1>9. ASSUME NEW p \in Ticks, RecordFailed(p) PROVE TypeOK'
    <2>1. RowOK'
      BY <1>9 DEF RowOK, RecordFailed, row, local, history
    <2>2. RunsOK'
      BY <1>9, NewRunTyped DEF RunsOK, RunStatus, NoTask, PlacesOK, RecordFailed, row, local, history
    <2>3. PlacesOK'
      BY <1>9 DEF PlacesOK, Goto, Labels, RecordFailed, row, local, history
    <2>4. HoldingsOK'
      BY <1>9, <2>2 DEF HoldingsOK, RunsOK, RecordFailed, row, local, history
    <2>5. HistoryOK'
      BY <1>9 DEF HistoryOK, RecordFailed, row, local, history
    <2> QED
      BY <2>1, <2>2, <2>3, <2>4, <2>5
  <1>10. ASSUME NEW p \in Ticks, SetFailed(p) PROVE TypeOK'
    <2>1. RowOK'
      BY <1>10 DEF RowOK, RunStatus, SetFailed, row, local, history
    <2>2. RunsOK'
      BY <1>10 DEF RunsOK, SetFailed, row, local, history
    <2>3. PlacesOK'
      BY <1>10 DEF PlacesOK, Goto, Labels, SetFailed, row, local, history
    <2>4. HoldingsOK'
      BY <1>10 DEF HoldingsOK, SetFailed, row, local, history
    <2>5. HistoryOK'
      BY <1>10 DEF HistoryOK, SetFailed, row, local, history
    <2> QED
      BY <2>1, <2>2, <2>3, <2>4, <2>5
  <1>11. ASSUME NEW p \in Ticks, ListQueued(p) PROVE TypeOK'
    <2>1. RowOK'
      BY <1>11 DEF RowOK, ListQueued, row, local, history
    <2>2. RunsOK'
      BY <1>11 DEF RunsOK, ListQueued, row, local, history
    <2>3. PlacesOK'
      BY <1>11 DEF PlacesOK, Goto, Labels, ListQueued, row, local, history
    <2>4. HoldingsOK'
      BY <1>11 DEF HoldingsOK, Queued, RunsOK, ListQueued, row, local, history
    <2>5. HistoryOK'
      BY <1>11 DEF HistoryOK, ListQueued, row, local, history
    <2> QED
      BY <2>1, <2>2, <2>3, <2>4, <2>5
  <1>12. ASSUME NEW p \in Ticks, ReadOutcome(p) PROVE TypeOK'
    <2>1. RowOK'
      BY <1>12 DEF RowOK, ReadOutcome, row, local, history
    <2>2. RunsOK'
      BY <1>12 DEF RunsOK, ReadOutcome, row, local, history
    <2>3. PlacesOK'
      <3>1. todo[p] \subseteq 1..Len(runs) /\ Len(runs) \in Nat /\ todo[p] # {}
        BY <1>12 DEF HoldingsOK, RunsOK, ReadOutcome
      <3>2. Newest(todo[p]) \in Nat
        BY <3>1, NewestIsGreatest
      <3> QED
        BY <1>12, <3>2 DEF PlacesOK, Goto, Labels, ReadOutcome, Outcome, RunStatus, Terminal
    <2>4. HoldingsOK'
      BY <1>12 DEF HoldingsOK, ReadOutcome, row, local, history
    <2>5. HistoryOK'
      BY <1>12 DEF HistoryOK, ReadOutcome, row, local, history
    <2> QED
      BY <2>1, <2>2, <2>3, <2>4, <2>5
  <1>13. ASSUME NEW p \in Ticks, SaveOutcome(p) PROVE TypeOK'
    <2>1. RowOK'
      BY <1>13 DEF RowOK, SaveOutcome, row, local, history
    <2>2. RunsOK'
      BY <1>13, RunUpdateTyped DEF RunsOK, PlacesOK, RunStatus, SaveOutcome, row, local, history
    <2>3. PlacesOK'
      BY <1>13 DEF PlacesOK, Goto, Labels, SaveOutcome, row, local, history
    <2>4. HoldingsOK'
      BY <1>13, RunUpdateTyped DEF HoldingsOK, RunsOK, PlacesOK, RunStatus, SaveOutcome, row, local, history
    <2>5. HistoryOK'
      BY <1>13 DEF HistoryOK, SaveOutcome, row, local, history
    <2> QED
      BY <2>1, <2>2, <2>3, <2>4, <2>5
  <1>14. ASSUME NEW p \in Ticks, CheckLatest(p) PROVE TypeOK'
    <2>1. RowOK'
      BY <1>14 DEF RowOK, CheckLatest, row, local, history
    <2>2. RunsOK'
      BY <1>14 DEF RunsOK, CheckLatest, row, local, history
    <2>3. PlacesOK'
      BY <1>14, HelperLabels DEF PlacesOK, Goto, Labels, CheckLatest, row, local, history
    <2>4. HoldingsOK'
      BY <1>14 DEF HoldingsOK, CheckLatest, row, local, history
    <2>5. HistoryOK'
      BY <1>14 DEF HistoryOK, CheckLatest, row, local, history
    <2> QED
      BY <2>1, <2>2, <2>3, <2>4, <2>5
  <1>15. ASSUME NEW p \in Ticks, SetStatus(p) PROVE TypeOK'
    <2>1. RowOK'
      <3>1. lastStatus' \in RunStatus
        BY <1>15 DEF PlacesOK, SetStatus
      <3> QED
        BY <1>15, <3>1, Zenon DEF RowOK, SetStatus
    <2>2. RunsOK'
      BY <1>15 DEF RunsOK, SetStatus, row, local, history
    <2>3. PlacesOK'
      BY <1>15, HelperLabels DEF PlacesOK, Goto, Labels, SetStatus, row, local, history
    <2>4. HoldingsOK'
      BY <1>15 DEF HoldingsOK, SetStatus, row, local, history
    <2>5. HistoryOK'
      BY <1>15 DEF HistoryOK, SetStatus, row, local, history
    <2> QED
      BY <2>1, <2>2, <2>3, <2>4, <2>5
  <1>16. ASSUME NEW p \in Ticks, NotifyFailure(p) PROVE TypeOK'
    <2>1. RowOK'
      BY <1>16 DEF RowOK, NotifyFailure, row, local, history
    <2>2. RunsOK'
      BY <1>16, RunUpdateTyped DEF RunsOK, PlacesOK, Outcome, RunStatus, NotifyFailure, row, local, history
    <2>3. PlacesOK'
      BY <1>16 DEF PlacesOK, Goto, Labels, NotifyFailure, row, local, history
    <2>4. HoldingsOK'
      BY <1>16, RunUpdateTyped DEF HoldingsOK, RunsOK, PlacesOK, Outcome, RunStatus, NotifyFailure, row, local, history
    <2>5. HistoryOK'
      BY <1>16 DEF HistoryOK, NotifyFailure, row, local, history
    <2> QED
      BY <2>1, <2>2, <2>3, <2>4, <2>5
  <1>17. ASSUME NEW p \in Ticks, TickEnds(p) PROVE TypeOK'
    <2>1. RowOK'
      BY <1>17 DEF RowOK, TickEnds, row, local, history
    <2>2. RunsOK'
      BY <1>17 DEF RunsOK, TickEnds, row, local, history
    <2>3. PlacesOK'
      BY <1>17, HelperLabels DEF PlacesOK, Goto, Labels, Forget, RunStatus, TickEnds, row, local, history
    <2>4. HoldingsOK'
      BY <1>17, InstancesTyped DEF HoldingsOK, Forget, TickEnds, row, local, history
    <2>5. HistoryOK'
      BY <1>17 DEF HistoryOK, TickEnds, row, local, history
    <2> QED
      BY <2>1, <2>2, <2>3, <2>4, <2>5
  <1>18. ASSUME NEW p \in Operators, RunNow(p) PROVE TypeOK'
    <2>1. RowOK'
      BY <1>18 DEF RowOK, RunNow, row, local, history
    <2>2. RunsOK'
      BY <1>18 DEF RunsOK, RunNow, row, local, history
    <2>3. PlacesOK'
      BY <1>18 DEF PlacesOK, Goto, Labels, RunNow, row, local, history
    <2>4. HoldingsOK'
      BY <1>18 DEF HoldingsOK, RunNow, row, local, history
    <2>5. HistoryOK'
      BY <1>18 DEF HistoryOK, RunNow, row, local, history
    <2> QED
      BY <2>1, <2>2, <2>3, <2>4, <2>5
  <1>19. ASSUME NEW p \in Operators, EditRead(p) PROVE TypeOK'
    <2>1. RowOK'
      BY <1>19 DEF RowOK, EditRead, row, local, history
    <2>2. RunsOK'
      BY <1>19 DEF RunsOK, EditRead, row, local, history
    <2>3. PlacesOK'
      BY <1>19 DEF PlacesOK, Goto, Labels, EditRead, row, local, history
    <2>4. HoldingsOK'
      BY <1>19, InstancesTyped DEF HoldingsOK, EditRead, row, local, history
    <2>5. HistoryOK'
      BY <1>19 DEF HistoryOK, EditRead, row, local, history
    <2> QED
      BY <2>1, <2>2, <2>3, <2>4, <2>5
  <1>20. ASSUME NEW p \in Operators, EditSave(p) PROVE TypeOK'
    <2>1. RowOK'
      <3>1. PICK c \in Cadences, e \in BOOLEAN :
                /\ ~Malformed(c) /\ cadence' = c /\ enabled' = e
                /\ nextRun' \in {next_run(c, now), job[p].next}
        BY <1>20 DEF EditSave
      <3>2. job[p] \in JobType
        BY DEF HoldingsOK
      <3>3. nextRun' \in Instants
        BY <3>1, <3>2, SavedNext DEF JobType
      <3>4. lastStatus' \in RunStatus \cup {"", "invalid"} /\ totalRuns' \in Nat
        BY <1>20, <3>2 DEF EditSave, JobType
      <3> QED
        BY <1>20, <3>1, <3>3, <3>4 DEF RowOK, EditSave
    <2>2. RunsOK'
      BY <1>20 DEF RunsOK, EditSave, row, local, history
    <2>3. PlacesOK'
      BY <1>20 DEF PlacesOK, Goto, Labels, EditSave, row, local, history
    <2>4. HoldingsOK'
      BY <1>20, InstancesTyped DEF HoldingsOK, EditSave, row, local, history
    <2>5. HistoryOK'
      <3>1. job[p].next \in Instants
        BY DEF HoldingsOK, JobType
      <3>2. rewound' \subseteq rewound \cup {job[p].next}
        BY <1>20 DEF EditSave
      <3> QED
        BY <1>20, <3>1, <3>2 DEF HistoryOK, EditSave
    <2> QED
      BY <2>1, <2>2, <2>3, <2>4, <2>5
  <1>21. ASSUME NEW p \in Procs, Enqueue(p) PROVE TypeOK'
    <2>1. RowOK'
      BY <1>21 DEF RowOK, Enqueue, row, local, history
    <2>2. RunsOK'
      BY <1>21 DEF RunsOK, Enqueue, row, local, history
    <2>3. PlacesOK'
      BY <1>21 DEF PlacesOK, Goto, Labels, Enqueue, row, local, history
    <2>4. HoldingsOK'
      BY <1>21 DEF HoldingsOK, Enqueue, row, local, history
    <2>5. HistoryOK'
      BY <1>21 DEF HistoryOK, Enqueue, row, local, history
    <2> QED
      BY <2>1, <2>2, <2>3, <2>4, <2>5
  <1>22. ASSUME NEW p \in Procs, RecordQueued(p) PROVE TypeOK'
    <2>1. RowOK'
      BY <1>22 DEF RowOK, RecordQueued, row, local, history
    <2>2. RunsOK'
      BY <1>22, NewRunTyped DEF RunsOK, RunStatus, NoTask, PlacesOK, RecordQueued, row, local, history
    <2>3. PlacesOK'
      BY <1>22 DEF PlacesOK, Goto, Labels, RecordQueued, row, local, history
    <2>4. HoldingsOK'
      BY <1>22, <2>2 DEF HoldingsOK, RunsOK, RecordQueued, row, local, history
    <2>5. HistoryOK'
      BY <1>22 DEF HistoryOK, RecordQueued, row, local, history
    <2> QED
      BY <2>1, <2>2, <2>3, <2>4, <2>5
  <1>23. ASSUME NEW p \in Procs, Bump(p) PROVE TypeOK'
    <2>1. RowOK'
      <3>1. totalRuns \in Nat /\ totalRuns' = totalRuns + 1
        BY <1>23, Zenon DEF RowOK, Bump
      <3>2. totalRuns' \in Nat
        BY <3>1
      <3> QED
        BY <1>23, <3>2 DEF RowOK, Bump, RunStatus
    <2>2. RunsOK'
      BY <1>23 DEF RunsOK, Bump, row, local, history
    <2>3. PlacesOK'
      BY <1>23, HelperLabels DEF PlacesOK, Goto, Labels, Bump, row, local, history
    <2>4. HoldingsOK'
      BY <1>23 DEF HoldingsOK, Bump, row, local, history
    <2>5. HistoryOK'
      BY <1>23 DEF HistoryOK, Bump, row, local, history
    <2> QED
      BY <2>1, <2>2, <2>3, <2>4, <2>5
  <1>24. ASSUME NEW p \in Procs, EnqueueFails(p) PROVE TypeOK'
    <2>1. RowOK'
      BY <1>24 DEF RowOK, EnqueueFails, row, local, history
    <2>2. RunsOK'
      BY <1>24 DEF RunsOK, EnqueueFails, row, local, history
    <2>3. PlacesOK'
      BY <1>24 DEF PlacesOK, Goto, Labels, EnqueueFails, row, local, history
    <2>4. HoldingsOK'
      BY <1>24 DEF HoldingsOK, EnqueueFails, row, local, history
    <2>5. HistoryOK'
      BY <1>24 DEF HistoryOK, EnqueueFails, row, local, history
    <2> QED
      BY <2>1, <2>2, <2>3, <2>4, <2>5
  <1>25. ASSUME NEW p \in Procs, StatementFails(p) PROVE TypeOK'
    <2>1. RowOK'
      BY <1>25 DEF RowOK, StatementFails, row, local, history
    <2>2. RunsOK'
      BY <1>25 DEF RunsOK, StatementFails, row, local, history
    <2>3. PlacesOK'
      BY <1>25, HelperLabels DEF PlacesOK, Goto, Labels, Forget, RunStatus, StatementFails, row, local, history
    <2>4. HoldingsOK'
      BY <1>25, InstancesTyped DEF HoldingsOK, Forget, StatementFails, row, local, history
    <2>5. HistoryOK'
      <3>1. Slot(p) \in Instants
        BY DEF Slot, HoldingsOK, JobType
      <3>2. lost' \subseteq Instants
        BY <1>25, <3>1 DEF HistoryOK, StatementFails, Loses
      <3>3. faults' \in Nat
        BY <1>25 DEF HistoryOK, StatementFails
      <3> QED
        BY <1>25, <3>2, <3>3 DEF HistoryOK, StatementFails
    <2> QED
      BY <2>1, <2>2, <2>3, <2>4, <2>5
  <1>26. ASSUME NEW p \in Procs, EngineReadFails(p) PROVE TypeOK'
    <2>1. RowOK'
      BY <1>26 DEF RowOK, EngineReadFails, row, local, history
    <2>2. RunsOK'
      BY <1>26 DEF RunsOK, EngineReadFails, row, local, history
    <2>3. PlacesOK'
      BY <1>26, HelperLabels DEF PlacesOK, Goto, Labels, EngineReadFails, row, local, history
    <2>4. HoldingsOK'
      BY <1>26 DEF HoldingsOK, EngineReadFails, row, local, history
    <2>5. HistoryOK'
      BY <1>26 DEF HistoryOK, EngineReadFails, row, local, history
    <2> QED
      BY <2>1, <2>2, <2>3, <2>4, <2>5
  <1>27. ASSUME NEW p \in Procs, Crash(p) PROVE TypeOK'
    <2>1. RowOK'
      BY <1>27 DEF RowOK, Crash, row, local, history
    <2>2. RunsOK'
      BY <1>27 DEF RunsOK, Crash, row, local, history
    <2>3. PlacesOK'
      BY <1>27, HelperLabels DEF PlacesOK, Goto, Labels, Forget, RunStatus, Crash, row, local, history
    <2>4. HoldingsOK'
      BY <1>27, InstancesTyped DEF HoldingsOK, Forget, Crash, row, local, history
    <2>5. HistoryOK'
      <3>1. Slot(p) \in Instants
        BY DEF Slot, HoldingsOK, JobType
      <3>2. lost' \subseteq Instants
        BY <1>27, <3>1 DEF HistoryOK, Crash, Loses
      <3>3. faults' \in Nat
        BY <1>27 DEF HistoryOK, Crash
      <3> QED
        BY <1>27, <3>2, <3>3 DEF HistoryOK, Crash
    <2> QED
      BY <2>1, <2>2, <2>3, <2>4, <2>5
  <1>28. CASE UNCHANGED vars
    <2>1. RowOK'
      BY <1>28 DEF RowOK, vars, row, local, history
    <2>2. RunsOK'
      BY <1>28 DEF RunsOK, vars, row, local, history
    <2>3. PlacesOK'
      BY <1>28 DEF PlacesOK, Goto, Labels, vars, row, local, history
    <2>4. HoldingsOK'
      BY <1>28 DEF HoldingsOK, vars, row, local, history
    <2>5. HistoryOK'
      BY <1>28 DEF HistoryOK, vars, row, local, history
    <2> QED
      BY <2>1, <2>2, <2>3, <2>4, <2>5
  <1> QED
    BY StepCases, <1>1, <1>2, <1>3, <1>4, <1>5, <1>6, <1>7, <1>8, <1>9, <1>10, <1>11, <1>12,
       <1>13, <1>14, <1>15, <1>16, <1>17, <1>18, <1>19, <1>20, <1>21, <1>22, <1>23, <1>24, <1>25, <1>26, <1>27, <1>28

(* A tick goes on holding what was due on its own clock. *)
LEMMA HeldStep ==
    TypeOK /\ Held /\ [Next]_vars => Held'
  <1> SUFFICES ASSUME TypeOK, Held, [Next]_vars
               PROVE  Held'
    OBVIOUS
  <1> USE DEF TypeOK, PlacesOK, HoldingsOK, Held, Procs
  <1>0. now \in Nat
    BY DEF RowOK
  <1>1. CASE Clock
    <2>1. now' = now + 1 /\ at' = at /\ pc' = pc /\ job' = job
      BY <1>1 DEF Clock, local
    <2>2. \A q \in Procs : at[q] <= now + 1
      BY <1>0
    <2> QED
      BY <2>1, <2>2
  <1>2. CASE EngineFinishes \/ EngineRevises
    BY <1>2 DEF EngineFinishes, EngineRevises, Says, Goto, row, local, history
  <1>3. ASSUME NEW p \in Ticks, TickRead(p) PROVE Held'
    <2>1. CASE enabled /\ nextRun # None /\ nextRun <= now
      <3>1. nextRun \in Nat /\ cadence \in Cadences
        BY <2>1 DEF RowOK, Instants
      <3>2. /\ at' = [at EXCEPT ![p] = now] /\ pc' = [pc EXCEPT ![p] = "claim"]
            /\ job' = [job EXCEPT ![p] = Fetched] /\ now' = now
        BY <1>3, <2>1 DEF TickRead, Goto
      <3>3. Fetched.next = nextRun /\ Fetched.cadence = cadence
        BY DEF Fetched
      <3> QED
        BY <2>1, <1>0, <3>1, <3>2, <3>3
    <2>2. CASE ~(enabled /\ nextRun # None /\ nextRun <= now)
      BY <1>3, <2>2, <1>0 DEF TickRead, Goto
    <2> QED
      BY <2>1, <2>2
  <1>4. ASSUME NEW p \in Ticks, DisableInvalid(p) PROVE Held'
    BY <1>4 DEF DisableInvalid, Goto, row, local, history
  <1>5. ASSUME NEW p \in Ticks, Claim(p) PROVE Held'
    BY <1>5, HelperLabels DEF Claim, Goto, row, local, history
  <1>6. ASSUME NEW p \in Ticks, FindPrevious(p) PROVE Held'
    BY <1>6, HelperLabels DEF FindPrevious, Goto, row, local, history
  <1>7. ASSUME NEW p \in Ticks, AskEngine(p) PROVE Held'
    BY <1>7, HelperLabels DEF AskEngine, Goto, row, local, history
  <1>8. ASSUME NEW p \in Ticks, RecordSkip(p) PROVE Held'
    BY <1>8 DEF RecordSkip, Goto, row, local, history
  <1>9. ASSUME NEW p \in Ticks, RecordFailed(p) PROVE Held'
    BY <1>9 DEF RecordFailed, Goto, row, local, history
  <1>10. ASSUME NEW p \in Ticks, SetFailed(p) PROVE Held'
    BY <1>10 DEF SetFailed, Goto, row, local, history
  <1>11. ASSUME NEW p \in Ticks, ListQueued(p) PROVE Held'
    BY <1>11 DEF ListQueued, Goto, row, local, history
  <1>12. ASSUME NEW p \in Ticks, ReadOutcome(p) PROVE Held'
    BY <1>12 DEF ReadOutcome, Goto, row, local, history
  <1>13. ASSUME NEW p \in Ticks, SaveOutcome(p) PROVE Held'
    BY <1>13 DEF SaveOutcome, Goto, row, local, history
  <1>14. ASSUME NEW p \in Ticks, CheckLatest(p) PROVE Held'
    BY <1>14, HelperLabels DEF CheckLatest, Goto, row, local, history
  <1>15. ASSUME NEW p \in Ticks, SetStatus(p) PROVE Held'
    BY <1>15, HelperLabels DEF SetStatus, Goto, row, local, history
  <1>16. ASSUME NEW p \in Ticks, NotifyFailure(p) PROVE Held'
    BY <1>16 DEF NotifyFailure, Goto, row, local, history
  <1>17. ASSUME NEW p \in Ticks, TickEnds(p) PROVE Held'
    BY <1>17, <1>0, HelperLabels DEF TickEnds, Goto, Forget, Loses, row, local, history
  <1>18. ASSUME NEW p \in Operators, RunNow(p) PROVE Held'
    BY <1>18 DEF RunNow, Goto, row, local, history
  <1>19. ASSUME NEW p \in Operators, EditRead(p) PROVE Held'
    BY <1>19, SchedulerAssumption DEF EditRead, Goto, row, local, history
  <1>20. ASSUME NEW p \in Operators, EditSave(p) PROVE Held'
    BY <1>20, SchedulerAssumption DEF EditSave, Goto, row, local, history
  <1>21. ASSUME NEW p \in Procs, Enqueue(p) PROVE Held'
    BY <1>21 DEF Enqueue, Goto, row, local, history
  <1>22. ASSUME NEW p \in Procs, RecordQueued(p) PROVE Held'
    BY <1>22 DEF RecordQueued, Goto, row, local, history
  <1>23. ASSUME NEW p \in Procs, Bump(p) PROVE Held'
    BY <1>23, HelperLabels DEF Bump, Goto, row, local, history
  <1>24. ASSUME NEW p \in Procs, EnqueueFails(p) PROVE Held'
    BY <1>24 DEF EnqueueFails, Goto, row, local, history
  <1>25. ASSUME NEW p \in Procs, StatementFails(p) PROVE Held'
    <2>1. pc' = [pc EXCEPT ![p] = Handler(p)] /\ now' = now
      BY <1>25 DEF StatementFails, Goto
    <2>2. Handler(p) # "claim"
      BY HelperLabels
    <2>3. CASE Handler(p) = "idle"
      <3>1. at' = [at EXCEPT ![p] = 0] /\ job' = [job EXCEPT ![p] = Blank]
        BY <1>25, <2>3 DEF StatementFails, Forget
      <3> QED
        BY <1>0, <2>1, <2>2, <3>1
    <2>4. CASE Handler(p) # "idle"
      <3>1. at' = at /\ job' = job
        BY <1>25, <2>4 DEF StatementFails, local
      <3> QED
        BY <2>1, <2>2, <3>1
    <2> QED
      BY <2>3, <2>4
  <1>26. ASSUME NEW p \in Procs, EngineReadFails(p) PROVE Held'
    BY <1>26, HelperLabels DEF EngineReadFails, Goto, row, local, history
  <1>27. ASSUME NEW p \in Procs, Crash(p) PROVE Held'
    BY <1>27, <1>0, HelperLabels DEF Crash, Goto, Forget, Loses, row, local, history
  <1>28. CASE UNCHANGED vars
    BY <1>28 DEF vars, Goto, row, local, history
  <1> QED
    BY StepCases, <1>1, <1>2, <1>3, <1>4, <1>5, <1>6, <1>7, <1>8, <1>9, <1>10, <1>11, <1>12,
       <1>13, <1>14, <1>15, <1>16, <1>17, <1>18, <1>19, <1>20, <1>21, <1>22, <1>23, <1>24, <1>25, <1>26, <1>27, <1>28

(* A step moves next_run_at back, or claims a slot again, only after a rewind. *)
LEMMA CursorStep ==
    TypeOK /\ Held /\ CursorAhead /\ OnlyRewindsReclaim /\ [Next]_vars
        => (CursorAhead /\ OnlyRewindsReclaim)'
  <1> SUFFICES ASSUME TypeOK, Held, CursorAhead, OnlyRewindsReclaim, [Next]_vars
               PROVE  (CursorAhead /\ OnlyRewindsReclaim)'
    OBVIOUS
  <1> USE DEF TypeOK
  <1>1. CASE Clock
    <2>1. now' = now + 1 /\ nextRun' = nextRun /\ rewound' = rewound
      BY <1>1 DEF Clock, row, history
    <2>2. claimed' = claimed /\ reclaimed' = reclaimed
      BY <1>1 DEF Clock, history
    <2>3. now \in Nat /\ claimed \subseteq Nat
      BY DEF RowOK, HistoryOK
    <2>4. \A s \in claimed : s <= now + 1
      BY <2>3 DEF CursorAhead
    <2> QED
      BY <2>1, <2>2, <2>4 DEF CursorAhead, OnlyRewindsReclaim
  <1>2. CASE EngineFinishes \/ EngineRevises
    BY <1>2 DEF CursorAhead, OnlyRewindsReclaim, EngineFinishes, EngineRevises, Says, row, local, history
  <1>3. ASSUME NEW p \in Ticks, TickRead(p) PROVE (CursorAhead /\ OnlyRewindsReclaim)'
    BY <1>3 DEF CursorAhead, OnlyRewindsReclaim, TickRead, row, local, history
  <1>4. ASSUME NEW p \in Ticks, DisableInvalid(p) PROVE (CursorAhead /\ OnlyRewindsReclaim)'
    BY <1>4 DEF CursorAhead, OnlyRewindsReclaim, DisableInvalid, row, local, history
  <1>5. ASSUME NEW p \in Ticks, Claim(p) PROVE (CursorAhead /\ OnlyRewindsReclaim)'
    <2>1. CASE nextRun = Slot(p)
      <3> DEFINE n == next_run(job[p].cadence, at[p])
                 s0 == Slot(p)
      <3>1. /\ s0 \in Nat /\ at[p] \in Nat /\ now \in Nat
            /\ s0 <= at[p] /\ at[p] <= now
        BY <1>5 DEF Held, Claim, Slot, PlacesOK, RowOK, Procs
      <3>2. n # None => n \in Nat /\ n > at[p]
        BY <1>5, ClaimedNext
      <3>3. /\ nextRun' = n /\ claimed' = claimed \cup {s0} /\ now' = now
            /\ reclaimed' = reclaimed \cup (claimed \cap {s0}) /\ rewound' = rewound
        BY <1>5, <2>1 DEF Claim
      <3>4. s0 # None /\ nextRun = s0 /\ claimed \subseteq Nat
        BY <2>1, <3>1, SchedulerAssumption DEF HistoryOK
      <3> HIDE DEF n, s0
      <3>5. CursorAhead'
        <4> SUFFICES ASSUME NEW s \in claimed \cup {s0}
                     PROVE  /\ s <= now
                            /\ n # None /\ n <= s => \E r \in rewound : r # None /\ r <= s
          BY <3>3 DEF CursorAhead
        <4>1. CASE s = s0
          BY <3>1, <3>2, <4>1
        <4>2. CASE s \in claimed
          <5>1. s <= now /\ s \in Nat
            BY <3>4, <4>2 DEF CursorAhead
          <5>2. s0 <= s => \E r \in rewound : r # None /\ r <= s
            BY <3>4, <4>2 DEF CursorAhead
          <5>3. n # None /\ n <= s => s0 <= s
            BY <3>1, <3>2, <5>1
          <5> QED
            BY <5>1, <5>2, <5>3
        <4> QED
          BY <4>1, <4>2
      <3>6. OnlyRewindsReclaim'
        <4>1. s0 \in claimed => \E r \in rewound : r # None /\ r <= s0
          BY <3>1, <3>4 DEF CursorAhead
        <4> QED
          BY <3>3, <4>1 DEF OnlyRewindsReclaim
      <3> QED
        BY <3>5, <3>6
    <2>2. CASE nextRun # Slot(p)
      BY <1>5, <2>2 DEF Claim, CursorAhead, OnlyRewindsReclaim
    <2> QED
      BY <2>1, <2>2
  <1>6. ASSUME NEW p \in Ticks, FindPrevious(p) PROVE (CursorAhead /\ OnlyRewindsReclaim)'
    BY <1>6 DEF CursorAhead, OnlyRewindsReclaim, FindPrevious, row, local, history
  <1>7. ASSUME NEW p \in Ticks, AskEngine(p) PROVE (CursorAhead /\ OnlyRewindsReclaim)'
    BY <1>7 DEF CursorAhead, OnlyRewindsReclaim, AskEngine, row, local, history
  <1>8. ASSUME NEW p \in Ticks, RecordSkip(p) PROVE (CursorAhead /\ OnlyRewindsReclaim)'
    BY <1>8 DEF CursorAhead, OnlyRewindsReclaim, RecordSkip, row, local, history
  <1>9. ASSUME NEW p \in Ticks, RecordFailed(p) PROVE (CursorAhead /\ OnlyRewindsReclaim)'
    BY <1>9 DEF CursorAhead, OnlyRewindsReclaim, RecordFailed, row, local, history
  <1>10. ASSUME NEW p \in Ticks, SetFailed(p) PROVE (CursorAhead /\ OnlyRewindsReclaim)'
    BY <1>10 DEF CursorAhead, OnlyRewindsReclaim, SetFailed, row, local, history
  <1>11. ASSUME NEW p \in Ticks, ListQueued(p) PROVE (CursorAhead /\ OnlyRewindsReclaim)'
    BY <1>11 DEF CursorAhead, OnlyRewindsReclaim, ListQueued, row, local, history
  <1>12. ASSUME NEW p \in Ticks, ReadOutcome(p) PROVE (CursorAhead /\ OnlyRewindsReclaim)'
    BY <1>12 DEF CursorAhead, OnlyRewindsReclaim, ReadOutcome, row, local, history
  <1>13. ASSUME NEW p \in Ticks, SaveOutcome(p) PROVE (CursorAhead /\ OnlyRewindsReclaim)'
    BY <1>13 DEF CursorAhead, OnlyRewindsReclaim, SaveOutcome, row, local, history
  <1>14. ASSUME NEW p \in Ticks, CheckLatest(p) PROVE (CursorAhead /\ OnlyRewindsReclaim)'
    BY <1>14 DEF CursorAhead, OnlyRewindsReclaim, CheckLatest, row, local, history
  <1>15. ASSUME NEW p \in Ticks, SetStatus(p) PROVE (CursorAhead /\ OnlyRewindsReclaim)'
    BY <1>15 DEF CursorAhead, OnlyRewindsReclaim, SetStatus, row, local, history
  <1>16. ASSUME NEW p \in Ticks, NotifyFailure(p) PROVE (CursorAhead /\ OnlyRewindsReclaim)'
    BY <1>16 DEF CursorAhead, OnlyRewindsReclaim, NotifyFailure, row, local, history
  <1>17. ASSUME NEW p \in Ticks, TickEnds(p) PROVE (CursorAhead /\ OnlyRewindsReclaim)'
    BY <1>17 DEF CursorAhead, OnlyRewindsReclaim, TickEnds, row, local, history
  <1>18. ASSUME NEW p \in Operators, RunNow(p) PROVE (CursorAhead /\ OnlyRewindsReclaim)'
    BY <1>18 DEF CursorAhead, OnlyRewindsReclaim, RunNow, row, local, history
  <1>19. ASSUME NEW p \in Operators, EditRead(p) PROVE (CursorAhead /\ OnlyRewindsReclaim)'
    BY <1>19 DEF CursorAhead, OnlyRewindsReclaim, EditRead, row, local, history
  <1>20. ASSUME NEW p \in Operators, EditSave(p) PROVE (CursorAhead /\ OnlyRewindsReclaim)'
    <2>1. PICK c \in Cadences :
              /\ ~Malformed(c)
              /\ \/ nextRun' = next_run(c, now) /\ rewound' = rewound
                 \/ nextRun' = job[p].next /\ job[p].next = nextRun /\ rewound' = rewound
                 \/ nextRun' = job[p].next /\ rewound' = rewound \cup {job[p].next}
      BY <1>20 DEF EditSave
    <2>2. claimed' = claimed /\ reclaimed' = reclaimed /\ now' = now
      BY <1>20 DEF EditSave
    <2>3. next_run(c, now) # None => next_run(c, now) \in Nat /\ next_run(c, now) > now
      BY <2>1, SavedNext
    <2>4. now \in Nat /\ claimed \subseteq Nat
      BY DEF RowOK, HistoryOK
    <2>5. CursorAhead'
      <3> SUFFICES ASSUME NEW s \in claimed
                   PROVE  /\ s <= now
                          /\ nextRun' # None /\ nextRun' <= s =>
                                \E r \in rewound' : r # None /\ r <= s
        BY <2>2 DEF CursorAhead
      <3>1. s <= now /\ s \in Nat
        BY <2>4 DEF CursorAhead
      <3>2. nextRun # None /\ nextRun <= s => \E r \in rewound : r # None /\ r <= s
        BY DEF CursorAhead
      <3>3. CASE nextRun' = next_run(c, now)
        BY <2>3, <2>4, <3>1, <3>3
      <3>4. CASE nextRun' = nextRun /\ rewound' = rewound
        BY <3>1, <3>2, <3>4
      <3>5. CASE nextRun' = job[p].next /\ rewound' = rewound \cup {job[p].next}
        BY <3>1, <3>5
      <3> QED
        BY <2>1, <3>3, <3>4, <3>5
    <2>6. OnlyRewindsReclaim'
      BY <2>1, <2>2 DEF OnlyRewindsReclaim
    <2> QED
      BY <2>5, <2>6
  <1>21. ASSUME NEW p \in Procs, Enqueue(p) PROVE (CursorAhead /\ OnlyRewindsReclaim)'
    BY <1>21 DEF CursorAhead, OnlyRewindsReclaim, Enqueue, row, local, history
  <1>22. ASSUME NEW p \in Procs, RecordQueued(p) PROVE (CursorAhead /\ OnlyRewindsReclaim)'
    BY <1>22 DEF CursorAhead, OnlyRewindsReclaim, RecordQueued, row, local, history
  <1>23. ASSUME NEW p \in Procs, Bump(p) PROVE (CursorAhead /\ OnlyRewindsReclaim)'
    BY <1>23 DEF CursorAhead, OnlyRewindsReclaim, Bump, row, local, history
  <1>24. ASSUME NEW p \in Procs, EnqueueFails(p) PROVE (CursorAhead /\ OnlyRewindsReclaim)'
    BY <1>24 DEF CursorAhead, OnlyRewindsReclaim, EnqueueFails, row, local, history
  <1>25. ASSUME NEW p \in Procs, StatementFails(p) PROVE (CursorAhead /\ OnlyRewindsReclaim)'
    BY <1>25 DEF CursorAhead, OnlyRewindsReclaim, StatementFails, row, local, history
  <1>26. ASSUME NEW p \in Procs, EngineReadFails(p) PROVE (CursorAhead /\ OnlyRewindsReclaim)'
    BY <1>26 DEF CursorAhead, OnlyRewindsReclaim, EngineReadFails, row, local, history
  <1>27. ASSUME NEW p \in Procs, Crash(p) PROVE (CursorAhead /\ OnlyRewindsReclaim)'
    BY <1>27 DEF CursorAhead, OnlyRewindsReclaim, Crash, row, local, history
  <1>28. CASE UNCHANGED vars
    BY <1>28 DEF CursorAhead, OnlyRewindsReclaim, vars, row, local, history
  <1> QED
    BY StepCases, <1>1, <1>2, <1>3, <1>4, <1>5, <1>6, <1>7, <1>8, <1>9, <1>10, <1>11, <1>12,
       <1>13, <1>14, <1>15, <1>16, <1>17, <1>18, <1>19, <1>20, <1>21, <1>22, <1>23, <1>24, <1>25, <1>26, <1>27, <1>28

(* Without the edit form nothing is rewound. *)
LEMMA EditsStep ==
    TypeOK /\ OnlyEditsRewind /\ [Next]_vars => OnlyEditsRewind'
  <1> SUFFICES ASSUME TypeOK, OnlyEditsRewind, [Next]_vars
               PROVE  OnlyEditsRewind'
    OBVIOUS
  <1> USE DEF TypeOK, PlacesOK, OnlyEditsRewind, Procs
  <1>1. CASE Clock
    BY <1>1 DEF Clock, Goto, row, local, history
  <1>2. CASE EngineFinishes \/ EngineRevises
    BY <1>2 DEF EngineFinishes, EngineRevises, Says, Goto, row, local, history
  <1>3. ASSUME NEW p \in Ticks, TickRead(p) PROVE OnlyEditsRewind'
    BY <1>3 DEF TickRead, Goto, row, local, history
  <1>4. ASSUME NEW p \in Ticks, DisableInvalid(p) PROVE OnlyEditsRewind'
    BY <1>4 DEF DisableInvalid, Goto, row, local, history
  <1>5. ASSUME NEW p \in Ticks, Claim(p) PROVE OnlyEditsRewind'
    BY <1>5, HelperLabels DEF Claim, Goto, row, local, history
  <1>6. ASSUME NEW p \in Ticks, FindPrevious(p) PROVE OnlyEditsRewind'
    BY <1>6, HelperLabels DEF FindPrevious, Goto, row, local, history
  <1>7. ASSUME NEW p \in Ticks, AskEngine(p) PROVE OnlyEditsRewind'
    BY <1>7, HelperLabels DEF AskEngine, Goto, row, local, history
  <1>8. ASSUME NEW p \in Ticks, RecordSkip(p) PROVE OnlyEditsRewind'
    BY <1>8 DEF RecordSkip, Goto, row, local, history
  <1>9. ASSUME NEW p \in Ticks, RecordFailed(p) PROVE OnlyEditsRewind'
    BY <1>9 DEF RecordFailed, Goto, row, local, history
  <1>10. ASSUME NEW p \in Ticks, SetFailed(p) PROVE OnlyEditsRewind'
    BY <1>10 DEF SetFailed, Goto, row, local, history
  <1>11. ASSUME NEW p \in Ticks, ListQueued(p) PROVE OnlyEditsRewind'
    BY <1>11 DEF ListQueued, Goto, row, local, history
  <1>12. ASSUME NEW p \in Ticks, ReadOutcome(p) PROVE OnlyEditsRewind'
    BY <1>12 DEF ReadOutcome, Goto, row, local, history
  <1>13. ASSUME NEW p \in Ticks, SaveOutcome(p) PROVE OnlyEditsRewind'
    BY <1>13 DEF SaveOutcome, Goto, row, local, history
  <1>14. ASSUME NEW p \in Ticks, CheckLatest(p) PROVE OnlyEditsRewind'
    BY <1>14, HelperLabels DEF CheckLatest, Goto, row, local, history
  <1>15. ASSUME NEW p \in Ticks, SetStatus(p) PROVE OnlyEditsRewind'
    BY <1>15, HelperLabels DEF SetStatus, Goto, row, local, history
  <1>16. ASSUME NEW p \in Ticks, NotifyFailure(p) PROVE OnlyEditsRewind'
    BY <1>16 DEF NotifyFailure, Goto, row, local, history
  <1>17. ASSUME NEW p \in Ticks, TickEnds(p) PROVE OnlyEditsRewind'
    BY <1>17 DEF TickEnds, Goto, row, local, history
  <1>18. ASSUME NEW p \in Operators, RunNow(p) PROVE OnlyEditsRewind'
    BY <1>18 DEF RunNow, Goto, row, local, history
  <1>19. ASSUME NEW p \in Operators, EditRead(p) PROVE OnlyEditsRewind'
    BY <1>19 DEF EditRead, Goto, row, local, history
  <1>20. ASSUME NEW p \in Operators, EditSave(p) PROVE OnlyEditsRewind'
    BY <1>20 DEF EditSave, Goto, row, local, history
  <1>21. ASSUME NEW p \in Procs, Enqueue(p) PROVE OnlyEditsRewind'
    BY <1>21 DEF Enqueue, Goto, row, local, history
  <1>22. ASSUME NEW p \in Procs, RecordQueued(p) PROVE OnlyEditsRewind'
    BY <1>22 DEF RecordQueued, Goto, row, local, history
  <1>23. ASSUME NEW p \in Procs, Bump(p) PROVE OnlyEditsRewind'
    BY <1>23, HelperLabels DEF Bump, Goto, row, local, history
  <1>24. ASSUME NEW p \in Procs, EnqueueFails(p) PROVE OnlyEditsRewind'
    BY <1>24 DEF EnqueueFails, Goto, row, local, history
  <1>25. ASSUME NEW p \in Procs, StatementFails(p) PROVE OnlyEditsRewind'
    BY <1>25, HelperLabels DEF StatementFails, Goto, row, local, history
  <1>26. ASSUME NEW p \in Procs, EngineReadFails(p) PROVE OnlyEditsRewind'
    BY <1>26, HelperLabels DEF EngineReadFails, Goto, row, local, history
  <1>27. ASSUME NEW p \in Procs, Crash(p) PROVE OnlyEditsRewind'
    BY <1>27 DEF Crash, Goto, row, local, history
  <1>28. CASE UNCHANGED vars
    BY <1>28 DEF vars, Goto, row, local, history
  <1> QED
    BY StepCases, <1>1, <1>2, <1>3, <1>4, <1>5, <1>6, <1>7, <1>8, <1>9, <1>10, <1>11, <1>12,
       <1>13, <1>14, <1>15, <1>16, <1>17, <1>18, <1>19, <1>20, <1>21, <1>22, <1>23, <1>24, <1>25, <1>26, <1>27, <1>28

(* A claimed slot is followed until its run row exists or its tick is lost. *)
LEMMA RunsStep ==
    TypeOK /\ ClaimLeavesRun /\ [Next]_vars => ClaimLeavesRun'
  <1> SUFFICES ASSUME TypeOK, ClaimLeavesRun, [Next]_vars
               PROVE  ClaimLeavesRun'
    OBVIOUS
  <1> USE DEF TypeOK, PlacesOK, HoldingsOK, RunsOK, ClaimLeavesRun, InFlight, Unrecorded, Procs, Slot
  <1>1. CASE Clock
    BY <1>1 DEF Clock, Goto, Slot, row, local, history
  <1>2. CASE EngineFinishes \/ EngineRevises
    BY <1>2 DEF EngineFinishes, EngineRevises, Says, Goto, Slot, row, local, history
  <1>3. ASSUME NEW p \in Ticks, TickRead(p) PROVE ClaimLeavesRun'
    BY <1>3 DEF TickRead, Goto, Slot, row, local, history
  <1>4. ASSUME NEW p \in Ticks, DisableInvalid(p) PROVE ClaimLeavesRun'
    BY <1>4 DEF DisableInvalid, Goto, Slot, row, local, history
  <1>5. ASSUME NEW p \in Ticks, Claim(p) PROVE ClaimLeavesRun'
    BY <1>5, HelperLabels DEF Claim, Goto, Slot, row, local, history
  <1>6. ASSUME NEW p \in Ticks, FindPrevious(p) PROVE ClaimLeavesRun'
    <2>1. /\ pc'[p] \in {"skip", "fire", "engine"} /\ \A q \in Procs : q # p => pc'[q] = pc[q]
          /\ job' = job /\ claimed' = claimed /\ lost' = lost /\ runs' = runs
      BY <1>6, HelperLabels DEF FindPrevious, Goto, local, history
    <2> QED
      BY <2>1
  <1>7. ASSUME NEW p \in Ticks, AskEngine(p) PROVE ClaimLeavesRun'
    BY <1>7, HelperLabels DEF AskEngine, Goto, Slot, row, local, history
  <1>8. ASSUME NEW p \in Ticks, RecordSkip(p) PROVE ClaimLeavesRun'
    <2> DEFINE r == NewRun(p, "skipped", NoTask)
    <2>1. r \in RunType /\ r.slot = job[p].next
      BY <1>8, NewRunTyped DEF RunStatus, NoTask, NewRun, RecordSkip
    <2>2. runs' = Append(runs, r) /\ pc' = [pc EXCEPT ![p] = "list"]
      BY <1>8 DEF RecordSkip, Goto
    <2>3. job' = job /\ claimed' = claimed /\ lost' = lost
      BY <1>8 DEF RecordSkip, local, history
    <2> HIDE DEF r
    <2>4. \A i \in DOMAIN runs : i \in DOMAIN runs' /\ runs'[i].slot = runs[i].slot
      BY <2>1, <2>2
    <2>5. \E i \in DOMAIN runs' : runs'[i].slot = job[p].next
      <3>1. Len(runs) + 1 \in DOMAIN runs' /\ runs'[Len(runs) + 1] = r
        BY <2>1, <2>2
      <3> QED
        BY <2>1, <3>1
    <2>6. ASSUME NEW q \in Ticks, pc[q] \in Unrecorded
          PROVE  \/ pc'[q] \in Unrecorded
                 \/ job[q].next = job[p].next
      BY <2>2, <2>6
    <2> QED
      BY <2>3, <2>4, <2>5, <2>6, Zenon DEF ClaimLeavesRun, InFlight, Slot
  <1>9. ASSUME NEW p \in Ticks, RecordFailed(p) PROVE ClaimLeavesRun'
    <2> DEFINE r == NewRun(p, "failed", NoTask)
    <2>1. r \in RunType /\ r.slot = job[p].next
      BY <1>9, NewRunTyped DEF RunStatus, NoTask, NewRun, RecordFailed
    <2>2. runs' = Append(runs, r) /\ pc' = [pc EXCEPT ![p] = IF pc[p] = "failrec" THEN "failset" ELSE "badset"]
      BY <1>9 DEF RecordFailed, Goto
    <2>3. job' = job /\ claimed' = claimed /\ lost' = lost
      BY <1>9 DEF RecordFailed, local, history
    <2> HIDE DEF r
    <2>4. \A i \in DOMAIN runs : i \in DOMAIN runs' /\ runs'[i].slot = runs[i].slot
      BY <2>1, <2>2
    <2>5. \E i \in DOMAIN runs' : runs'[i].slot = job[p].next
      <3>1. Len(runs) + 1 \in DOMAIN runs' /\ runs'[Len(runs) + 1] = r
        BY <2>1, <2>2
      <3> QED
        BY <2>1, <3>1
    <2>6. ASSUME NEW q \in Ticks, pc[q] \in Unrecorded
          PROVE  \/ pc'[q] \in Unrecorded
                 \/ job[q].next = job[p].next
      BY <2>2, <2>6
    <2> QED
      BY <2>3, <2>4, <2>5, <2>6, Zenon DEF ClaimLeavesRun, InFlight, Slot
  <1>10. ASSUME NEW p \in Ticks, SetFailed(p) PROVE ClaimLeavesRun'
    BY <1>10 DEF SetFailed, Goto, Slot, row, local, history
  <1>11. ASSUME NEW p \in Ticks, ListQueued(p) PROVE ClaimLeavesRun'
    BY <1>11 DEF ListQueued, Goto, Slot, row, local, history
  <1>12. ASSUME NEW p \in Ticks, ReadOutcome(p) PROVE ClaimLeavesRun'
    BY <1>12 DEF ReadOutcome, Goto, Slot, row, local, history
  <1>13. ASSUME NEW p \in Ticks, SaveOutcome(p) PROVE ClaimLeavesRun'
    <2>1. runs' \in Seq(RunType) /\ Len(runs') = Len(runs)
      BY <1>13, SaveTyped
    <2>2. \A i \in 1..Len(runs) : runs'[i].slot = runs[i].slot
      BY <1>13 DEF SaveOutcome, RunType
    <2>3. DOMAIN runs' = DOMAIN runs /\ DOMAIN runs = 1..Len(runs)
      BY <2>1
    <2>4. /\ job' = job /\ claimed' = claimed /\ lost' = lost
          /\ \A q \in Ticks : pc[q] \in Unrecorded => pc'[q] = pc[q]
      BY <1>13 DEF SaveOutcome, Goto, local, history
    <2> QED
      BY <2>2, <2>3, <2>4
  <1>14. ASSUME NEW p \in Ticks, CheckLatest(p) PROVE ClaimLeavesRun'
    BY <1>14, HelperLabels DEF CheckLatest, Goto, Slot, row, local, history
  <1>15. ASSUME NEW p \in Ticks, SetStatus(p) PROVE ClaimLeavesRun'
    BY <1>15, HelperLabels DEF SetStatus, Goto, Slot, row, local, history
  <1>16. ASSUME NEW p \in Ticks, NotifyFailure(p) PROVE ClaimLeavesRun'
    <2>1. runs' \in Seq(RunType) /\ Len(runs') = Len(runs)
      BY <1>16, RunUpdateTyped DEF NotifyFailure, Outcome, RunStatus
    <2>2. \A i \in 1..Len(runs) : runs'[i].slot = runs[i].slot
      BY <1>16 DEF NotifyFailure, RunType
    <2>3. DOMAIN runs' = DOMAIN runs /\ DOMAIN runs = 1..Len(runs)
      BY <2>1
    <2>4. /\ job' = job /\ claimed' = claimed /\ lost' = lost
          /\ \A q \in Ticks : pc[q] \in Unrecorded => pc'[q] = pc[q]
      BY <1>16 DEF NotifyFailure, Goto, local, history
    <2> QED
      BY <2>2, <2>3, <2>4
  <1>17. ASSUME NEW p \in Ticks, TickEnds(p) PROVE ClaimLeavesRun'
    BY <1>17, HelperLabels DEF TickEnds, Goto, Slot, Forget, Loses, Handler, row, local, history
  <1>18. ASSUME NEW p \in Operators, RunNow(p) PROVE ClaimLeavesRun'
    BY <1>18 DEF RunNow, Goto, Slot, row, local, history
  <1>19. ASSUME NEW p \in Operators, EditRead(p) PROVE ClaimLeavesRun'
    BY <1>19 DEF EditRead, Goto, Slot, row, local, history
  <1>20. ASSUME NEW p \in Operators, EditSave(p) PROVE ClaimLeavesRun'
    BY <1>20 DEF EditSave, Goto, Slot, row, local, history
  <1>21. ASSUME NEW p \in Procs, Enqueue(p) PROVE ClaimLeavesRun'
    BY <1>21 DEF Enqueue, Goto, Slot, row, local, history
  <1>22. ASSUME NEW p \in Procs, RecordQueued(p) PROVE ClaimLeavesRun'
    <2> DEFINE r == NewRun(p, "queued", cur[p])
    <2>1. r \in RunType /\ r.slot = job[p].next
      BY <1>22, NewRunTyped DEF RunStatus, NoTask, NewRun, RecordQueued
    <2>2. runs' = Append(runs, r) /\ pc' = [pc EXCEPT ![p] = "bump"]
      BY <1>22 DEF RecordQueued, Goto
    <2>3. job' = job /\ claimed' = claimed /\ lost' = lost
      BY <1>22 DEF RecordQueued, local, history
    <2> HIDE DEF r
    <2>4. \A i \in DOMAIN runs : i \in DOMAIN runs' /\ runs'[i].slot = runs[i].slot
      BY <2>1, <2>2
    <2>5. \E i \in DOMAIN runs' : runs'[i].slot = job[p].next
      <3>1. Len(runs) + 1 \in DOMAIN runs' /\ runs'[Len(runs) + 1] = r
        BY <2>1, <2>2
      <3> QED
        BY <2>1, <3>1
    <2>6. ASSUME NEW q \in Ticks, pc[q] \in Unrecorded
          PROVE  \/ pc'[q] \in Unrecorded
                 \/ job[q].next = job[p].next
      BY <2>2, <2>6
    <2> QED
      BY <2>3, <2>4, <2>5, <2>6, Zenon DEF ClaimLeavesRun, InFlight, Slot
  <1>23. ASSUME NEW p \in Procs, Bump(p) PROVE ClaimLeavesRun'
    BY <1>23, HelperLabels DEF Bump, Goto, Slot, row, local, history
  <1>24. ASSUME NEW p \in Procs, EnqueueFails(p) PROVE ClaimLeavesRun'
    BY <1>24 DEF EnqueueFails, Goto, Slot, row, local, history
  <1>25. ASSUME NEW p \in Procs, StatementFails(p) PROVE ClaimLeavesRun'
    <2>1. /\ claimed' = claimed /\ runs' = runs /\ lost \subseteq lost'
          /\ \A q \in Procs : q # p => pc'[q] = pc[q] /\ job'[q] = job[q]
      BY <1>25 DEF StatementFails, Goto, Forget, Loses, local
    <2>2. ASSUME p \in Ticks, pc[p] \in Unrecorded
          PROVE  job[p].next \in lost' \/ (pc'[p] \in Unrecorded /\ job'[p] = job[p])
      <3>1. CASE pc[p] = "record"
        BY <1>25, <2>2, <3>1 DEF StatementFails, Goto, Handler, local
      <3>2. CASE pc[p] \in {"guard", "skip", "failrec", "badrec"}
        BY <1>25, <2>2, <3>2 DEF StatementFails, Loses
      <3> QED
        BY <1>25, <2>2, <3>1, <3>2 DEF StatementFails
    <2>3. \A s \in lost : s \in lost'
      BY <2>1
    <2> HIDE DEF Unrecorded, TypeOK, PlacesOK, HoldingsOK, RunsOK
    <2> QED
      BY <2>1, <2>2, <2>3
  <1>26. ASSUME NEW p \in Procs, EngineReadFails(p) PROVE ClaimLeavesRun'
    BY <1>26, HelperLabels DEF EngineReadFails, Goto, Slot, row, local, history
  <1>27. ASSUME NEW p \in Procs, Crash(p) PROVE ClaimLeavesRun'
    BY <1>27, HelperLabels DEF Crash, Goto, Slot, Forget, Loses, Handler, row, local, history
  <1>28. CASE UNCHANGED vars
    BY <1>28 DEF vars, Goto, Slot, row, local, history
  <1> QED
    BY StepCases, <1>1, <1>2, <1>3, <1>4, <1>5, <1>6, <1>7, <1>8, <1>9, <1>10, <1>11, <1>12,
       <1>13, <1>14, <1>15, <1>16, <1>17, <1>18, <1>19, <1>20, <1>21, <1>22, <1>23, <1>24, <1>25, <1>26, <1>27, <1>28

-----------------------------------------------------------------------------
(* A freshly seeded row satisfies the invariant. *)
LEMMA InitClaimInv == Init => ClaimInv /\ ClaimLeavesRun
  <1> SUFFICES ASSUME Init PROVE ClaimInv /\ ClaimLeavesRun
    OBVIOUS
  <1>0. /\ now = 0 /\ runs = <<>> /\ engine = <<>>
        /\ pc = [p \in Procs |-> "idle"] /\ at = [p \in Procs |-> 0]
    BY DEF Init
  <1>1. nextRun \in Instants
    <2>1. cadence \in CadenceType
      BY SchedulerAssumption DEF Init
    <2>2. CASE Malformed(cadence)
      BY <2>2 DEF Instants, Init
    <2>3. CASE ~Malformed(cadence)
      BY <2>1, <2>3, NextRunLater DEF Init
    <2> QED
      BY <2>2, <2>3
  <1>2. RowOK
    BY <1>1, Zenon DEF RowOK, Init
  <1>3. RunsOK /\ PlacesOK /\ HistoryOK
    <2>1. RunsOK
      BY <1>0 DEF RunsOK
    <2>2. PlacesOK
      BY DEF PlacesOK, Labels, RunStatus, Init
    <2>3. HistoryOK
      BY DEF HistoryOK, Init
    <2> QED
      BY <2>1, <2>2, <2>3
  <1>4. HoldingsOK
    BY DEF HoldingsOK, Blank, JobType, Instants, Init
  <1>5. Held /\ CursorAhead /\ OnlyRewindsReclaim /\ OnlyEditsRewind /\ ClaimLeavesRun
    <2>1. Held
      BY <1>0 DEF Held, Procs
    <2>2. CursorAhead /\ OnlyRewindsReclaim /\ ClaimLeavesRun
      BY DEF CursorAhead, OnlyRewindsReclaim, ClaimLeavesRun, Init
    <2>3. OnlyEditsRewind
      BY DEF OnlyEditsRewind, Init
    <2> QED
      BY <2>1, <2>2, <2>3
  <1> QED
    BY <1>2, <1>3, <1>4, <1>5 DEF ClaimInv, TypeOK

(* ClaimInv is an invariant of the scheduler, and with it ClaimLeavesRun. *)
THEOREM ClaimInvariance == Spec => [](ClaimInv /\ ClaimLeavesRun)
  <1>1. Init => ClaimInv /\ ClaimLeavesRun
    BY InitClaimInv
  <1>2. ClaimInv /\ ClaimLeavesRun /\ [Next]_vars => (ClaimInv /\ ClaimLeavesRun)'
    <2> SUFFICES ASSUME ClaimInv, ClaimLeavesRun, [Next]_vars
                 PROVE  (ClaimInv /\ ClaimLeavesRun)'
      OBVIOUS
    <2>1. TypeOK' /\ Held'
      BY TypeStep, HeldStep DEF ClaimInv
    <2>2. (CursorAhead /\ OnlyRewindsReclaim)'
      BY CursorStep DEF ClaimInv
    <2>3. OnlyEditsRewind'
      BY EditsStep DEF ClaimInv
    <2>4. ClaimLeavesRun'
      BY RunsStep DEF ClaimInv
    <2> QED
      BY <2>1, <2>2, <2>3, <2>4 DEF ClaimInv
  <1> QED
    BY <1>1, <1>2, PTL DEF Spec

(* The columns, rows and local variables keep their types. *)
THEOREM SchedulerTypes == Spec => []TypeOK
  <1>1. ClaimInv => TypeOK
    BY DEF ClaimInv
  <1> QED
    BY <1>1, ClaimInvariance, PTL

(* However many ticks overlap and wherever they pause or die, a slot is    *)
(* claimed again only after a stale save put next_run_at back at or before *)
(* it: the conditional UPDATE of _process_job_body.                        *)
THEOREM ReclaimNeedsRewind == Spec => []OnlyRewindsReclaim
  <1>1. ClaimInv => OnlyRewindsReclaim
    BY DEF ClaimInv
  <1> QED
    BY <1>1, ClaimInvariance, PTL

(* Where the edit form is not used, the promise of services.py holds: no   *)
(* slot is ever fired twice.                                               *)
THEOREM TicksAloneFireOnce == ASSUME ~Edits PROVE Spec => []NeverDoubleFires
  <1>1. ClaimInv => NeverDoubleFires
    BY DEF ClaimInv, OnlyEditsRewind, OnlyRewindsReclaim, NeverDoubleFires
  <1> QED
    BY <1>1, ClaimInvariance, PTL

(* Every claimed slot gets its run row, unless its tick is under way, was  *)
(* killed or failed on that insert: the except blocks of                   *)
(* _process_job_body leave no silent path.                                 *)
THEOREM NoSilentClaim == Spec => []ClaimLeavesRun
  BY ClaimInvariance, PTL

-----------------------------------------------------------------------------
(* A fired run that is still unfinished, and one too old for the guard. *)
Active(i) == runs[i].task # NoTask /\ engine[runs[i].task] = "READY"
Aged(i) == runs[i].created + StaleAfter < now

(* The outcome a chain has is one it has had, and while no worker was lost *)
(* a chain that has had one is finished.                                   *)
Chains ==
    /\ \A t \in 1..Len(engine) : engine[t] # "READY" => <<t, Terminal(engine[t])>> \in given
    /\ \A t \in Nat, o \in Outcomes : <<t, o>> \in given =>
          t \in 1..Len(engine) /\ (faults = 0 => engine[t] # "READY")

(* What run rows say of their tasks: a settled one carries an outcome that *)
(* its chain has had, and whoever is about to write an outcome has read it *)
(* from the chain of the run it writes.                                    *)
Settled ==
    /\ \A i \in 1..Len(runs) :
          /\ runs[i].task \in 0..Len(engine)
          /\ runs[i].task # NoTask /\ runs[i].status # "queued" =>
                <<runs[i].task, runs[i].status>> \in given
    /\ \A p \in Procs :
          /\ pc[p] = "record" => cur[p] \in 1..Len(engine)
          /\ \A i \in todo[p] : runs[i].task # NoTask
          /\ pc[p] = "save" => /\ cur[p] \in 1..Len(runs)
                               /\ runs[cur[p]].task # NoTask
                               /\ <<runs[cur[p]].task, seen[p]>> \in given

(* Run rows are in the order of their creation. *)
InOrder ==
    /\ \A i \in 1..Len(runs) : runs[i].created <= now
    /\ \A i, j \in 1..Len(runs) : i < j => runs[i].created <= runs[j].created

(* What OneRunAtATime supposes. *)
Alone == Cardinality(Ticks) = 1 /\ requests = 0 /\ faults = 0 /\ ~AllowOverlap

(* Every unfinished run but the newest is too old for the guard, and so is *)
(* every one that a tick about to fire has not asked the engine about.     *)
Spaced ==
    /\ requests = 0 => \A o \in Operators : pc[o] = "idle"
    /\ Alone =>
         /\ \A i, j \in 1..Len(runs) : i < j /\ Active(i) /\ runs[j].task # NoTask => Aged(i)
         /\ \A p \in Ticks, i \in 1..Len(runs) : Active(i) =>
               /\ pc[p] = "engine" => i = cur[p] \/ Aged(i)
               /\ pc[p] \in {"fire", "record"} => Aged(i)

(* How an insert changes the table. *)
LEMMA RunAppended ==
    ASSUME TypeOK, NEW r \in RunType, runs' = Append(runs, r)
    PROVE  /\ Len(runs') = Len(runs) + 1 /\ Len(runs) \in Nat
           /\ runs'[Len(runs) + 1] = r
           /\ \A i \in 1..Len(runs) : runs'[i] = runs[i]
  BY DEF TypeOK, RunsOK

(* Requests and faults are counted up. *)
LEMMA CountersStep ==
    ASSUME TypeOK, [Next]_vars
    PROVE  /\ requests' = 0 => requests = 0
           /\ faults' = 0 => faults = 0
  <1>0. requests \in Nat /\ faults \in Nat
    BY DEF TypeOK, HistoryOK
  <1>1. CASE Clock \/ EngineFinishes \/ UNCHANGED vars
    BY <1>1 DEF Clock, EngineFinishes, Says, vars
  <1>2. ASSUME NEW p \in Ticks, TickStep(p) PROVE UNCHANGED <<requests, faults>>
    BY <1>2
       DEF TickStep, Fire, TickRead, DisableInvalid, Claim, FindPrevious, AskEngine, RecordSkip,
           RecordFailed, SetFailed, ListQueued, ReadOutcome, SaveOutcome, CheckLatest, SetStatus,
           NotifyFailure, TickEnds, Enqueue, RecordQueued, Bump
  <1>3. ASSUME NEW o \in Operators, RequestStep(o)
        PROVE  (requests' = requests \/ requests' = requests + 1) /\ faults' = faults
    BY <1>3 DEF RequestStep, Fire, RunNow, EditRead, EditSave, Enqueue, RecordQueued, Bump
  <1>4. ASSUME NEW p \in Procs, Fault(p) PROVE faults' = faults + 1 /\ requests' = requests
    BY <1>4 DEF Fault, EnqueueFails, StatementFails, EngineReadFails, Crash
  <1>5. CASE EngineRevises
    <2>1. faults' = faults + 1 /\ requests' = requests
      BY <1>5 DEF EngineRevises, Says
    <2> QED
      BY <1>0, <2>1
  <1> QED
    BY <1>0, <1>1, <1>2, <1>3, <1>4, <1>5 DEF Next

(* What a step does to the chains: one more, one that says something else, *)
(* or nothing.                                                             *)
LEMMA EngineCases ==
    ASSUME TypeOK, [Next]_vars
    PROVE  \/ UNCHANGED <<engine, given>>
           \/ engine' = Append(engine, "READY") /\ UNCHANGED given
           \/ \E t \in 1..Len(engine), s \in {"READY", "SUCCESSFUL", "FAILED"} :
                 /\ Says(t, s)
                 /\ faults' # 0 \/ (engine[t] = "READY" /\ s # "READY")
  <1>0. DOMAIN engine = 1..Len(engine) /\ faults \in Nat
    BY DEF TypeOK, RunsOK, HistoryOK
  <1>1. CASE EngineFinishes
    BY <1>0, <1>1 DEF EngineFinishes
  <1>2. CASE EngineRevises
    <2>1. PICK t \in DOMAIN engine, s \in {"READY", "SUCCESSFUL", "FAILED"} :
              Says(t, s) /\ faults' = faults + 1
      BY <1>2 DEF EngineRevises
    <2>2. faults' # 0 /\ t \in 1..Len(engine)
      BY <1>0, <2>1
    <2> QED
      BY <2>1, <2>2, Zenon
  <1>3. ASSUME NEW p, Enqueue(p) PROVE engine' = Append(engine, "READY") /\ UNCHANGED given
    BY <1>3 DEF Enqueue, history
  <1>4. ASSUME NEW p \in Ticks,
               \/ TickRead(p) \/ DisableInvalid(p) \/ Claim(p) \/ FindPrevious(p)
               \/ AskEngine(p) \/ RecordSkip(p) \/ RecordFailed(p) \/ SetFailed(p)
               \/ ListQueued(p) \/ ReadOutcome(p) \/ SaveOutcome(p)
               \/ CheckLatest(p) \/ SetStatus(p) \/ NotifyFailure(p) \/ TickEnds(p)
        PROVE  UNCHANGED <<engine, given>>
    BY <1>4 DEF TickRead, DisableInvalid, Claim, FindPrevious, AskEngine, RecordSkip, RecordFailed,
                SetFailed, ListQueued, ReadOutcome, SaveOutcome, CheckLatest, SetStatus,
                NotifyFailure, TickEnds, history
  <1>5. ASSUME NEW o \in Operators, RunNow(o) \/ EditRead(o) \/ EditSave(o)
        PROVE  UNCHANGED <<engine, given>>
    BY <1>5 DEF RunNow, EditRead, EditSave, history
  <1>6. ASSUME NEW p \in Procs,
               \/ RecordQueued(p) \/ Bump(p) \/ EnqueueFails(p) \/ StatementFails(p)
               \/ EngineReadFails(p) \/ Crash(p)
        PROVE  UNCHANGED <<engine, given>>
    BY <1>6 DEF RecordQueued, Bump, EnqueueFails, StatementFails, EngineReadFails, Crash, history
  <1>7. CASE Clock \/ UNCHANGED vars
    BY <1>7 DEF Clock, vars, history
  <1> QED
    BY StepCases, <1>1, <1>2, <1>3, <1>4, <1>5, <1>6, <1>7

(* Every step keeps Chains; chains are only added, and what one has had it *)
(* has had.                                                                *)
LEMMA ChainsStep ==
    ASSUME TypeOK, Chains, [Next]_vars
    PROVE  /\ Chains'
           /\ given \subseteq given'
           /\ Len(engine) \in Nat /\ Len(engine') \in Nat /\ Len(engine) <= Len(engine')
  <1>0. /\ engine \in Seq({"READY", "SUCCESSFUL", "FAILED"}) /\ Len(engine) \in Nat
        /\ given \subseteq Nat \X Outcomes
        /\ faults' = 0 => faults = 0
    BY CountersStep DEF TypeOK, RunsOK, HistoryOK
  <1>1. CASE UNCHANGED <<engine, given>>
    BY <1>0, <1>1 DEF Chains
  <1>2. CASE engine' = Append(engine, "READY") /\ UNCHANGED given
    <2>1. /\ Len(engine') = Len(engine) + 1 /\ engine'[Len(engine) + 1] = "READY"
          /\ \A k \in 1..Len(engine) : engine'[k] = engine[k]
      BY <1>0, <1>2
    <2>2. \A k \in 1..Len(engine') : k \in 1..Len(engine) \/ k = Len(engine) + 1
      BY <1>0, <2>1
    <2>3. \A k \in 1..Len(engine) : k \in 1..Len(engine')
      BY <1>0, <2>1
    <2> QED
      BY <1>0, <1>2, <2>1, <2>2, <2>3 DEF Chains
  <1>3. CASE \E t \in 1..Len(engine), s \in {"READY", "SUCCESSFUL", "FAILED"} :
                /\ Says(t, s)
                /\ faults' # 0 \/ (engine[t] = "READY" /\ s # "READY")
    <2>1. PICK t \in 1..Len(engine), s \in {"READY", "SUCCESSFUL", "FAILED"} :
                /\ Says(t, s)
                /\ faults' # 0 \/ (engine[t] = "READY" /\ s # "READY")
      BY <1>3
    <2>2. /\ engine' = [engine EXCEPT ![t] = s]
          /\ given' = IF s = "READY" THEN given ELSE given \cup {<<t, Terminal(s)>>}
      BY <2>1 DEF Says
    <2>3. /\ Len(engine') = Len(engine) /\ engine'[t] = s
          /\ \A k \in 1..Len(engine) : k # t => engine'[k] = engine[k]
      BY <1>0, <2>1, <2>2
    <2>4. given \subseteq given' /\ (s # "READY" => <<t, Terminal(s)>> \in given')
      BY <2>2
    <2>5. \A k \in 1..Len(engine') : engine'[k] # "READY" => <<k, Terminal(engine'[k])>> \in given'
      BY <2>3, <2>4 DEF Chains
    <2>6. ASSUME NEW k \in Nat, NEW o \in Outcomes, <<k, o>> \in given'
          PROVE  k \in 1..Len(engine') /\ (faults' = 0 => engine'[k] # "READY")
      <3>1. CASE k = t
        BY <2>1, <2>3, <3>1
      <3>2. CASE k # t
        <4>1. <<k, o>> \in given
          BY <2>2, <2>6, <3>2
        <4> QED
          BY <1>0, <2>3, <3>2, <4>1 DEF Chains
      <3> QED
        BY <3>1, <3>2
    <2> QED
      BY <1>0, <2>3, <2>4, <2>5, <2>6 DEF Chains
  <1> QED
    BY <1>1, <1>2, <1>3, EngineCases

(* A step that touches no run and leads nobody to the steps that write     *)
(* them.                                                                   *)
LEMMA QuietSettles ==
    ASSUME Settled, UNCHANGED <<runs, todo>>, given \subseteq given',
           Len(engine) \in Nat, Len(engine') \in Nat, Len(engine) <= Len(engine'),
           \A q \in Procs : pc'[q] \in {"record", "save"} =>
               pc'[q] = pc[q] /\ cur'[q] = cur[q] /\ seen'[q] = seen[q]
    PROVE  Settled'
  <1>1. \A k \in 0..Len(engine) : k \in 0..Len(engine')
    OBVIOUS
  <1>2. \A k \in 1..Len(engine) : k \in 1..Len(engine')
    OBVIOUS
  <1>3. \A i \in 1..Len(runs') :
            /\ runs'[i].task \in 0..Len(engine')
            /\ runs'[i].task # NoTask /\ runs'[i].status # "queued" =>
                  <<runs'[i].task, runs'[i].status>> \in given'
    BY <1>1 DEF Settled
  <1>4. ASSUME NEW q \in Procs
        PROVE  /\ pc'[q] = "record" => cur'[q] \in 1..Len(engine')
               /\ \A i \in todo'[q] : runs'[i].task # NoTask
               /\ pc'[q] = "save" => /\ cur'[q] \in 1..Len(runs')
                                     /\ runs'[cur'[q]].task # NoTask
                                     /\ <<runs'[cur'[q]].task, seen'[q]>> \in given'
    BY <1>2 DEF Settled
  <1> QED
    BY <1>3, <1>4 DEF Settled

(* A new run row of a task that the engine has, or of none. *)
LEMMA InsertSettles ==
    ASSUME TypeOK, Settled, NEW r \in RunType, runs' = Append(runs, r),
           UNCHANGED <<engine, given, todo>>,
           r.task \in 0..Len(engine), r.task # NoTask => r.status = "queued",
           \A q \in Procs : pc'[q] \in {"record", "save"} =>
               pc'[q] = pc[q] /\ cur'[q] = cur[q] /\ seen'[q] = seen[q]
    PROVE  Settled'
  <1>1. /\ Len(runs') = Len(runs) + 1 /\ Len(runs) \in Nat
        /\ runs'[Len(runs) + 1] = r
        /\ \A i \in 1..Len(runs) : runs'[i] = runs[i]
    BY RunAppended
  <1>2. ASSUME NEW i \in 1..Len(runs')
        PROVE  /\ runs'[i].task \in 0..Len(engine')
               /\ runs'[i].task # NoTask /\ runs'[i].status # "queued" =>
                     <<runs'[i].task, runs'[i].status>> \in given'
    <2>1. CASE i \in 1..Len(runs)
      BY <1>1, <2>1 DEF Settled
    <2>2. CASE i = Len(runs) + 1
      BY <1>1, <2>2
    <2>3. i \in 1..Len(runs) \/ i = Len(runs) + 1
      BY <1>1
    <2> QED
      BY <2>1, <2>2, <2>3
  <1>3. ASSUME NEW q \in Procs
        PROVE  /\ pc'[q] = "record" => cur'[q] \in 1..Len(engine')
               /\ \A i \in todo'[q] : runs'[i].task # NoTask
               /\ pc'[q] = "save" => /\ cur'[q] \in 1..Len(runs')
                                     /\ runs'[cur'[q]].task # NoTask
                                     /\ <<runs'[cur'[q]].task, seen'[q]>> \in given'
    <2>1. todo[q] \subseteq 1..Len(runs)
      BY DEF TypeOK, HoldingsOK
    <2>2. \A i \in todo'[q] : runs'[i].task # NoTask
      BY <1>1, <2>1 DEF Settled
    <2>3. pc'[q] = "record" => cur'[q] \in 1..Len(engine')
      BY DEF Settled
    <2>4. ASSUME pc'[q] = "save"
          PROVE  /\ cur'[q] \in 1..Len(runs')
                 /\ runs'[cur'[q]].task # NoTask
                 /\ <<runs'[cur'[q]].task, seen'[q]>> \in given'
      <3>1. /\ cur'[q] = cur[q] /\ seen'[q] = seen[q] /\ cur[q] \in 1..Len(runs)
            /\ runs[cur[q]].task # NoTask /\ <<runs[cur[q]].task, seen[q]>> \in given
        BY <2>4 DEF Settled
      <3>2. cur[q] \in 1..Len(runs') /\ runs'[cur[q]] = runs[cur[q]]
        BY <1>1, <3>1
      <3> QED
        BY <3>1, <3>2
    <2> QED
      BY <2>2, <2>3, <2>4
  <1> QED
    BY <1>2, <1>3 DEF Settled

(* A write of one column of the table that leaves the tasks alone, and     *)
(* writes a status only from what the chain of its run has had.            *)
LEMMA WriteSettles ==
    ASSUME TypeOK, Settled, UNCHANGED <<engine, given, cur, seen, todo>>,
           Len(runs') = Len(runs),
           \A i \in 1..Len(runs) :
               /\ runs'[i].task = runs[i].task
               /\ runs'[i].status # runs[i].status => <<runs[i].task, runs'[i].status>> \in given,
           \A q \in Procs : pc'[q] \in {"record", "save"} => pc'[q] = pc[q]
    PROVE  Settled'
  <1>1. \A q \in Procs : todo[q] \subseteq 1..Len(runs)
    BY DEF TypeOK, HoldingsOK
  <1>2. \A i \in 1..Len(runs') :
            /\ runs'[i].task \in 0..Len(engine')
            /\ runs'[i].task # NoTask /\ runs'[i].status # "queued" =>
                  <<runs'[i].task, runs'[i].status>> \in given'
    BY DEF Settled
  <1>3. \A q \in Procs :
            /\ pc'[q] = "record" => cur'[q] \in 1..Len(engine')
            /\ \A i \in todo'[q] : runs'[i].task # NoTask
            /\ pc'[q] = "save" => /\ cur'[q] \in 1..Len(runs')
                                  /\ runs'[cur'[q]].task # NoTask
                                  /\ <<runs'[cur'[q]].task, seen'[q]>> \in given'
    BY <1>1 DEF Settled
  <1> QED
    BY <1>2, <1>3 DEF Settled

(* Every step keeps what run rows say, and a status is changed only into   *)
(* what its chain has had.                                                 *)
LEMMA SettledStep ==
    ASSUME TypeOK, Chains, Settled, [Next]_vars
    PROVE  /\ Settled'
           /\ \A i \in 1..Len(runs) : runs'[i].status # runs[i].status =>
                 /\ <<runs[i].task, runs'[i].status>> \in given
                 /\ runs[i].status = "queued" \/ <<runs[i].task, runs[i].status>> \in given
  <1> DEFINE Follows(i) == runs'[i].status # runs[i].status =>
                 /\ <<runs[i].task, runs'[i].status>> \in given
                 /\ runs[i].status = "queued" \/ <<runs[i].task, runs[i].status>> \in given
             Kept == \A i \in 1..Len(runs) : Follows(i)
             Still(q) == pc'[q] \in {"record", "save"} =>
                             pc'[q] = pc[q] /\ cur'[q] = cur[q] /\ seen'[q] = seen[q]
  <1>0. /\ pc \in [Procs -> Labels] /\ cur \in [Procs -> Nat] /\ todo \in [Procs -> SUBSET (1..Len(runs))]
        /\ seen \in [Procs -> RunStatus]
        /\ runs \in Seq(RunType) /\ Len(runs) \in Nat /\ \A i \in 1..Len(runs) : runs[i] \in RunType
        /\ engine \in Seq({"READY", "SUCCESSFUL", "FAILED"}) /\ Len(engine) \in Nat
        /\ Ticks \subseteq Procs /\ Operators \subseteq Procs
    BY DEF TypeOK, RunsOK, PlacesOK, HoldingsOK, Procs
  <1>1. ASSUME UNCHANGED <<runs, todo>>, \A q \in Procs : Still(q) PROVE Settled' /\ Kept
    BY <1>1, QuietSettles, ChainsStep
  <1>2. CASE Clock
    BY <1>1, <1>2 DEF Clock, local
  <1>3. CASE EngineFinishes \/ EngineRevises
    <2>1. UNCHANGED <<runs, todo, pc, cur, seen>>
      BY <1>3 DEF EngineFinishes, EngineRevises, Says, local
    <2> QED
      BY <1>1, <2>1
  <1>4. ASSUME NEW p \in Ticks,
               TickRead(p) \/ DisableInvalid(p) \/ Claim(p) \/ SetFailed(p) \/ CheckLatest(p) \/ SetStatus(p)
        PROVE  Settled' /\ Kept
    BY <1>0, <1>1, <1>4, HelperLabels
       DEF TickRead, DisableInvalid, Claim, SetFailed, CheckLatest, SetStatus, Goto, local
  <1>5. ASSUME NEW p \in Ticks, FindPrevious(p) \/ AskEngine(p) PROVE Settled' /\ Kept
    <2>1. PICK l \in {"skip", "fire", "engine"} : pc' = [pc EXCEPT ![p] = l]
      BY <1>5, HelperLabels DEF FindPrevious, AskEngine, Goto
    <2>2. UNCHANGED <<runs, todo, seen>> /\ \A q \in Procs : q # p => cur'[q] = cur[q]
      BY <1>0, <1>5 DEF FindPrevious, AskEngine, local
    <2> QED
      BY <1>0, <1>1, <2>1, <2>2
  <1>6. ASSUME NEW p \in Ticks, RecordSkip(p) \/ RecordFailed(p) PROVE Settled' /\ Kept
    <2>1. PICK s \in {"skipped", "failed"} : runs' = Append(runs, NewRun(p, s, NoTask))
      BY <1>6 DEF RecordSkip, RecordFailed
    <2>2. NewRun(p, s, NoTask) \in RunType /\ NewRun(p, s, NoTask).task = NoTask
      BY <1>0, NewRunTyped DEF RunStatus, NoTask, NewRun
    <2>3. UNCHANGED <<engine, given, todo>> /\ \A q \in Procs : Still(q)
      BY <1>0, <1>6 DEF RecordSkip, RecordFailed, Goto, local, history
    <2>4. Settled'
      BY <1>0, <2>1, <2>2, <2>3, InsertSettles DEF NoTask
    <2>5. \A i \in 1..Len(runs) : runs'[i] = runs[i]
      BY <2>1, <2>2, RunAppended
    <2> QED
      BY <2>4, <2>5
  <1>7. ASSUME NEW p \in Ticks, ListQueued(p) PROVE Settled' /\ Kept
    <2>1. /\ UNCHANGED <<runs, engine, given, cur, seen>> /\ todo' = [todo EXCEPT ![p] = Queued]
          /\ \A q \in Procs : pc'[q] \in {"record", "save"} => pc'[q] = pc[q]
      BY <1>0, <1>7 DEF ListQueued, Goto, history
    <2>2. \A i \in Queued : runs[i].task # NoTask
      BY DEF Queued
    <2>3. \A q \in Procs : \A i \in todo'[q] : runs[i].task # NoTask
      BY <1>0, <2>1, <2>2 DEF Settled
    <2> QED
      BY <2>1, <2>3 DEF Settled
  <1>8. ASSUME NEW p \in Ticks, ReadOutcome(p) PROVE Settled' /\ Kept
    <2> DEFINE n == Newest(todo[p])
    <2>1. n \in todo[p] /\ n \in 1..Len(runs)
      BY <1>0, <1>8, NewestIsGreatest DEF ReadOutcome
    <2>2. /\ UNCHANGED <<runs, engine, given>> /\ todo' = [todo EXCEPT ![p] = todo[p] \ {n}]
          /\ \/ UNCHANGED <<cur, seen, pc>>
             \/ /\ engine[runs[n].task] # "READY"
                /\ cur' = [cur EXCEPT ![p] = n] /\ pc' = [pc EXCEPT ![p] = "save"]
                /\ seen' = [seen EXCEPT ![p] = Outcome(n)]
      BY <1>8 DEF ReadOutcome, Goto, history
    <2>3. runs[n].task # NoTask /\ runs[n].task \in 1..Len(engine)
      <3>1. runs[n].task # NoTask /\ runs[n].task \in 0..Len(engine)
        BY <1>0, <2>1 DEF Settled
      <3> QED
        BY <1>0, <3>1 DEF NoTask
    <2>4. engine[runs[n].task] # "READY" => <<runs[n].task, Outcome(n)>> \in given
      BY <2>3 DEF Chains, Outcome
    <2> HIDE DEF n
    <2>5. ASSUME NEW q \in Procs
          PROVE  /\ todo'[q] \subseteq todo[q]
                 /\ pc'[q] = "record" => pc[q] = "record" /\ cur'[q] = cur[q]
                 /\ pc'[q] = "save" =>
                       \/ pc[q] = "save" /\ cur'[q] = cur[q] /\ seen'[q] = seen[q]
                       \/ cur'[q] = n /\ seen'[q] = Outcome(n) /\ engine[runs[n].task] # "READY"
      BY <1>0, <2>2
    <2>6. \A i \in 1..Len(runs') :
              /\ runs'[i].task \in 0..Len(engine')
              /\ runs'[i].task # NoTask /\ runs'[i].status # "queued" =>
                    <<runs'[i].task, runs'[i].status>> \in given'
      BY <2>2 DEF Settled
    <2>7. ASSUME NEW q \in Procs
          PROVE  /\ pc'[q] = "record" => cur'[q] \in 1..Len(engine')
                 /\ \A i \in todo'[q] : runs'[i].task # NoTask
                 /\ pc'[q] = "save" => /\ cur'[q] \in 1..Len(runs')
                                       /\ runs'[cur'[q]].task # NoTask
                                       /\ <<runs'[cur'[q]].task, seen'[q]>> \in given'
      BY <2>1, <2>2, <2>3, <2>4, <2>5 DEF Settled
    <2> QED
      BY <2>2, <2>6, <2>7 DEF Settled
  <1>9. ASSUME NEW p \in Ticks, SaveOutcome(p) PROVE Settled' /\ Kept
    <2> DEFINE c == cur[p]
    <2>1. /\ c \in 1..Len(runs) /\ runs[c].task # NoTask /\ <<runs[c].task, seen[p]>> \in given
          /\ runs[c].status # "queued" => <<runs[c].task, runs[c].status>> \in given
          /\ seen[p] \in Outcomes
      <3>1. c \in 1..Len(runs) /\ runs[c].task # NoTask /\ <<runs[c].task, seen[p]>> \in given
        BY <1>0, <1>9 DEF Settled, SaveOutcome
      <3>2. seen[p] \in Outcomes
        BY <3>1 DEF TypeOK, HistoryOK
      <3> QED
        BY <3>1, <3>2 DEF Settled
    <2>2. runs' = [runs EXCEPT ![c].status = seen[p]] /\ UNCHANGED <<engine, given, cur, seen, todo>>
      BY <1>9 DEF SaveOutcome, local, history
    <2>3. Len(runs') = Len(runs)
      BY <1>0, <2>1, <2>2, RunUpdateTyped DEF RunStatus
    <2>4. \A i \in 1..Len(runs) :
              /\ runs'[i].task = runs[i].task
              /\ runs'[i].status = IF i = c THEN seen[p] ELSE runs[i].status
      BY <1>0, <2>1, <2>2, SMTT(30) DEF RunType
    <2>5. \A q \in Procs : pc'[q] \in {"record", "save"} => pc'[q] = pc[q]
      BY <1>0, <1>9 DEF SaveOutcome, Goto
    <2> HIDE DEF c
    <2>6. Kept
      BY <2>1, <2>4
    <2>7. Settled'
      BY <2>2, <2>3, <2>4, <2>5, <2>6, WriteSettles
    <2> QED
      BY <2>6, <2>7
  <1>10. ASSUME NEW p \in Ticks, NotifyFailure(p) PROVE Settled' /\ Kept
    <2>1. Len(runs') = Len(runs)
      BY <1>0, <1>10, RunUpdateTyped DEF NotifyFailure, RunStatus
    <2>2. \A i \in 1..Len(runs) : runs'[i].task = runs[i].task /\ runs'[i].status = runs[i].status
      BY <1>0, <1>10 DEF NotifyFailure, RunType
    <2>3. UNCHANGED <<engine, given, todo, cur, seen>> /\ \A q \in Procs : Still(q)
      BY <1>0, <1>10 DEF NotifyFailure, Goto, local, history
    <2>4. Settled'
      BY <2>1, <2>2, <2>3, WriteSettles
    <2> QED
      BY <2>2, <2>4
  <1>11. ASSUME NEW p \in Procs, TickEnds(p) \/ StatementFails(p) \/ Crash(p) PROVE Settled' /\ Kept
    <2>1. /\ UNCHANGED <<runs, engine, given>>
          /\ \A q \in Procs : todo'[q] = todo[q] \/ todo'[q] = {}
          /\ \A q \in Procs : Still(q)
      BY <1>0, <1>11, HelperLabels DEF TickEnds, StatementFails, Crash, Forget, Goto, local, history
    <2> QED
      BY <2>1 DEF Settled
  <1>12. ASSUME NEW o \in Operators, RunNow(o) \/ EditRead(o) \/ EditSave(o) PROVE Settled' /\ Kept
    BY <1>0, <1>1, <1>12 DEF RunNow, EditRead, EditSave, Goto, local
  <1>13. ASSUME NEW p \in Procs, Enqueue(p) PROVE Settled' /\ Kept
    <2>1. /\ Len(engine') = Len(engine) + 1
          /\ UNCHANGED <<runs, todo, seen, given>>
          /\ cur' = [cur EXCEPT ![p] = Len(engine')] /\ pc' = [pc EXCEPT ![p] = "record"]
      BY <1>0, <1>13 DEF Enqueue, Goto, history
    <2>2. \A i \in 1..Len(runs') :
              /\ runs'[i].task \in 0..Len(engine')
              /\ runs'[i].task # NoTask /\ runs'[i].status # "queued" =>
                    <<runs'[i].task, runs'[i].status>> \in given'
      BY <1>0, <2>1 DEF Settled
    <2>3. \A q \in Procs :
              /\ pc'[q] = "record" => cur'[q] \in 1..Len(engine')
              /\ \A i \in todo'[q] : runs'[i].task # NoTask
              /\ pc'[q] = "save" => /\ cur'[q] \in 1..Len(runs')
                                    /\ runs'[cur'[q]].task # NoTask
                                    /\ <<runs'[cur'[q]].task, seen'[q]>> \in given'
      BY <1>0, <2>1 DEF Settled
    <2> QED
      BY <2>1, <2>2, <2>3 DEF Settled
  <1>14. ASSUME NEW p \in Procs, RecordQueued(p) PROVE Settled' /\ Kept
    <2>1. runs' = Append(runs, NewRun(p, "queued", cur[p])) /\ cur[p] \in 1..Len(engine)
      BY <1>14 DEF RecordQueued, Settled
    <2>2. /\ NewRun(p, "queued", cur[p]) \in RunType /\ NewRun(p, "queued", cur[p]).task = cur[p]
          /\ NewRun(p, "queued", cur[p]).status = "queued"
      BY <1>0, NewRunTyped DEF RunStatus, NewRun
    <2>3. UNCHANGED <<engine, given, todo>> /\ \A q \in Procs : Still(q)
      BY <1>0, <1>14 DEF RecordQueued, Goto, local, history
    <2>4. Settled'
      BY <1>0, <2>1, <2>2, <2>3, InsertSettles
    <2>5. \A i \in 1..Len(runs) : runs'[i] = runs[i]
      BY <2>1, <2>2, RunAppended
    <2> QED
      BY <2>4, <2>5
  <1>15. ASSUME NEW p \in Procs, Bump(p) \/ EnqueueFails(p) PROVE Settled' /\ Kept
    BY <1>0, <1>1, <1>15, HelperLabels DEF Bump, EnqueueFails, Goto, local
  <1>16. ASSUME NEW p \in Procs, EngineReadFails(p) PROVE Settled' /\ Kept
    <2>1. /\ UNCHANGED <<runs, engine, given, cur, seen>>
          /\ \A q \in Procs : todo'[q] \subseteq todo[q]
          /\ \A q \in Procs : Still(q)
      BY <1>0, <1>16, HelperLabels DEF EngineReadFails, Goto, history
    <2> QED
      BY <2>1 DEF Settled
  <1>17. CASE UNCHANGED vars
    BY <1>1, <1>17 DEF vars, local
  <1> HIDE DEF Kept, Still
  <1>18. ASSUME NEW p \in Ticks, TickEnds(p) PROVE Settled' /\ Kept
    BY <1>0, <1>11, <1>18
  <1>19. ASSUME NEW p \in Ticks, TickStep(p) PROVE Settled' /\ Kept
    BY <1>0, <1>4, <1>5, <1>6, <1>7, <1>8, <1>9, <1>10, <1>13, <1>14, <1>15, <1>18, <1>19 DEF TickStep, Fire
  <1>20. ASSUME NEW o \in Operators, RequestStep(o) PROVE Settled' /\ Kept
    BY <1>0, <1>12, <1>13, <1>14, <1>15, <1>20 DEF RequestStep, Fire
  <1>21. ASSUME NEW p \in Procs, Fault(p) PROVE Settled' /\ Kept
    BY <1>11, <1>15, <1>16, <1>21 DEF Fault
  <1> QED
    BY <1>2, <1>3, <1>17, <1>19, <1>20, <1>21 DEF Next, Kept

(* Run rows have their columns. *)
LEMMA RunColumns ==
    ASSUME TypeOK
    PROVE  /\ Len(runs) \in Nat /\ DOMAIN runs = 1..Len(runs) /\ now \in Nat /\ StaleAfter \in Nat
           /\ \A i \in 1..Len(runs) : runs[i] \in RunType /\ runs[i].created \in Nat
  <1>1. runs \in Seq(RunType) /\ now \in Nat
    BY DEF TypeOK, RunsOK, RowOK
  <1>2. \A r \in RunType : r.created \in Nat
    BY DEF RunType
  <1> QED
    BY <1>1, <1>2, SchedulerAssumption

(* How a step may change the table of runs, the engine and the counters. *)
LEMMA TableStep ==
    ASSUME TypeOK, Settled, [Next]_vars
    PROVE  /\ now \in Nat /\ now' \in Nat /\ now <= now'
           /\ Len(runs) \in Nat
           /\ \A i \in 1..Len(runs) : runs'[i].task = runs[i].task /\ runs'[i].created = runs[i].created
           /\ \/ Len(runs') = Len(runs)
              \/ /\ Len(runs') = Len(runs) + 1 /\ now' = now
                 /\ runs'[Len(runs) + 1].created = now
                 /\ \/ runs'[Len(runs) + 1].task = NoTask
                    \/ \E p \in Procs : pc[p] = "record" /\ RecordQueued(p)
           /\ faults' = 0 => \A i \in 1..Len(runs) : Active(i)' => Active(i)
  <1> USE DEF NoTask
  <1>0. /\ runs \in Seq(RunType) /\ Len(runs) \in Nat /\ \A i \in 1..Len(runs) : runs[i] \in RunType
        /\ engine \in Seq({"READY", "SUCCESSFUL", "FAILED"}) /\ Len(engine) \in Nat
        /\ cur \in [Procs -> Nat] /\ now \in Nat
        /\ \A i \in 1..Len(runs) : runs[i].task \in 0..Len(engine)
        /\ Ticks \subseteq Procs /\ Operators \subseteq Procs
    <2>1. /\ runs \in Seq(RunType) /\ engine \in Seq({"READY", "SUCCESSFUL", "FAILED"})
          /\ cur \in [Procs -> Nat]
      BY DEF TypeOK, RunsOK, PlacesOK
    <2>2. \A i \in 1..Len(runs) : runs[i].task \in 0..Len(engine)
      BY DEF Settled
    <2> QED
      BY <2>1, <2>2, RunColumns DEF Procs
  <1> DEFINE Same == UNCHANGED <<now, runs, engine>>
  <1>1. CASE Same
    BY <1>0, <1>1 DEF Active
  <1>2. CASE Clock
    BY <1>0, <1>2 DEF Clock, Active
  <1>3. CASE EngineFinishes
    <2>1. UNCHANGED <<now, runs>> /\ \A k \in 1..Len(engine) : engine'[k] = "READY" => engine[k] = "READY"
      <3>1. PICK t \in DOMAIN engine, s \in {"SUCCESSFUL", "FAILED"} : engine[t] = "READY" /\ Says(t, s)
        BY <1>3, Zenon DEF EngineFinishes
      <3>2. DOMAIN engine = 1..Len(engine)
        BY <1>0
      <3> QED
        BY <3>1, <3>2 DEF Says
    <2> QED
      BY <1>0, <2>1 DEF Active
  <1>17. CASE EngineRevises
    <2>1. UNCHANGED <<now, runs>> /\ faults' # 0
      BY <1>17 DEF EngineRevises, Says, TypeOK, HistoryOK
    <2> QED
      BY <1>0, <2>1
  <1>4. ASSUME NEW p \in Procs, NEW r \in RunType, runs' = Append(runs, r), UNCHANGED <<now, engine>>,
               r.created = now, r.task = NoTask \/ (pc[p] = "record" /\ RecordQueued(p))
        PROVE  /\ Len(runs') = Len(runs) + 1 /\ now' = now
               /\ \A i \in 1..Len(runs) : runs'[i] = runs[i]
               /\ runs'[Len(runs) + 1].created = now
               /\ \/ runs'[Len(runs) + 1].task = NoTask
                  \/ \E q \in Procs : pc[q] = "record" /\ RecordQueued(q)
               /\ \A i \in 1..Len(runs) : Active(i)' => Active(i)
    BY <1>0, <1>4, RunAppended DEF Active
  <1>5. ASSUME NEW p \in Ticks, RecordSkip(p) \/ RecordFailed(p)
        PROVE  \E s \in RunStatus :
                  /\ runs' = Append(runs, NewRun(p, s, NoTask)) /\ UNCHANGED <<now, engine>>
                  /\ NewRun(p, s, NoTask) \in RunType /\ NewRun(p, s, NoTask).task = NoTask
                  /\ NewRun(p, s, NoTask).created = now
    <2>1. \A s \in RunStatus : /\ NewRun(p, s, NoTask) \in RunType /\ NewRun(p, s, NoTask).task = NoTask
                               /\ NewRun(p, s, NoTask).created = now
      BY <1>0, NewRunTyped DEF NewRun
    <2>2. UNCHANGED <<now, engine>>
      BY <1>5 DEF RecordSkip, RecordFailed
    <2>3. "skipped" \in RunStatus /\ "failed" \in RunStatus
      BY DEF RunStatus
    <2> QED
      BY <1>5, <2>1, <2>2, <2>3, Zenon DEF RecordSkip, RecordFailed
  <1>6. ASSUME NEW p \in Procs, RecordQueued(p)
        PROVE  /\ runs' = Append(runs, NewRun(p, "queued", cur[p])) /\ UNCHANGED <<now, engine>>
               /\ NewRun(p, "queued", cur[p]) \in RunType
               /\ NewRun(p, "queued", cur[p]).created = now /\ pc[p] = "record"
    BY <1>0, <1>6, NewRunTyped DEF NewRun, RecordQueued, RunStatus
  <1>7. ASSUME NEW p \in Ticks, SaveOutcome(p) \/ NotifyFailure(p)
        PROVE  /\ Len(runs') = Len(runs) /\ UNCHANGED <<now, engine>>
               /\ \A i \in 1..Len(runs) : runs'[i].task = runs[i].task /\ runs'[i].created = runs[i].created
    <2>1. Len(runs') = Len(runs)
      BY <1>0, <1>7, RunUpdateTyped DEF SaveOutcome, NotifyFailure, RunStatus
    <2>2. \A i \in 1..Len(runs) : runs'[i].task = runs[i].task /\ runs'[i].created = runs[i].created
      <3>1. CASE SaveOutcome(p)
        BY <1>0, <3>1, SMTT(30) DEF SaveOutcome, RunType
      <3>2. CASE NotifyFailure(p)
        BY <1>0, <3>2, SMTT(30) DEF NotifyFailure, RunType
      <3> QED
        BY <1>7, <3>1, <3>2
    <2> QED
      BY <1>7, <2>1, <2>2 DEF SaveOutcome, NotifyFailure
  <1>8. ASSUME NEW p \in Procs, Enqueue(p)
        PROVE  UNCHANGED <<now, runs>> /\ \A k \in 1..Len(engine) : engine'[k] = engine[k]
    BY <1>0, <1>8 DEF Enqueue
  <1>9. ASSUME NEW p \in Ticks,
               \/ TickRead(p) \/ DisableInvalid(p) \/ Claim(p) \/ FindPrevious(p)
               \/ AskEngine(p) \/ SetFailed(p) \/ ListQueued(p) \/ ReadOutcome(p)
               \/ CheckLatest(p) \/ SetStatus(p) \/ TickEnds(p)
        PROVE  Same
    BY <1>9 DEF TickRead, DisableInvalid, Claim, FindPrevious, AskEngine, SetFailed, ListQueued,
                ReadOutcome, CheckLatest, SetStatus, TickEnds
  <1>10. ASSUME NEW p \in Operators, RunNow(p) \/ EditRead(p) \/ EditSave(p) PROVE Same
    BY <1>10 DEF RunNow, EditRead, EditSave
  <1>11. ASSUME NEW p \in Procs,
                Bump(p) \/ EnqueueFails(p) \/ StatementFails(p) \/ EngineReadFails(p) \/ Crash(p)
         PROVE  Same
    BY <1>11 DEF Bump, EnqueueFails, StatementFails, EngineReadFails, Crash
  <1>12. CASE UNCHANGED vars
    BY <1>1, <1>12 DEF vars
  <1>13. CASE \E p \in Ticks : RecordSkip(p) \/ RecordFailed(p)
    <2>1. PICK p \in Ticks : RecordSkip(p) \/ RecordFailed(p)
      BY <1>13
    <2>2. PICK s \in RunStatus :
              /\ runs' = Append(runs, NewRun(p, s, NoTask)) /\ UNCHANGED <<now, engine>>
              /\ NewRun(p, s, NoTask) \in RunType /\ NewRun(p, s, NoTask).task = NoTask
              /\ NewRun(p, s, NoTask).created = now
      BY <1>5, <2>1
    <2>3. p \in Procs
      BY <1>0, <2>1
    <2>4. /\ Len(runs') = Len(runs) + 1 /\ now' = now
          /\ \A i \in 1..Len(runs) : runs'[i] = runs[i]
          /\ runs'[Len(runs) + 1].created = now /\ runs'[Len(runs) + 1].task = NoTask
          /\ \A i \in 1..Len(runs) : Active(i)' => Active(i)
      BY <1>0, <2>2, <2>3, RunAppended DEF Active
    <2>5. now <= now' /\ now' \in Nat
      BY <1>0, <2>4
    <2> QED
      BY <1>0, <2>4, <2>5
  <1>14. CASE \E p \in Procs : RecordQueued(p)
    BY <1>0, <1>4, <1>6, <1>14
  <1>15. CASE \E p \in Ticks : SaveOutcome(p) \/ NotifyFailure(p)
    BY <1>0, <1>7, <1>15 DEF Active
  <1>16. CASE \E p \in Procs : Enqueue(p)
    BY <1>0, <1>8, <1>16 DEF Active
  <1> HIDE DEF Same
  <1> QED
    BY StepCases, <1>1, <1>2, <1>3, <1>9, <1>10, <1>11, <1>12, <1>13, <1>14, <1>15, <1>16, <1>17

(* Runs are appended as the clock goes on. *)
LEMMA OrderStep ==
    ASSUME TypeOK, Settled, InOrder, [Next]_vars
    PROVE  InOrder'
  <1>1. Len(runs) \in Nat /\ now \in Nat /\ \A i \in 1..Len(runs) : runs[i].created \in Nat
    BY RunColumns
  <1>2. \A i \in 1..Len(runs) : runs'[i].created = runs[i].created /\ runs[i].created <= now'
    BY <1>1, TableStep DEF InOrder
  <1>3. CASE Len(runs') = Len(runs)
    BY <1>1, <1>2, <1>3 DEF InOrder
  <1>4. CASE Len(runs') = Len(runs) + 1 /\ now' = now /\ runs'[Len(runs) + 1].created = now
    BY <1>1, <1>2, <1>4, SMTT(30) DEF InOrder
  <1> QED
    BY <1>3, <1>4, TableStep

(* While no worker was lost, an unfinished run is queued. *)
LEMMA ActiveIsQueued ==
    ASSUME TypeOK, Chains, Settled, faults = 0, NEW i \in 1..Len(runs), Active(i)
    PROVE  i \in Queued
  <1>1. DOMAIN runs = 1..Len(runs) /\ runs[i].task \in Nat /\ runs[i].task # NoTask
    <2>1. runs \in Seq(RunType)
      BY DEF TypeOK, RunsOK
    <2>2. DOMAIN runs = 1..Len(runs) /\ runs[i] \in RunType
      BY <2>1
    <2> QED
      BY <2>2 DEF RunType, Active
  <1>2. ASSUME runs[i].status # "queued" PROVE FALSE
    <2>1. <<runs[i].task, runs[i].status>> \in given
      BY <1>1, <1>2 DEF Settled
    <2>2. runs[i].status \in Outcomes
      BY <2>1 DEF TypeOK, HistoryOK
    <2> QED
      BY <1>1, <2>1, <2>2 DEF Chains, Active
  <1> QED
    BY <1>1, <1>2 DEF Queued

(* The guard's first query: whatever is not the run it asks about next has *)
(* aged.                                                                   *)
LEMMA GuardSees ==
    ASSUME TypeOK, Held, Chains, Settled, InOrder, Spaced, Alone, NEW p \in Ticks, FindPrevious(p)
    PROVE  /\ pc' = [pc EXCEPT ![p] = pc'[p]]
           /\ pc'[p] = "engine" => \A i \in 1..Len(runs) : Active(i) => i = cur'[p] \/ Aged(i)
           /\ pc'[p] = "fire" => \A i \in 1..Len(runs) : Active(i) => Aged(i)
  <1>0. /\ pc \in [Procs -> Labels] /\ cur \in [Procs -> Nat] /\ p \in Procs
        /\ Queued \subseteq 1..Len(runs) /\ Len(runs) \in Nat /\ now \in Nat
        /\ at[p] \in Nat /\ at[p] <= now /\ StaleAfter \in Nat
        /\ \A i \in 1..Len(runs) : runs[i].created \in Nat
    BY RunColumns DEF TypeOK, PlacesOK, Held, Procs, Queued
  <1>1. CASE Queued = {} \/ Stale(p, Newest(Queued))
    <2>1. pc' = [pc EXCEPT ![p] = Decided(p)]
      BY <1>1 DEF FindPrevious, Goto
    <2>2. ASSUME NEW i \in 1..Len(runs), Active(i) PROVE Aged(i)
      <3>1. i \in Queued
        BY <2>2, ActiveIsQueued DEF Alone
      <3>2. Newest(Queued) \in 1..Len(runs) /\ i <= Newest(Queued)
        BY <1>0, <3>1, NewestIsGreatest
      <3>3. runs[i].created <= runs[Newest(Queued)].created
        BY <1>0, <3>1, <3>2 DEF InOrder
      <3>4. runs[Newest(Queued)].created + StaleAfter < at[p]
        BY <1>1, <3>1 DEF Stale
      <3>5. runs[i].created \in Nat /\ runs[Newest(Queued)].created \in Nat
        BY <1>0, <3>2
      <3>6. runs[i].created + StaleAfter < now
        BY <1>0, <3>3, <3>4, <3>5, SMTT(30)
      <3> QED
        BY <3>6 DEF Aged
    <2> QED
      BY <1>0, <2>1, <2>2, HelperLabels
  <1>2. CASE ~(Queued = {} \/ Stale(p, Newest(Queued)))
    <2> DEFINE n == Newest(Queued)
    <2>1. pc' = [pc EXCEPT ![p] = "engine"] /\ cur' = [cur EXCEPT ![p] = n]
      BY <1>2 DEF FindPrevious, Goto
    <2>2. n \in Queued /\ \A j \in Queued : j <= n
      BY <1>0, <1>2, NewestIsGreatest
    <2>3. n \in 1..Len(runs) /\ runs[n].task # NoTask
      BY <1>0, <2>2 DEF Queued
    <2> HIDE DEF n
    <2>4. ASSUME NEW i \in 1..Len(runs), Active(i) PROVE i = n \/ Aged(i)
      <3>1. i <= n
        BY <2>2, <2>4, ActiveIsQueued DEF Alone
      <3> QED
        BY <1>0, <2>3, <2>4, <3>1 DEF Spaced
    <2> QED
      BY <1>0, <2>1, <2>4
  <1> QED
    BY <1>1, <1>2

(* Every step keeps runs apart. *)
LEMMA SpacedStep ==
    ASSUME TypeOK, Held, Chains, Settled, InOrder, Spaced, [Next]_vars
    PROVE  Spaced'
  <1>0. /\ pc \in [Procs -> Labels] /\ cur \in [Procs -> Nat]
        /\ Ticks \subseteq Procs /\ Operators \subseteq Procs /\ Ticks \cap Operators = {}
        /\ requests \in Nat /\ faults \in Nat
    BY SchedulerAssumption DEF TypeOK, PlacesOK, HistoryOK, Procs
  <1>1. /\ requests' = 0 => requests = 0
        /\ faults' = 0 => faults = 0
    BY CountersStep
  <1>2. ASSUME requests' = 0, \E o \in Operators : RequestStep(o) \/ Fault(o) PROVE FALSE
    BY <1>0, <1>1, <1>2
       DEF Spaced, RequestStep, Fire, Fault, RunNow, EditRead, EditSave, Enqueue, RecordQueued, Bump,
           EnqueueFails, StatementFails, EngineReadFails, Crash
  <1>3. ASSUME faults' = 0, EngineRevises \/ \E p \in Procs : Fault(p) PROVE FALSE
    BY <1>0, <1>3 DEF Fault, EngineRevises, EnqueueFails, StatementFails, EngineReadFails, Crash
  <1>4. ASSUME NEW p \in Ticks, TickStep(p) \/ Fault(p)
        PROVE  \A q \in Procs \ {p} : pc'[q] = pc[q] /\ cur'[q] = cur[q]
    BY <1>0, <1>4
       DEF TickStep, Fire, Fault, TickRead, DisableInvalid, Claim, FindPrevious, AskEngine, RecordSkip,
           RecordFailed, SetFailed, ListQueued, ReadOutcome, SaveOutcome, CheckLatest, SetStatus,
           NotifyFailure, TickEnds, Enqueue, RecordQueued, Bump, EnqueueFails, StatementFails,
           EngineReadFails, Crash, Goto, Forget, local
  <1>5. ASSUME Clock \/ EngineFinishes \/ EngineRevises \/ UNCHANGED vars
        PROVE  UNCHANGED <<pc, cur>> /\ Len(runs') = Len(runs)
    BY <1>5 DEF Clock, EngineFinishes, EngineRevises, Says, vars, local
  <1>6. requests' = 0 => \A o \in Operators : pc'[o] = "idle"
    <2> SUFFICES ASSUME requests' = 0, NEW o \in Operators PROVE pc'[o] = "idle"
      OBVIOUS
    <2>1. pc[o] = "idle"
      BY <1>1 DEF Spaced
    <2>2. CASE \E p \in Ticks : TickStep(p) \/ Fault(p)
      BY <1>0, <1>4, <2>1, <2>2
    <2> QED
      BY <1>2, <1>5, <2>1, <2>2 DEF Next, Procs
  <1>7. ASSUME Alone' PROVE Alone
    BY <1>1, <1>7 DEF Alone
  <1>8. ASSUME Alone'
        PROVE  /\ \A i, j \in 1..Len(runs') : i < j /\ Active(i)' /\ runs'[j].task # NoTask => Aged(i)'
               /\ \A p \in Ticks, i \in 1..Len(runs') : Active(i)' =>
                     /\ pc'[p] = "engine" => i = cur'[p] \/ Aged(i)'
                     /\ pc'[p] \in {"fire", "record"} => Aged(i)'
    <2>1. Alone /\ requests' = 0 /\ faults' = 0
      BY <1>7, <1>8 DEF Alone
    <2>2. PICK t : Ticks = {t}
      BY <2>1, SchedulerAssumption, FS_Singleton DEF Alone
    <2>3. t \in Ticks /\ t \in Procs
      BY <1>0, <2>2
    <2>4. TickStep(t) \/ Clock \/ EngineFinishes \/ UNCHANGED vars
      BY <1>2, <1>3, <2>1, <2>2 DEF Next
    <2>5. \A i \in 1..Len(runs) : runs[i].created \in Nat /\ StaleAfter \in Nat
      BY RunColumns
    <2>6. \A i \in 1..Len(runs) : Aged(i) => Aged(i)'
      BY <2>5, TableStep DEF Aged
    <2>7. \A i \in 1..Len(runs) : Active(i)' => Active(i)
      BY <2>1, TableStep
    <2>8. ASSUME NEW i \in 1..Len(runs'), NEW j \in 1..Len(runs'), i < j, Active(i)', runs'[j].task # NoTask
          PROVE  Aged(i)'
      <3>1. CASE j \in 1..Len(runs)
        <4>1. i \in 1..Len(runs) /\ Active(i) /\ runs[j].task # NoTask
          BY <2>7, <2>8, <3>1, TableStep
        <4> QED
          BY <2>1, <2>6, <2>8, <3>1, <4>1 DEF Spaced
      <3>2. CASE j \notin 1..Len(runs)
        <4>1. i \in 1..Len(runs) /\ j = Len(runs) + 1 /\ \E p \in Procs : pc[p] = "record"
          BY <2>8, <3>2, TableStep
        <4>2. pc[t] = "record"
          BY <2>1, <2>2, <4>1 DEF Spaced, Alone, Procs
        <4> QED
          BY <2>1, <2>3, <2>6, <2>7, <2>8, <4>1, <4>2 DEF Spaced
      <3> QED
        BY <3>1, <3>2
    <2>9. ASSUME NEW i \in 1..Len(runs'), Active(i)', pc'[t] \in {"engine", "fire", "record"}
          PROVE  /\ pc'[t] = "engine" => i = cur'[t] \/ Aged(i)'
                 /\ pc'[t] \in {"fire", "record"} => Aged(i)'
      <3>1. CASE Clock \/ EngineFinishes \/ UNCHANGED vars
        <4>1. UNCHANGED <<pc, cur>> /\ i \in 1..Len(runs)
          BY <1>5, <2>9, <3>1
        <4> QED
          BY <2>1, <2>3, <2>6, <2>7, <2>9, <4>1 DEF Spaced
      <3>2. CASE FindPrevious(t)
        <4>1. i \in 1..Len(runs) /\ Active(i)
          BY <2>7, <2>9, <3>2 DEF FindPrevious
        <4>2. pc'[t] # "record"
          BY <1>0, <2>3, <3>2, HelperLabels DEF FindPrevious, Goto
        <4> QED
          BY <2>1, <2>3, <2>6, <3>2, <4>1, <4>2, GuardSees
      <3>3. CASE AskEngine(t)
        <4>1. /\ i \in 1..Len(runs) /\ Active(i)
              /\ pc[t] = "engine" /\ pc'[t] \in {"skip", "fire"}
              /\ engine[runs[cur[t]].task] = "READY" => pc'[t] = "skip"
          BY <1>0, <2>3, <2>7, <2>9, <3>3, HelperLabels DEF AskEngine, Goto
        <4>2. i # cur[t]
          BY <2>9, <4>1 DEF Active
        <4> QED
          BY <2>1, <2>3, <2>6, <4>1, <4>2 DEF Spaced
      <3>4. CASE Enqueue(t)
        <4>1. i \in 1..Len(runs) /\ Active(i) /\ pc[t] = "fire" /\ pc'[t] = "record"
          BY <1>0, <2>3, <2>7, <2>9, <3>4 DEF Enqueue, Goto
        <4> QED
          BY <2>1, <2>3, <2>6, <4>1 DEF Spaced
      <3>5. CASE Claim(t)
        <4>1. Guarded(t) = "guard"
          BY <2>1 DEF Alone, Guarded
        <4> QED
          BY <1>0, <2>3, <2>9, <3>5, <4>1 DEF Claim, Goto
      <3>6. CASE \/ TickRead(t) \/ DisableInvalid(t) \/ RecordSkip(t) \/ RecordFailed(t) \/ SetFailed(t)
                 \/ ListQueued(t) \/ ReadOutcome(t) \/ SaveOutcome(t) \/ CheckLatest(t) \/ SetStatus(t)
                 \/ NotifyFailure(t) \/ TickEnds(t) \/ RecordQueued(t) \/ Bump(t)
        BY <1>0, <2>3, <2>9, <3>6, HelperLabels
           DEF TickRead, DisableInvalid, RecordSkip, RecordFailed, SetFailed, ListQueued, ReadOutcome,
               SaveOutcome, CheckLatest, SetStatus, NotifyFailure, TickEnds, RecordQueued, Bump, Goto
      <3> QED
        BY <2>4, <3>1, <3>2, <3>3, <3>4, <3>5, <3>6 DEF TickStep, Fire
    <2> QED
      BY <2>2, <2>8, <2>9
  <1> QED
    BY <1>6, <1>8 DEF Spaced

(* What run rows say, their order and their distance hold in every state   *)
(* of the ticks, Run now and the edit form.                                *)
THEOREM RunHistory == Spec => [](Chains /\ Settled /\ InOrder /\ Spaced)
  <1>1. Init => Chains /\ Settled /\ InOrder /\ Spaced
    <2> SUFFICES ASSUME Init PROVE Chains /\ Settled /\ InOrder /\ Spaced
      OBVIOUS
    <2>1. /\ Len(runs) = 0 /\ todo = [p \in Procs |-> {}] /\ pc = [p \in Procs |-> "idle"]
          /\ Len(engine) = 0 /\ given = {}
      BY DEF Init
    <2> QED
      BY <2>1 DEF Chains, Settled, InOrder, Spaced, Procs
  <1>2. ClaimInv /\ Chains /\ Settled /\ InOrder /\ Spaced /\ [Next]_vars =>
            (Chains /\ Settled /\ InOrder /\ Spaced)'
    BY ChainsStep, SettledStep, OrderStep, SpacedStep DEF ClaimInv
  <1> QED
    BY <1>1, <1>2, ClaimInvariance, PTL DEF Spec

(* However many reconciles overlap and however stale the runs and the      *)
(* outcomes they hold, reconcile_run_outcomes writes on a run only what    *)
(* its own chain has had, and changes a settled run only where the chain   *)
(* itself was revised.                                                     *)
THEOREM RunsFollowChains == Spec => OutcomeFollowsChain
  <1>1. TypeOK /\ Chains /\ Settled /\ [Next]_vars =>
            [\A i \in DOMAIN runs : runs'[i].status # runs[i].status =>
                /\ <<runs[i].task, runs'[i].status>> \in given
                /\ \/ runs[i].status = "queued"
                   \/ <<runs[i].task, runs[i].status>> \in given]_vars
    <2>1. TypeOK => DOMAIN runs = 1..Len(runs)
      BY DEF TypeOK, RunsOK
    <2> QED
      BY <2>1, SettledStep
  <1> QED
    BY <1>1, RunHistory, SchedulerTypes, PTL DEF Spec, OutcomeFollowsChain

(* The overlap guard of _previous_run_active, with one trigger, no Run now *)
(* and no failure: at most one fresh run is unfinished, for any cadence    *)
(* and any stale-run limit.                                                *)
THEOREM GuardKeepsApart == Spec => []OneRunAtATime
  <1>1. TypeOK /\ Settled /\ InOrder /\ Spaced => OneRunAtATime
    <2> SUFFICES ASSUME TypeOK, Spaced, Alone PROVE Cardinality(Unfinished) <= 1
      BY DEF OneRunAtATime, Alone
    <2>1. DOMAIN runs = 1..Len(runs) /\ Unfinished \subseteq 1..Len(runs) /\ Len(runs) \in Nat
      BY DEF TypeOK, RunsOK, Unfinished
    <2>2. \A i \in Unfinished : Active(i) /\ ~Aged(i) /\ runs[i].task # NoTask
      <3>1. \A i \in 1..Len(runs) : runs[i].created \in Nat /\ StaleAfter \in Nat /\ now \in Nat
        BY RunColumns
      <3> QED
        BY <2>1, <3>1 DEF Unfinished, Active, Aged
    <2>3. ASSUME NEW i \in Unfinished, NEW j \in Unfinished PROVE i = j
      <3>1. ~(i < j) /\ ~(j < i)
        BY <2>1, <2>2 DEF Spaced
      <3> QED
        BY <2>1, <3>1
    <2>4. Unfinished = {} \/ \E i : Unfinished = {i}
      BY <2>3
    <2>5. Cardinality(Unfinished) \in {0, 1}
      BY <2>4, FS_EmptySet, FS_Singleton, Zenon
    <2> QED
      BY <2>5
  <1> QED
    BY <1>1, RunHistory, SchedulerTypes, PTL
=============================================================================

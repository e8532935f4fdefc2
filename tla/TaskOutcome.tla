---------------------------- MODULE TaskOutcome ----------------------------
(***************************************************************************)
(* What the rest of the system is told about a chain of attempts:          *)
(* reliability.chain_outcome, which the scheduler copies into a job's run  *)
(* history.  The walk reads one TaskAttempt row at a time; the rows are    *)
(* taken here from one state, which is what a reader sees when no write    *)
(* falls between its queries.                                              *)
(***************************************************************************)
EXTENDS TaskQueue

CONSTANT MaxChain   \* _MAX_CHAIN, which bounds the walk

\* "Chains are bounded by max_attempts; this only guards a corrupt parent loop":
\* no budget is beyond it (it is 1000; a job may be given MAX_RETRIES_CAP = 10
\* retries, and a policy stands in the code).
ASSUME ChainsFit ==
    /\ MaxChain \in Nat
    /\ PolicyAttempts <= MaxChain
    /\ \A pin \in Pins : pin # None => pin <= MaxChain

ChildOf(r) == CHOOSE c \in Results : tparent[c] = r

\* Mutant: the retry_cancelled mark is read the wrong way round.
WalkForksCancelled(s) ==
    IF s.stop \/ ~HasChild(s.at) THEN [s EXCEPT !.stop = TRUE]
    ELSE LET c == ChildOf(s.at) IN
         IF tcompleted[c] /\ tcancelled[c] /\ ~HasChild(c)
         THEN [s EXCEPT !.stop = TRUE]
         ELSE [s EXCEPT !.at = c, !.forked = @ \/ (tcompleted[c] /\ tcancelled[c])]

\* One iteration of the walk, from the state of its local variables.
Walk(s) ==
    IF s.stop \/ ~HasChild(s.at) THEN [s EXCEPT !.stop = TRUE]
    ELSE LET c == ChildOf(s.at) IN
         IF tcompleted[c] /\ tcancelled[c] /\ ~HasChild(c)
         THEN [s EXCEPT !.stop = TRUE]
         ELSE [at |-> c, stop |-> FALSE,
               forked |-> s.forked \/ (tcompleted[c] /\ ~tcancelled[c]),
               resurrected |-> s.resurrected \/ (tcompleted[c] /\ tcancelled[c])]

\* The local variables before the walk, and after each of its iterations.
WalkStart(root) == [at |-> root, stop |-> FALSE, forked |-> FALSE, resurrected |-> FALSE]
WalkSteps(root) ==
    LET walk[n \in 0..MaxChain] ==
            IF n = 0 THEN WalkStart(root) ELSE Walk(walk[n - 1])
    IN walk

\* The loop breaks where Walk stops, or ends after MaxChain turns.
WalkFrom(root) == WalkSteps(root)[MaxChain]

\* ChainOutcome: a failed last attempt is RETRYING inside the repair window
\* when _decide would retry it.
ChainOutcome(root) ==
    LET s == WalkFrom(root)
        retrying == rage[s.at] # "old" /\ Decides(s.at, "failed")
        status == IF retrying THEN "RETRYING" ELSE rstatus[s.at]
    IN [at |-> s.at, status |-> status,
        executed_more_than_once |->
            s.forked \/ (s.resurrected /\ status # "READY"),
        resurrected_cancelled_retry |-> s.resurrected]
-----------------------------------------------------------------------------
(* What the queue promises to those who enqueue: AttemptLedger.            *)

\* The verdicts of the reaper and of a cancel are FAILED rows to the database.
Phase(r) ==
    IF rstatus[r] = "FAILED" /\ rexc[r] = "WorkerLost" THEN "LOST"
    ELSE IF rstatus[r] = "FAILED" /\ rexc[r] = "RetrySuperseded" THEN "CANCELLED"
    ELSE rstatus[r]

Ledger == INSTANCE AttemptLedger
    WITH phase <- [r \in Results |-> Phase(r)],
         follows <- tparent, cause <- tcause, number <- tattempt,
         limit <- [r \in Results |-> Budget(r)],
         Limits <- {IF pin # None THEN pin ELSE PolicyAttempts : pin \in Pins},
         Causes <- Cause

\* However workers, reapers, repair sweeps and cancels race, crash or fail, the
\* rows behave as AttemptLedger says: a line of attempts within its limit, each
\* started once, reported once and for good unless a forced stop overturns its
\* success, repeated once and for cause (the conditional UPDATEs of reaper.py and
\* _mark_superseded, maybe_retry).
LedgerRefined == Ledger!LedgerSpec
-----------------------------------------------------------------------------
InChain(root, r) == Exists(r) /\ troot[r] = root

\* Once an attempt that was reaped and replaced is stamped as completed and its
\* replacement did start, the outcome of the chain says so, whatever later
\* attempts were lost, cancelled or retried (ChainOutcome.executed_more_than_once).
ForkIsReported ==
    \A root \in Roots : Exists(root) =>
        ((\E c \in Results : InChain(root, c) /\ tcompleted[c] /\ Executed(c))
         => ChainOutcome(root).executed_more_than_once)

\* "RETRYING while the latest attempt failed but another is on its way"
\* (ChainOutcome's docstring): nothing else may have used up the attempt's one
\* possible retry.
RetryingMeansRetryComing ==
    \A root \in Roots : Exists(root) /\ ChainOutcome(root).status = "RETRYING"
        => ~HasChild(ChainOutcome(root).at)

\* "A bookkeeping row must never be the chain's reported outcome"
\* (exceptions.py, ChainOutcome's docstring): at least not once every thread is
\* done with the two updates that cancel a retry.
OutcomeIsNotBookkeeping ==
    \A root \in Roots : Exists(root) /\ (\A t \in Threads : pc[t] # "flag") =>
        rexc[ChainOutcome(root).at] # "RetrySuperseded"
=============================================================================

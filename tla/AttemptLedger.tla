--------------------------- MODULE AttemptLedger ---------------------------
(***************************************************************************)
(* What apps/tasks promises to the code that enqueues a task: the task is  *)
(* run as one line of numbered attempts, no longer than its limit; an      *)
(* attempt starts at most once; what its worker reports stands, even after *)
(* it was given up as lost, but for a success that a forced stop of the    *)
(* worker turns into a failure; it is repeated at most once, for its       *)
(* failure only while that stands, otherwise only as a lost one; and it is *)
(* withdrawn only before it starts and only when the lost attempt it       *)
(* replaced came back.  Which process decides, on what it read, and where  *)
(* it may stop are the business of the detailed module TaskQueue.          *)
(***************************************************************************)
EXTENDS Naturals

CONSTANTS Roots,     \* attempts that callers ask for
          Results,   \* every attempt
          Limits,    \* how many attempts a task may have
          Causes,    \* why an attempt was made
          None

VARIABLES phase,     \* per attempt: where it stands
          follows,   \* the attempt it repeats, or None
          cause,     \* why it was made
          number,    \* its number in the line
          limit      \* the longest its line may get

ledgerVars == <<phase, follows, cause, number, limit>>

LedgerInit ==
    /\ phase = [r \in Results |-> "NONE"]
    /\ follows = [r \in Results |-> None]
    /\ cause = [r \in Results |-> "first"]
    /\ number = [r \in Results |-> 1]
    /\ limit \in [Results -> Nat \ {0}]

Accept(r, l) ==
    /\ phase[r] = "NONE"
    /\ phase' = [phase EXCEPT ![r] = "READY"]
    /\ limit' = [limit EXCEPT ![r] = l]
    /\ UNCHANGED <<follows, cause, number>>

Start(r) ==
    /\ phase[r] = "READY"
    /\ phase' = [phase EXCEPT ![r] = "RUNNING"]
    /\ UNCHANGED <<follows, cause, number, limit>>

GiveUp(r) ==
    /\ phase[r] = "RUNNING"
    /\ phase' = [phase EXCEPT ![r] = "LOST"]
    /\ UNCHANGED <<follows, cause, number, limit>>

Report(r, outcome) ==
    /\ phase[r] \in {"RUNNING", "LOST"}
    /\ phase' = [phase EXCEPT ![r] = outcome]
    /\ UNCHANGED <<follows, cause, number, limit>>

Overturn(r) ==
    /\ phase[r] = "SUCCESSFUL"
    /\ phase' = [phase EXCEPT ![r] = "FAILED"]
    /\ UNCHANGED <<follows, cause, number, limit>>

Withdraw(r) ==
    /\ phase[r] = "READY"
    /\ cause[r] = "lost" /\ phase[follows[r]] \in {"SUCCESSFUL", "FAILED"}
    /\ phase' = [phase EXCEPT ![r] = "CANCELLED"]
    /\ UNCHANGED <<follows, cause, number, limit>>

Repeat(r, n, why) ==
    /\ phase[n] = "NONE"
    /\ \/ why = "lost" /\ phase[r] \in {"LOST", "SUCCESSFUL", "FAILED"}
       \/ why # "lost" /\ phase[r] = "FAILED"
    /\ \A c \in Results : follows[c] # r
    /\ number[r] < limit[r]
    /\ phase' = [phase EXCEPT ![n] = "READY"]
    /\ follows' = [follows EXCEPT ![n] = r]
    /\ cause' = [cause EXCEPT ![n] = why]
    /\ number' = [number EXCEPT ![n] = number[r] + 1]
    /\ limit' = [limit EXCEPT ![n] = limit[r]]

LedgerNext ==
    \/ \E r \in Roots, l \in Limits : Accept(r, l)
    \/ \E r \in Results :
          \/ Start(r) \/ GiveUp(r) \/ Overturn(r) \/ Withdraw(r)
          \/ \E outcome \in {"SUCCESSFUL", "FAILED"} : Report(r, outcome)
          \/ \E n \in Results \ Roots, why \in Causes : Repeat(r, n, why)

LedgerSpec == LedgerInit /\ [][LedgerNext]_ledgerVars
=============================================================================

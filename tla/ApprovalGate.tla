---------------------------- MODULE ApprovalGate ----------------------------
(***************************************************************************)
(* What apps/approvals promises to the code that files a request: a        *)
(* request is settled at most once, its outcome never changes, and the     *)
(* effect registered for its kind (on_decision) runs at most once, for     *)
(* the outcome that stands.  Who decides, how calls race and where a       *)
(* process may die are the business of the detailed module Approvals.      *)
(***************************************************************************)
EXTENDS Sequences

CONSTANT Requests

VARIABLES outcome,   \* per request: "none", "pending" or how it was settled
          effects    \* per request: the outcomes on_decision was run with

gateVars == <<outcome, effects>>

\* ApprovalRequest.Status without PENDING: the terminal states.
Outcomes == {"approved", "rejected", "canceled", "expired"}

GateInit ==
    /\ outcome = [r \in Requests |-> "none"]
    /\ effects = [r \in Requests |-> <<>>]

File(r) ==
    /\ outcome[r] = "none"
    /\ outcome' = [outcome EXCEPT ![r] = "pending"]
    /\ UNCHANGED effects

Settle(r, o) ==
    /\ outcome[r] = "pending"
    /\ outcome' = [outcome EXCEPT ![r] = o]
    /\ UNCHANGED effects

Effect(r) ==
    /\ outcome[r] \in Outcomes
    /\ effects[r] = <<>>
    /\ effects' = [effects EXCEPT ![r] = <<outcome[r]>>]
    /\ UNCHANGED outcome

GateNext ==
    \E r \in Requests : File(r) \/ Effect(r) \/ \E o \in Outcomes : Settle(r, o)

GateSpec == GateInit /\ [][GateNext]_gateVars
=============================================================================

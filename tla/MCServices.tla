----------------------------- MODULE MCServices -----------------------------
(***************************************************************************)
(* An instance of two services that react to people and time, side by      *)
(* side: approvals and the log capture.  They share no state, so a         *)
(* behaviour is one of a single service: `part' says which, and the other  *)
(* stays as it was at the start.                                           *)
(***************************************************************************)
EXTENDS Approvals, LogCapture

VARIABLE part

serviceVars == <<part, approvalVars, logVars>>

CONSTANTS bob

\* The request names its assignees or leaves them to the routing.
MCRoutings == {{}, {bob}}

MCParentOf == [apps |-> "root", django |-> "root", db |-> "django", root |-> "root"]
MCConfigured == [apps |-> 20, django |-> 0, db |-> 0, root |-> 30]
MCPinned == [db |-> 30]

ServicesInit ==
    /\ part \in {"approvals", "logs"}
    /\ ApprovalsInit /\ LogCaptureInit
    /\ part # "logs" => migrated

ServicesNext ==
    \/ /\ part = "approvals" /\ ApprovalsNext
       /\ UNCHANGED <<part, logVars>>
    \/ /\ part = "logs" /\ LogCaptureNext
       /\ UNCHANGED <<part, approvalVars>>

\* The fairness of each service, for the behaviours that are its own.
ServicesFairness ==
    /\ \A c \in Callers : WF_approvalVars(part = "approvals" /\ CallStep(c))
    /\ WF_approvalVars(part = "approvals" /\ Sweep)
    /\ WF_logVars(part = "logs" /\ WriterStep)
    /\ SF_logVars(part = "logs" /\ PollCapture)
    /\ WF_logVars(part = "logs" /\ CloserStep)
    /\ WF_logVars(part = "logs" /\ AppsReady)
    /\ WF_logVars(part = "logs" /\ \E w \in open : WindowExpires(w))

ServicesSpec == ServicesInit /\ [][ServicesNext]_serviceVars /\ ServicesFairness
=============================================================================

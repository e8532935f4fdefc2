----------------------------- MODULE MCRecords ------------------------------
(***************************************************************************)
(* An instance of the four parts that keep records, side by side:          *)
(* heartbeats, runbook documents, the operator's log and OAuth grants.     *)
(* They share no state, so a behaviour is one of a single part: `part'     *)
(* says which, and the others stay as they were at the start.              *)
(***************************************************************************)
EXTENDS Heartbeat, Runbook, Logbook, Grants

VARIABLE part

recordVars == <<part, beatVars, runbookVars, logbookVars, grantVars>>

\* A window that crosses midnight.
MCWindows == {[from |-> 1, to |-> 3, excluded |-> TRUE]}

RecordsInit ==
    /\ part \in {"heartbeat", "runbook", "logbook", "grants"}
    /\ HeartbeatInit /\ RunbookInit /\ LogbookInit /\ GrantsInit

RecordsNext ==
    \/ /\ part = "heartbeat" /\ HeartbeatNext
       /\ UNCHANGED <<part, runbookVars, logbookVars, grantVars>>
    \/ /\ part = "runbook" /\ RunbookNext
       /\ UNCHANGED <<part, beatVars, logbookVars, grantVars>>
    \/ /\ part = "logbook" /\ LogbookNext
       /\ UNCHANGED <<part, beatVars, runbookVars, grantVars>>
    \/ /\ part = "grants" /\ GrantsNext
       /\ UNCHANGED <<part, beatVars, runbookVars, logbookVars>>

RecordsSpec == RecordsInit /\ [][RecordsNext]_recordVars
=============================================================================

------------------------------ MODULE MCInputs ------------------------------
(***************************************************************************)
(* An instance of three parts side by side: the schedule preview, the sync *)
(* of code-declared schedules and inbound webhooks.  They share no state,  *)
(* so a behaviour is one of a single part: `part' says which, and the      *)
(* others stay as they were at the start.                                  *)
(***************************************************************************)
EXTENDS SchedulePreview, SchedulerSync, WebhookInbound, TLC

VARIABLE part

inputVars == <<part, previewVars, syncVars, vars>>

\* Days that every month has, and the ends of months of every length.
MCDates == {100 * m + d : m \in 0..3, d \in {1, 15, 28}} \cup {29, 30, 31, 231, 330}
MCMonthDays == <<31, 28, 31, 30, 31, 30, 31, 31, 30, 31, 30, 31>>

MCCadences ==
    [type : {"interval"}, every : 0..3, anchor_at : {None, 0, 2, 5},
     run_at : {None}]
    \cup [type : {"cron"}, every : 0..4, anchor_at : {None}, run_at : {None}]
    \cup [type : {"once"}, every : {0}, anchor_at : {None}, run_at : {None, 3}]
    \cup [type : {"calendar"}, every : {1, 2, 12}, anchor_at : MCDates \cup {None},
          run_at : {None}]
MCStarts == 0..7

\* The sites are alike, and so are the threads of a site, the servers and the
\* names of jobs.
Symmetric == UNION {Permutations(S) : S \in {Sites, Threads, Servers, Jobs}}

Idle == [type |-> "once", every |-> 0, anchor_at |-> None, run_at |-> 3]

InputsInit ==
    /\ part \in {"preview", "sync", "inbound"}
    /\ PreviewInit
    /\ part # "preview" => cad = Idle /\ start = 0
    /\ SyncInit
    /\ part # "sync" => release = [j \in Jobs |-> CHOOSE c \in CodeCadences : TRUE]
    /\ Init
    /\ part # "inbound" => handled = {}

InputsNext ==
    \/ part = "preview" /\ PreviewNext /\ UNCHANGED <<part, syncVars, vars>>
    \/ part = "sync" /\ SyncNext /\ UNCHANGED <<part, previewVars, vars>>
    \/ part = "inbound" /\ Next /\ UNCHANGED <<part, previewVars, syncVars>>

InputsSpec == InputsInit /\ [][InputsNext]_inputVars
=============================================================================

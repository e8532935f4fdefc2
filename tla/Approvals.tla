----------------------------- MODULE Approvals -----------------------------
(***************************************************************************)
(* The approval requests of apps/approvals, as the database and the        *)
(* processes that serve calls see them.  Requests run in autocommit (no    *)
(* ATOMIC_REQUESTS), so every statement of a service function is visible   *)
(* to the others at once: a call is a sequence of steps that interleave    *)
(* with the steps of every other call, and a process can die between any   *)
(* two of them.  Titles, notes, payloads and e-mail are left out.          *)
(***************************************************************************)
EXTENDS Naturals, Sequences, FiniteSets

CONSTANTS
    Requests,       \* the primary keys that may be handed out
    Users,
    Staff,          \* is_staff
    NoUser,         \* decided_by / requested_by NULL
    Callers,        \* processes that can each serve one call at a time
    Sweeper,        \* the worker that runs sweep_expired_approvals
    PendingCap,     \* SMALLSTACK_APPROVALS_MAX_PENDING_PER_REQUESTER, 0 = none
    LazyLimit,      \* SMALLSTACK_APPROVALS_LAZY_EXPIRE_LIMIT
    StaffOverride,  \* SMALLSTACK_APPROVALS_STAFF_OVERRIDE
    SelfApprove,    \* SMALLSTACK_APPROVALS_ALLOW_SELF_APPROVE
    Routings,       \* bound: the sets of assignees a request may name
    Leavers,        \* bound: the users who may be deactivated
    MaxCrashes      \* bound: how many calls may die half way

ASSUME ApprovalsAssumption ==
    /\ Requests # {} /\ Staff \subseteq Users
    /\ NoUser \notin Users
    /\ Routings \subseteq SUBSET Users /\ Leavers \subseteq Users
    /\ Sweeper \in Callers
    /\ PendingCap \in Nat /\ LazyLimit \in Nat /\ MaxCrashes \in Nat
    /\ StaffOverride \in BOOLEAN /\ SelfApprove \in BOOLEAN

VARIABLES
    requests,    \* the ApprovalRequest rows
    overdue,     \* requests whose expires_at has passed
    active,      \* users with is_active
    calls,       \* the service call each process is in
    bells,       \* unread "Approval needed" notifications: <<request, user>>
    effects,     \* history: the outcomes on_decision was run with
    dropped,     \* history: settled by a process that died before on_decision
    deaths       \* how many calls have died

approvalVars == <<requests, overdue, active, calls, bells, effects, dropped, deaths>>

Outcomes == {"approved", "rejected", "canceled", "expired"}

Statuses == Outcomes \cup {"none", "pending"}

\* What a call is doing: the statement it will execute next.
Phases == {"idle", "save", "assign", "ring", "judge", "claim", "sweep",
           "callback", "announce"}

Row == [status : Statuses, requestedBy : Users \cup {NoUser},
        assignees : SUBSET Users, decidedBy : Users \cup {NoUser},
        callbackError : BOOLEAN]

NoRow == [status |-> "none", requestedBy |-> NoUser, assignees |-> {},
          decidedBy |-> NoUser, callbackError |-> FALSE]

\* req and seen are the instance the call holds: which row, and the status it
\* had when it was loaded; verdict is the status the call wants to write.
Call == [pc : Phases, req : Requests, user : Users \cup {NoUser}, seen : Statuses,
         verdict : Statuses, named : SUBSET Users, todo : SUBSET Requests]

\* An idle process remembers nothing; the request it points at is arbitrary.
Idle == [pc |-> "idle", req |-> CHOOSE r \in Requests : TRUE, user |-> NoUser,
         seen |-> "none", verdict |-> "none", named |-> {}, todo |-> {}]

ApprovalsTypeOK ==
    /\ requests \in [Requests -> Row]
    /\ overdue \subseteq Requests
    /\ active \subseteq Users
    /\ calls \in [Callers -> Call]
    /\ bells \subseteq Requests \X Users
    /\ effects \in [Requests -> Seq(Outcomes)]
    /\ dropped \subseteq Requests
    /\ deaths \in Nat

ApprovalsInit ==
    /\ requests = [r \in Requests |-> NoRow]
    /\ overdue = {}
    /\ active = Users
    /\ calls = [c \in Callers |-> Idle]
    /\ bells = {}
    /\ effects = [r \in Requests |-> <<>>]
    /\ dropped = {}
    /\ deaths = 0

-----------------------------------------------------------------------------
(* The querysets and permissions every surface shares.                     *)

Status(r) == requests[r].status

\* ApprovalRequestQuerySet.actionable: pending minus overdue.
Actionable == {r \in Requests : Status(r) = "pending" /\ r \notin overdue}

\* Mutant: the comparison with now is the wrong way round.
NotYetOverdue == {r \in Requests : Status(r) = "pending" /\ r \notin overdue}

\* ApprovalRequestQuerySet.overdue: pending rows past their expiry.
Overdue == {r \in Requests : Status(r) = "pending" /\ r \in overdue}

IsStaff(u) == u \in Staff /\ u \in active

\* permissions.can_decide, but for the kind's hook.  The user was loaded
\* active; the instance's status is the loaded one; assignees are queried.
CanDecide(u, r, seen) ==
    /\ seen = "pending"
    /\ requests[r].requestedBy # u \/ SelfApprove
    /\ IF requests[r].assignees # {}
       THEN u \in requests[r].assignees \/ (u \in Staff /\ StaffOverride)
       ELSE u \in Staff

CanCancel(u, r, seen) ==
    seen = "pending" /\ (requests[r].requestedBy = u \/ u \in Staff)

\* emails.approver_users: active assignees, or all active staff when none is
\* left; never the requester.
ApproverUsers(r) ==
    LET named == requests[r].assignees \cap active
    IN (IF named # {} THEN named ELSE {u \in Users : IsStaff(u)})
           \ {requests[r].requestedBy}

\* _check_pending_cap
UnderCap(u) ==
    \/ PendingCap = 0
    \/ Cardinality({r \in Actionable : requests[r].requestedBy = u}) < PendingCap

-----------------------------------------------------------------------------
(* request_approval: cap check, save(), assignees.set(), notifications.    *)

RequestApproval(c, u, r, named) ==
    /\ calls[c].pc = "idle"
    /\ u \in active
    /\ Status(r) = "none"
    /\ \A d \in Callers : calls[d].pc = "save" => calls[d].req # r
    /\ UnderCap(u)
    /\ calls' = [calls EXCEPT ![c] =
           [Idle EXCEPT !.pc = "save", !.req = r, !.user = u, !.named = named]]
    /\ UNCHANGED <<requests, overdue, active, bells, effects, dropped, deaths>>

SaveRequest(c) ==
    LET call == calls[c] IN
    /\ call.pc = "save"
    /\ requests' = [requests EXCEPT ![call.req] =
           [NoRow EXCEPT !.status = "pending", !.requestedBy = call.user]]
    /\ calls' = [calls EXCEPT ![c].pc = IF call.named # {} THEN "assign" ELSE "ring"]
    /\ UNCHANGED <<overdue, active, bells, effects, dropped, deaths>>

SetAssignees(c) ==
    LET call == calls[c] IN
    /\ call.pc = "assign"
    /\ requests' = [requests EXCEPT ![call.req].assignees = call.named]
    /\ calls' = [calls EXCEPT ![c].pc = "ring"]
    /\ UNCHANGED <<overdue, active, bells, effects, dropped, deaths>>

\* The approval_requested receiver: one unread row per approver but the actor.
NotifyOnRequest(c) ==
    LET call == calls[c] IN
    /\ call.pc = "ring"
    /\ bells' = bells \cup ({call.req} \X (ApproverUsers(call.req) \ {call.user}))
    /\ calls' = [calls EXCEPT ![c] = Idle]
    /\ UNCHANGED <<requests, overdue, active, effects, dropped, deaths>>

-----------------------------------------------------------------------------
(* decide and cancel: the view loads the row, the service judges the       *)
(* loaded instance, _claim settles the race, _finish tells the world.      *)

\* decide_request / cancel_request / api_decide_request load the row.
LoadRequest(c, u, r, verdict) ==
    /\ calls[c].pc = "idle"
    /\ u \in active
    /\ Status(r) # "none"
    /\ calls' = [calls EXCEPT ![c] =
           [Idle EXCEPT !.pc = "judge", !.req = r, !.user = u,
                        !.seen = Status(r), !.verdict = verdict]]
    /\ UNCHANGED <<requests, overdue, active, bells, effects, dropped, deaths>>

\* decide, first branch: an overdue instance is expired instead, by nobody.
ExpireInstead(c) ==
    LET call == calls[c] IN
    /\ call.pc = "judge"
    /\ call.verdict \in {"approved", "rejected"}
    /\ call.seen = "pending" /\ call.req \in overdue
    /\ calls' = [calls EXCEPT ![c].pc = "claim", ![c].verdict = "expired",
                              ![c].user = NoUser]
    /\ UNCHANGED <<requests, overdue, active, bells, effects, dropped, deaths>>

\* Eligible: go on to the conditional update.
Permit(c) ==
    LET call == calls[c] IN
    /\ call.pc = "judge"
    /\ \/ /\ call.verdict \in {"approved", "rejected"}
          /\ call.req \notin overdue
          /\ CanDecide(call.user, call.req, call.seen)
       \/ /\ call.verdict = "canceled"
          /\ CanCancel(call.user, call.req, call.seen)
    /\ calls' = [calls EXCEPT ![c].pc = "claim"]
    /\ UNCHANGED <<requests, overdue, active, bells, effects, dropped, deaths>>

\* NotPending or NotEligible: the instance was settled, the rules refuse, or
\* the kind's can_decide hook narrows them (for a decision, never a cancel).
Refuse(c) ==
    LET call == calls[c] IN
    /\ call.pc = "judge"
    /\ \/ call.verdict \in {"approved", "rejected"}
          /\ ~(call.seen = "pending" /\ call.req \in overdue)
       \/ call.verdict = "canceled" /\ ~CanCancel(call.user, call.req, call.seen)
    /\ calls' = [calls EXCEPT ![c] = Idle]
    /\ UNCHANGED <<requests, overdue, active, bells, effects, dropped, deaths>>

\* Mutant: the update forgets the status condition.
WhileFiled(r) == Status(r) # "none"

\* The UPDATE ... WHERE status = 'pending' of _claim and of mark_expired.
WhilePending(r) == Status(r) = "pending"

\* _claim: one caller wins, the others end with NotPending.
Claim(c) ==
    LET call == calls[c] IN
    /\ call.pc = "claim"
    /\ IF WhilePending(call.req)
       THEN /\ requests' = [requests EXCEPT ![call.req].status = call.verdict,
                                            ![call.req].decidedBy = call.user]
            /\ calls' = [calls EXCEPT ![c].pc = "callback", ![c].seen = call.verdict]
       ELSE /\ calls' = [calls EXCEPT ![c] = Idle]
            /\ UNCHANGED requests
    /\ UNCHANGED <<overdue, active, bells, effects, dropped, deaths>>

\* After one row is finished a sweep goes on with the ids it listed.
Return(call) == IF call.todo # {} THEN [call EXCEPT !.pc = "sweep"] ELSE Idle

\* _run_callback: on_decision sees the refreshed instance; if it raises, the
\* traceback is stored and the decision stands.
RunCallback(c) ==
    LET call == calls[c] IN
    /\ call.pc = "callback"
    /\ effects' = [effects EXCEPT ![call.req] = Append(@, call.seen)]
    /\ \E raised \in BOOLEAN :
           requests' = [requests EXCEPT ![call.req].callbackError = raised]
    /\ calls' = [calls EXCEPT ![c].pc = "announce"]
    /\ UNCHANGED <<overdue, active, bells, dropped, deaths>>

\* The rest of _finish: re-save the claimed fields, and the approval_decided
\* receiver resolves the request's "Approval needed" rows.
Announce(c) ==
    LET call == calls[c] IN
    /\ call.pc = "announce"
    /\ requests' = [requests EXCEPT ![call.req].status = call.seen]
    /\ bells' = {b \in bells : b[1] # call.req}
    /\ calls' = [calls EXCEPT ![c] = Return(call)]
    /\ UNCHANGED <<overdue, active, effects, dropped, deaths>>

-----------------------------------------------------------------------------
(* mark_expired: list the overdue ids, then a conditional update per row.  *)

\* The scheduled sweep takes all of them, a queue page at most LazyLimit.
MarkExpired(c, todo) ==
    /\ calls[c].pc = "idle"
    /\ todo # {}
    /\ IF c = Sweeper THEN todo = Overdue
       ELSE todo \subseteq Overdue /\ Cardinality(todo) <= LazyLimit
    /\ calls' = [calls EXCEPT ![c] = [Idle EXCEPT !.pc = "sweep", !.todo = todo]]
    /\ UNCHANGED <<requests, overdue, active, bells, effects, dropped, deaths>>

\* Mutant: an expired row is announced without its callback.
SweepRowSilently(c) ==
    LET call == calls[c] IN
    /\ call.pc = "sweep"
    /\ \E r \in call.todo :
        LET rest == [call EXCEPT !.req = r, !.todo = @ \ {r}] IN
        IF WhilePending(r)
        THEN /\ requests' = [requests EXCEPT ![r].status = "expired"]
             /\ calls' = [calls EXCEPT ![c] =
                    [rest EXCEPT !.pc = "announce", !.seen = "expired"]]
        ELSE /\ calls' = [calls EXCEPT ![c] = Return(rest)]
             /\ UNCHANGED requests
    /\ UNCHANGED <<overdue, active, bells, effects, dropped, deaths>>

SweepRow(c) ==
    LET call == calls[c] IN
    /\ call.pc = "sweep"
    /\ \E r \in call.todo :
        LET rest == [call EXCEPT !.req = r, !.todo = @ \ {r}] IN
        IF WhilePending(r)
        THEN /\ requests' = [requests EXCEPT ![r].status = "expired"]
             /\ calls' = [calls EXCEPT ![c] =
                    [rest EXCEPT !.pc = "callback", !.seen = "expired"]]
        ELSE /\ calls' = [calls EXCEPT ![c] = Return(rest)]
             /\ UNCHANGED requests
    /\ UNCHANGED <<overdue, active, bells, effects, dropped, deaths>>

-----------------------------------------------------------------------------
(* What happens around the calls.                                          *)

\* A process dies, or a statement raises, in the middle of a call.
Die(c) ==
    /\ calls[c].pc # "idle"
    /\ deaths < MaxCrashes
    /\ deaths' = deaths + 1
    /\ dropped' = IF calls[c].pc = "callback" THEN dropped \cup {calls[c].req}
                  ELSE dropped
    /\ calls' = [calls EXCEPT ![c] = Idle]
    /\ UNCHANGED <<requests, overdue, active, bells, effects>>

\* The clock passes a request's expires_at.
ClockPasses(r) ==
    /\ Status(r) = "pending" /\ r \notin overdue
    /\ overdue' = overdue \cup {r}
    /\ UNCHANGED <<requests, active, calls, bells, effects, dropped, deaths>>

Deactivate(u) ==
    /\ u \in active
    /\ active' = active \ {u}
    /\ UNCHANGED <<requests, overdue, calls, bells, effects, dropped, deaths>>

\* notifications.mark_read: the recipient clears the bell.
MarkRead(u) ==
    /\ \E r \in Requests : <<r, u>> \in bells
    /\ bells' = {b \in bells : b[2] # u}
    /\ UNCHANGED <<requests, overdue, active, calls, effects, dropped, deaths>>

\* The steps a running call makes by itself.
CallStep(c) ==
    \/ SaveRequest(c) \/ SetAssignees(c) \/ NotifyOnRequest(c)
    \/ ExpireInstead(c) \/ Permit(c) \/ Refuse(c)
    \/ Claim(c) \/ RunCallback(c) \/ Announce(c) \/ SweepRow(c)

Sweep == MarkExpired(Sweeper, Overdue)

ApprovalsNext ==
    \/ \E c \in Callers : CallStep(c) \/ Die(c)
    \/ \E c \in Callers \ {Sweeper}, u \in Users, r \in Requests :
           \/ \E named \in Routings : RequestApproval(c, u, r, named)
           \/ \E v \in {"approved", "rejected", "canceled"} : LoadRequest(c, u, r, v)
    \/ \E c \in Callers \ {Sweeper}, todo \in SUBSET Requests : MarkExpired(c, todo)
    \/ Sweep
    \/ \E r \in Requests : ClockPasses(r)
    \/ \E u \in Leavers : Deactivate(u)
    \/ \E u \in Users : MarkRead(u)

ApprovalsSpec == ApprovalsInit /\ [][ApprovalsNext]_approvalVars

\* A call that has started runs on unless its process dies; the scheduler
\* runs the sweep every five minutes.
ApprovalsFairness ==
    /\ \A c \in Callers : WF_approvalVars(CallStep(c))
    /\ WF_approvalVars(Sweep)

ApprovalsFairSpec == ApprovalsSpec /\ ApprovalsFairness

-----------------------------------------------------------------------------
(* Properties.                                                             *)

\* The rows and callbacks, whatever calls race and whatever dies half way,
\* behave as ApprovalGate says: settled once (_claim's conditional UPDATE),
\* on_decision run at most once and with the outcome that stands (_finish).
Gate == INSTANCE ApprovalGate
            WITH outcome <- [r \in Requests |-> requests[r].status]

GateRefined == Gate!GateSpec

\* A settled request whose on_decision never ran was settled by a process
\* that died between _claim and _run_callback, or that is about to run it:
\* losing a race, expiring and sweeping never lose the effect.
EffectLostOnlyByCrash ==
    \A r \in Requests :
        Status(r) \in Outcomes /\ effects[r] = <<>> =>
            \/ r \in dropped
            \/ \E c \in Callers : calls[c].pc = "callback" /\ calls[c].req = r

\* A pending request whose expiry has passed does not stay pending: the sweep
\* (or a decision, a queue page, a withdrawal before it) settles it.
OverdueIsSettled ==
    \A r \in Requests :
        (Status(r) = "pending" /\ r \in overdue) ~> (Status(r) \in Outcomes)
=============================================================================

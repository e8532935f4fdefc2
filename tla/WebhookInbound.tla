--------------------------- MODULE WebhookInbound ---------------------------
(***************************************************************************)
(* Inbound webhooks and the loop guard of apps/webhooks, on two paired     *)
(* sites: what a site writes is posted to its peer, whose receiver records *)
(* it and hands it to a handler that may write back.                       *)
(*                                                                         *)
(* A process is a web thread or a task worker of one site; each has its    *)
(* own suppression depth (threading.local).  An event carries the site     *)
(* that sent it (X-SmallStack-Origin) and, for the properties only, the    *)
(* site whose own write caused it.  The way between the sites is           *)
(* Webhooks.tla's; here an event arrives once, or again when its answer    *)
(* was lost.  A paired receiver requires signatures.                       *)
(***************************************************************************)
EXTENDS Integers, Sequences, FiniteSets

CONSTANTS
    Sites,       \* the two installations
    Threads,     \* web threads of each
    Workers,     \* task workers of each
    Cascades,    \* are the handlers registered with cascade=True?
    Limit,       \* SMALLSTACK_WEBHOOK_REJECTED_PER_MINUTE
    MaxWrites,   \* bound: writes of users and ordinary tasks
    MaxEvents,   \* bound: events fired
    MaxForged,   \* bound: POSTs with a bad signature
    MaxFaults    \* bound: crashes, lost answers, refused enqueues

ASSUME InboundAssumption ==
    /\ Cardinality(Sites) = 2 /\ Threads \cap Workers = {}
    /\ Cascades \in BOOLEAN
    /\ Limit \in Nat /\ MaxWrites \in Nat /\ MaxEvents \in Nat
    /\ MaxForged \in Nat /\ MaxFaults \in Nat

Procs == Sites \X (Threads \cup Workers)
WebThreads == Sites \X Threads
TaskWorkers == Sites \X Workers
Peer(s) == CHOOSE x \in Sites : x # s

VARIABLES
    net,       \* POSTs on their way
    fired,     \* events fan_out has sent so far
    receipts,  \* WebhookReceipt rows, the rejected ones only counted
    rejected,  \* rejected receipts of each site in the last minute
    tasks,     \* receipts queued for dispatch_incoming
    handled,   \* sites whose code registers a handler
    pc, post, rid,  \* per process: its place, the POST and the receipt it holds
    depth,     \* per process: nesting of suppress_webhooks
    writes,    \* writes by users and ordinary tasks
    forged, faults

local == <<post, rid>>
bounds == <<forged, faults>>
vars == <<net, fired, receipts, rejected, tasks, handled, pc, local, depth, writes, bounds>>

Posts == [id : Nat, to : Sites, origin : Sites, root : Sites]
Receipt == [site : Sites, root : Sites, status : {"accepted", "ignored", "processed", "failed"}]

TypeOK ==
    /\ net \subseteq Posts
    /\ fired \in 0 .. MaxEvents
    /\ receipts \in Seq(Receipt)
    /\ rejected \in [Sites -> Nat]
    /\ tasks \subseteq {i \in 1 .. Len(receipts) : receipts[i].status = "accepted"}
    /\ handled \subseteq Sites
    /\ pc \in [Procs -> {"idle", "count", "reject", "receive", "queue", "handle", "leave",
                         "processed", "failed"}]
    /\ post \in [Procs -> Posts]
    /\ rid \in [Procs -> Nat]
    /\ depth \in [Procs -> Nat]
    /\ writes \in Nat /\ forged \in Nat /\ faults \in Nat

NoPost(p) == [id |-> 0, to |-> p[1], origin |-> p[1], root |-> p[1]]

Init ==
    /\ net = {} /\ fired = 0
    /\ receipts = <<>> /\ rejected = [s \in Sites |-> 0] /\ tasks = {}
    /\ handled \in SUBSET Sites
    /\ pc = [p \in Procs |-> "idle"]
    /\ post = [p \in Procs |-> NoPost(p)]
    /\ rid = [p \in Procs |-> 0]
    /\ depth = [p \in Procs |-> 0]
    /\ writes = 0 /\ forged = 0 /\ faults = 0

Goto(p, label) == pc' = [pc EXCEPT ![p] = label]

\* A request or a task ends, and its local variables with it.
End(p) ==
    /\ Goto(p, "idle")
    /\ post' = [post EXCEPT ![p] = NoPost(p)]
    /\ rid' = [rid EXCEPT ![p] = 0]

-----------------------------------------------------------------------------
(* Writing                                                                 *)

SuppressedAnywhere(p) == \E q \in Procs : q[1] = p[1] /\ depth[q] > 0

\* suppressed(): is this thread inside suppress_webhooks?
Suppressed(p) == depth[p] > 0

\* _fire: an event for the peer, stamped with this site's origin by deliver_webhook.
\* One whose fan_out fails is given up: an event that is never delivered.
Fire(p, cause) ==
    IF Suppressed(p)
      THEN UNCHANGED <<net, fired>>
      ELSE /\ fired < MaxEvents
           /\ fired' = fired + 1
           /\ net' = net \cup {[id |-> fired + 1, to |-> Peer(p[1]), origin |-> p[1],
                                root |-> cause]}

\* A user's request, or a task other than the dispatch, saves a model.
OwnWrite(p) ==
    /\ pc[p] = "idle" /\ writes < MaxWrites
    /\ writes' = writes + 1
    /\ Fire(p, p[1])
    /\ UNCHANGED <<receipts, rejected, tasks, handled, pc, local, depth, bounds>>

-----------------------------------------------------------------------------
(* incoming_webhook                                                        *)

\* Unknown or disabled receiver, challenge, or too large: an answer, no receipt.
NoReceipt(p) == \E m \in net :
    /\ pc[p] = "idle" /\ m.to = p[1]
    /\ net' = net \ {m}
    /\ UNCHANGED <<fired, receipts, rejected, tasks, handled, pc, local, depth, writes, bounds>>

\* A POST of somebody without the secret: its signature is refused.
Forge(p) ==
    /\ pc[p] = "idle" /\ forged < MaxForged
    /\ forged' = forged + 1
    /\ Goto(p, "count")
    /\ UNCHANGED <<net, fired, receipts, rejected, tasks, handled, local, depth, writes, faults>>

\* The peer's POST reaches its receiver and its signature is verified.
Arrive(p) == \E m \in net :
    /\ pc[p] = "idle" /\ m.to = p[1]
    /\ net' = net \ {m}
    /\ post' = [post EXCEPT ![p] = m]
    /\ Goto(p, "receive")
    /\ UNCHANGED <<fired, receipts, rejected, tasks, handled, rid, depth, writes, bounds>>

\* May one more rejection be recorded this minute?
Room(s) == rejected[s] < Limit

\* The recent rejections are counted ...
CountRejected(p) ==
    /\ pc[p] = "count"
    /\ Goto(p, IF Room(p[1]) THEN "reject" ELSE "idle")
    /\ UNCHANGED <<net, fired, receipts, rejected, tasks, handled, local, depth, writes, bounds>>

\* ... and another one is recorded.
Reject(p) ==
    /\ pc[p] = "reject"
    /\ rejected' = [rejected EXCEPT ![p[1]] = @ + 1]
    /\ Goto(p, "idle")
    /\ UNCHANGED <<net, fired, receipts, tasks, handled, local, depth, writes, bounds>>

\* A minute goes by without a rejection in progress.
MinutePasses(s) ==
    /\ rejected[s] > 0 /\ \A p \in Procs : p[1] = s => pc[p] \notin {"count", "reject"}
    /\ rejected' = [rejected EXCEPT ![s] = 0]
    /\ UNCHANGED <<net, fired, receipts, tasks, handled, pc, local, depth, writes, bounds>>

\* The loop guard: is this the origin that the receiver ignores, its own?
SelfOriginated(s, m) == m.origin = s

\* The receipt is created, IGNORED or ACCEPTED.
CreateReceipt(p) ==
    LET m == post[p]
        own == SelfOriginated(p[1], m)
    IN  /\ pc[p] = "receive"
        /\ receipts' = Append(receipts, [site |-> p[1], root |-> m.root,
                                         status |-> IF own THEN "ignored" ELSE "accepted"])
        /\ IF own THEN End(p)
                  ELSE /\ Goto(p, "queue")
                       /\ rid' = [rid EXCEPT ![p] = Len(receipts) + 1]
                       /\ UNCHANGED post
        /\ UNCHANGED <<net, fired, rejected, tasks, handled, depth, writes, bounds>>

\* dispatch_incoming is queued and the sender gets its 202.
QueueDispatch(p) ==
    /\ pc[p] = "queue"
    /\ tasks' = tasks \cup {rid[p]}
    /\ End(p)
    /\ UNCHANGED <<net, fired, receipts, rejected, handled, depth, writes, bounds>>

\* The enqueue fails: swallowed, the sender gets its 202 all the same.
QueueFails(p) ==
    /\ pc[p] = "queue" /\ faults < MaxFaults
    /\ faults' = faults + 1
    /\ End(p)
    /\ UNCHANGED <<net, fired, receipts, rejected, tasks, handled, depth, writes, forged>>

\* The answer is lost, and the sender's retry tick posts the event again.
AnswerLost(p) ==
    /\ pc[p] = "queue" /\ faults < MaxFaults
    /\ faults' = faults + 1
    /\ net' = net \cup {post[p]}
    /\ UNCHANGED <<fired, receipts, rejected, tasks, handled, pc, local, depth, writes, forged>>

-----------------------------------------------------------------------------
(* dispatch_incoming                                                       *)

\* suppress_webhooks() around the handler, nullcontext() if it cascades.
Guarded(w) == IF Cascades THEN depth[w] ELSE depth[w] + 1

\* Where a dispatch without a registered handler goes on.
NoHandler == "failed"

\* A worker takes a dispatch; with a handler, its guard is entered.
Dispatch(w) == \E i \in tasks :
    /\ pc[w] = "idle" /\ receipts[i].site = w[1]
    /\ tasks' = tasks \ {i}
    /\ rid' = [rid EXCEPT ![w] = i]
    /\ IF w[1] \in handled
         THEN Goto(w, "handle") /\ depth' = [depth EXCEPT ![w] = Guarded(w)]
         ELSE Goto(w, NoHandler) /\ UNCHANGED depth
    /\ UNCHANGED <<net, fired, receipts, rejected, handled, post, writes, bounds>>

\* The handler writes back into a model with webhooks ...
HandlerWrites(w) ==
    /\ pc[w] = "handle"
    /\ Fire(w, receipts[rid[w]].root)
    /\ Goto(w, "leave")
    /\ UNCHANGED <<receipts, rejected, tasks, handled, local, depth, writes, bounds>>

\* ... or does not; either way it may raise.  The guard is left in a finally.
LeaveHandler(w) == \E end \in {"processed", "failed"} :
    /\ pc[w] \in {"handle", "leave"}
    /\ depth' = [depth EXCEPT ![w] = IF Cascades \/ @ = 0 THEN @ ELSE @ - 1]
    /\ Goto(w, end)
    /\ UNCHANGED <<net, fired, receipts, rejected, tasks, handled, local, writes, bounds>>

\* The receipt's outcome is saved.
SaveReceipt(w) ==
    /\ pc[w] \in {"processed", "failed"}
    /\ receipts' = [receipts EXCEPT ![rid[w]].status = pc[w]]
    /\ End(w)
    /\ UNCHANGED <<net, fired, rejected, tasks, handled, depth, writes, bounds>>

\* A worker dies; its successor starts with a depth of 0.
Crash(w) ==
    /\ pc[w] # "idle" /\ faults < MaxFaults
    /\ faults' = faults + 1
    /\ depth' = [depth EXCEPT ![w] = 0]
    /\ End(w)
    /\ UNCHANGED <<net, fired, receipts, rejected, tasks, handled, writes, forged>>

-----------------------------------------------------------------------------
Serve(p) == CountRejected(p) \/ Reject(p) \/ CreateReceipt(p) \/ QueueDispatch(p)
Work(w) == Dispatch(w) \/ HandlerWrites(w) \/ LeaveHandler(w) \/ SaveReceipt(w)

Next ==
    \/ \E p \in Procs : OwnWrite(p)
    \/ \E s \in Sites : MinutePasses(s)
    \/ \E p \in WebThreads :
         Forge(p) \/ NoReceipt(p) \/ Arrive(p) \/ Serve(p) \/ QueueFails(p) \/ AnswerLost(p)
    \/ \E w \in TaskWorkers : Work(w) \/ Crash(w)

Spec == Init /\ [][Next]_vars

-----------------------------------------------------------------------------
\* Safety, for handlers that do not cascade: every write by a user or an
\* ordinary task sends its event, whichever handler is running or has raised
\* on another thread or earlier on this one, and no handler's write sends
\* any, so the link falls silent when the users do.
EventsAreOwnWrites == ~Cascades => fired = writes

\* Safety, as the docs have it: "set it to your own origin and a
\* self-originated event echoed back by a peer is dropped".
EchoIsDropped ==
    \A i \in DOMAIN receipts :
      receipts[i].root = receipts[i].site => receipts[i].status = "ignored"
=============================================================================

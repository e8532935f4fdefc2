--------------------------- MODULE WebhooksProofs ---------------------------
(***************************************************************************)
(* Proofs about outbound deliveries, for any number of deliveries,         *)
(* workers, ticks and requests, with crashes and refused enqueues.         *)
(*                                                                         *)
(* A delivery moves in a circle: queued, taken, sent, recorded as          *)
(* RETRYING, claimed, queued.  OneSendAtATime is inductive once it is      *)
(* known that a cursor is set exactly while the row is RETRYING            *)
(* (CursorOK): a claim that matches then finds nobody on the way.          *)
(* BackoffRespected needs that cursors never repeat, so they are bounded   *)
(* by the attempt counter (ListedOK), and AttemptsBounded that the POSTs   *)
(* never run ahead of the attempts except between Send and RecordAttempt   *)
(* (BudgetOK).  FailingIsDisabled stands on its own types: only a form     *)
(* that was opened enables the endpoint again (FormOpened).                *)
(***************************************************************************)
EXTENDS Webhooks, TLAPS

\* A cursor is set exactly while the row is RETRYING, and names a past attempt.
CursorOK ==
    \A d \in Deliveries :
      /\ cursor[d] # 0 <=> status[d] = "retrying"
      /\ cursor[d] <= attempt[d]

\* What a tick has listed: old cursors, due as long as they are current.
ListedOK ==
    \A t \in Procs : \A row \in todo[t] :
      /\ row[2] # 0 /\ row[2] <= attempt[row[1]]
      /\ cursor[row[1]] = row[2] => row[1] \in due

\* POSTs, attempts and the limit.
BudgetOK ==
    \A d \in Deliveries :
      /\ maxAttempts[d] >= 1
      /\ attempt[d] <= maxAttempts[d] /\ posts[d] <= maxAttempts[d]
      /\ status[d] \in {"none", "pending", "retrying"} => attempt[d] < maxAttempts[d]
      /\ status[d] \in {"none", "retrying"} \/ queue[d] = 1 => posts[d] <= attempt[d]
      /\ status[d] = "none" => attempt[d] = 0

\* What the process that carries a delivery knows of it.
CarrierOK ==
    \A p \in Procs :
      /\ pc[p] \in {"enqueue", "read", "send"} => posts[cur[p]] <= attempt[cur[p]]
      /\ pc[p] = "record" => posts[cur[p]] <= attempt[cur[p]] + 1
      /\ pc[p] \in {"send", "record"} => seen[p] = attempt[cur[p]]

\* A form is open only after it was opened.
FormOpened == edits = 0 => \A p \in Procs : pc[p] # "edit"

IInv == TypeOK /\ OneSendAtATime /\ CursorOK /\ ListedOK /\ BudgetOK /\ CarrierOK

-----------------------------------------------------------------------------
\* The initial states satisfy the invariant.
LEMMA InitInvariant == Init => IInv
  <1> SUFFICES ASSUME Init PROVE IInv
    OBVIOUS
  <1>1. TypeOK
    BY WebhooksAssumption DEF Init, TypeOK, Endpoint, Results, Procs
  <1>2. OneSendAtATime /\ CursorOK /\ ListedOK /\ CarrierOK
    BY DEF Init, OneSendAtATime, Carries, CursorOK, ListedOK, CarrierOK
  <1>3. BudgetOK
    BY WebhooksAssumption DEF Init, BudgetOK
  <1> QED
    BY <1>1, <1>2, <1>3 DEF IInv

\* A new row, from fan-out, replay or test send, keeps the invariant.
LEMMA NewDeliveryStep ==
  ASSUME IInv, NEW r \in Requests, NEW d \in Deliveries, NEW limit \in Nat \ {0}, NewDelivery(r, d, limit)
  PROVE  IInv'
  <1>1. TypeOK'
    BY DEF IInv, TypeOK, Endpoint, Results, Terminal, NewDelivery, Goto, rows, endpoint,
           local, bounds, history, Procs
  <1>2. OneSendAtATime'
    BY DEF IInv, TypeOK, OneSendAtATime, Carries, NewDelivery, Goto, rows, endpoint, local,
           bounds, history, Procs
  <1>3. CursorOK'
    BY DEF IInv, TypeOK, CursorOK, NewDelivery, Goto, rows, endpoint, local, bounds,
           history, Procs
  <1>4. ListedOK'
    BY DEF IInv, TypeOK, ListedOK, CarrierOK, OneSendAtATime, Carries, CursorOK,
           NewDelivery, Goto, rows, endpoint, local, bounds, history, Procs
  <1>5. BudgetOK'
    BY DEF IInv, TypeOK, BudgetOK, Terminal, CarrierOK, OneSendAtATime, Carries, CursorOK,
           ListedOK, NewDelivery, Goto, rows, endpoint, local, bounds, history, Procs
  <1>6. CarrierOK'
    BY DEF IInv, TypeOK, CarrierOK, OneSendAtATime, Carries, BudgetOK, CursorOK, ListedOK,
           NewDelivery, Goto, rows, endpoint, local, bounds, history, Procs
  <1> QED
    BY <1>1, <1>2, <1>3, <1>4, <1>5, <1>6 DEF IInv

\* FanOut keeps the invariant.
LEMMA FanOutStep ==
  ASSUME IInv, NEW r \in Requests, FanOut(r)
  PROVE  IInv'
  <1>1. TypeOK'
    BY DEF IInv, TypeOK, Endpoint, Results, Terminal, FanOut, Goto, rows, endpoint, local,
           bounds, history, Procs
  <1>2. OneSendAtATime'
    BY DEF IInv, TypeOK, OneSendAtATime, Carries, FanOut, Goto, rows, endpoint, local,
           bounds, history, Procs
  <1>3. CursorOK'
    BY DEF IInv, TypeOK, CursorOK, FanOut, Goto, rows, endpoint, local, bounds, history,
           Procs
  <1>4. ListedOK'
    BY DEF IInv, TypeOK, ListedOK, FanOut, Goto, rows, endpoint, local, bounds, history,
           Procs
  <1>5. BudgetOK'
    BY DEF IInv, TypeOK, BudgetOK, Terminal, FanOut, Goto, rows, endpoint, local, bounds,
           history, Procs
  <1>6. CarrierOK'
    BY DEF IInv, TypeOK, CarrierOK, FanOut, Goto, rows, endpoint, local, bounds, history,
           Procs
  <1> QED
    BY <1>1, <1>2, <1>3, <1>4, <1>5, <1>6 DEF IInv

\* Enqueue keeps the invariant.
LEMMA EnqueueStep ==
  ASSUME IInv, NEW p \in Procs, Enqueue(p)
  PROVE  IInv'
  <1>1. TypeOK'
    BY DEF IInv, TypeOK, Endpoint, Results, Terminal, Enqueue, Goto, AfterEnqueue, rows,
           endpoint, local, bounds, history, Procs
  <1>2. OneSendAtATime'
    <2> DEFINE d == cur[p]
    <2>1. d \in Deliveries /\ queue[d] = 0 /\ status[d] = "pending" /\ \A q \in Procs : Carries(q, d) => q = p
      <3>1. d \in Deliveries /\ Carries(p, d)
        BY DEF IInv, TypeOK, Carries, Enqueue
      <3>2. queue[d] \in Nat /\ queue[d] <= 1 /\ queue[d] # 1
        BY <3>1 DEF IInv, TypeOK, OneSendAtATime
      <3>3. status[d] = "pending" /\ \A q \in Procs : Carries(q, d) => q = p
        BY <3>1 DEF IInv, OneSendAtATime
      <3> QED
        BY <3>1, <3>2, <3>3
    <2>2. \A q \in Procs, e \in Deliveries : Carries(q, e)' => q # p /\ Carries(q, e)
      BY DEF IInv, TypeOK, Carries, Enqueue, Goto, AfterEnqueue, local
    <2>3. queue' = [queue EXCEPT ![d] = 1] /\ UNCHANGED status
      BY <2>1 DEF Enqueue, rows, IInv, TypeOK
    <2> QED
      BY <2>1, <2>2, <2>3 DEF IInv, TypeOK, OneSendAtATime
  <1>3. CursorOK'
    BY DEF IInv, TypeOK, CursorOK, Enqueue, Goto, AfterEnqueue, rows, endpoint, local,
           bounds, history, Procs
  <1>4. ListedOK'
    BY DEF IInv, TypeOK, ListedOK, Enqueue, Goto, AfterEnqueue, rows, endpoint, local,
           bounds, history, Procs
  <1>5. BudgetOK'
    BY DEF IInv, TypeOK, BudgetOK, Terminal, CarrierOK, OneSendAtATime, Carries, CursorOK,
           ListedOK, Enqueue, Goto, AfterEnqueue, rows, endpoint, local, bounds, history,
           Procs
  <1>6. CarrierOK'
    BY DEF IInv, TypeOK, CarrierOK, Enqueue, Goto, AfterEnqueue, rows, endpoint, local,
           bounds, history, Procs
  <1> QED
    BY <1>1, <1>2, <1>3, <1>4, <1>5, <1>6 DEF IInv

\* EnqueueFails keeps the invariant.
LEMMA EnqueueFailsStep ==
  ASSUME IInv, NEW p \in Procs, EnqueueFails(p)
  PROVE  IInv'
  <1>1. TypeOK'
    BY DEF IInv, TypeOK, Endpoint, Results, Terminal, EnqueueFails, Goto, AfterEnqueue,
           rows, endpoint, local, bounds, history, Procs
  <1>2. OneSendAtATime'
    BY DEF IInv, TypeOK, OneSendAtATime, Carries, EnqueueFails, Goto, AfterEnqueue, rows,
           endpoint, local, bounds, history, Procs
  <1>3. CursorOK'
    BY DEF IInv, TypeOK, CursorOK, EnqueueFails, Goto, AfterEnqueue, rows, endpoint, local,
           bounds, history, Procs
  <1>4. ListedOK'
    BY DEF IInv, TypeOK, ListedOK, EnqueueFails, Goto, AfterEnqueue, rows, endpoint, local,
           bounds, history, Procs
  <1>5. BudgetOK'
    BY DEF IInv, TypeOK, BudgetOK, Terminal, EnqueueFails, Goto, AfterEnqueue, rows,
           endpoint, local, bounds, history, Procs
  <1>6. CarrierOK'
    BY DEF IInv, TypeOK, CarrierOK, EnqueueFails, Goto, AfterEnqueue, rows, endpoint, local,
           bounds, history, Procs
  <1> QED
    BY <1>1, <1>2, <1>3, <1>4, <1>5, <1>6 DEF IInv

\* Take keeps the invariant.
LEMMA TakeStep ==
  ASSUME IInv, NEW w \in Workers, Take(w)
  PROVE  IInv'
  <1> PICK d \in Deliveries : Take(w)!(d)
    BY DEF Take
  <1>1. TypeOK'
    BY DEF IInv, TypeOK, Endpoint, Results, Terminal, Goto, rows, endpoint, local, bounds,
           history, Procs
  <1>2. OneSendAtATime'
    <2>1. queue[d] = 1 /\ status[d] = "pending" /\ \A q \in Procs : ~Carries(q, d)
      BY DEF IInv, TypeOK, OneSendAtATime
    <2>2. queue' = [queue EXCEPT ![d] = 0] /\ UNCHANGED status
      BY <2>1 DEF rows, IInv, TypeOK
    <2>3. \A q \in Procs, e \in Deliveries : Carries(q, e)' => (q = w /\ e = d) \/ (q # w /\ Carries(q, e))
      BY <2>1 DEF IInv, TypeOK, Carries, Goto, Procs
    <2> QED
      BY <2>1, <2>2, <2>3 DEF IInv, TypeOK, OneSendAtATime
  <1>3. CursorOK'
    BY DEF IInv, TypeOK, CursorOK, Goto, rows, endpoint, local, bounds, history, Procs
  <1>4. ListedOK'
    BY DEF IInv, TypeOK, ListedOK, Goto, rows, endpoint, local, bounds, history, Procs
  <1>5. BudgetOK'
    BY DEF IInv, TypeOK, BudgetOK, Terminal, CarrierOK, OneSendAtATime, Carries, CursorOK,
           ListedOK, Goto, rows, endpoint, local, bounds, history, Procs
  <1>6. CarrierOK'
    BY DEF IInv, TypeOK, CarrierOK, OneSendAtATime, Carries, BudgetOK, CursorOK, ListedOK,
           Goto, rows, endpoint, local, bounds, history, Procs
  <1> QED
    BY <1>1, <1>2, <1>3, <1>4, <1>5, <1>6 DEF IInv

\* Read keeps the invariant.
LEMMA ReadStep ==
  ASSUME IInv, NEW w \in Workers, Read(w)
  PROVE  IInv'
  <1>1. TypeOK'
    BY DEF IInv, TypeOK, Endpoint, Results, Terminal, Read, Goto, rows, endpoint, local,
           bounds, history, Procs
  <1>2. OneSendAtATime'
    BY DEF IInv, TypeOK, OneSendAtATime, Carries, Read, Goto, Terminal, rows, endpoint,
           local, bounds, history, Procs
  <1>3. CursorOK'
    BY DEF IInv, TypeOK, CursorOK, Read, Goto, Terminal, rows, endpoint, local, bounds,
           history, Procs
  <1>4. ListedOK'
    BY DEF IInv, TypeOK, ListedOK, Read, Goto, Terminal, rows, endpoint, local, bounds,
           history, Procs
  <1>5. BudgetOK'
    BY DEF IInv, TypeOK, BudgetOK, Terminal, CarrierOK, OneSendAtATime, Carries, CursorOK,
           ListedOK, Read, Goto, rows, endpoint, local, bounds, history, Procs
  <1>6. CarrierOK'
    BY DEF IInv, TypeOK, CarrierOK, OneSendAtATime, Carries, BudgetOK, CursorOK, ListedOK,
           Read, Goto, Terminal, rows, endpoint, local, bounds, history, Procs
  <1> QED
    BY <1>1, <1>2, <1>3, <1>4, <1>5, <1>6 DEF IInv

\* Send keeps the invariant.
LEMMA SendStep ==
  ASSUME IInv, NEW w \in Workers, Send(w)
  PROVE  IInv'
  <1>1. TypeOK'
    BY DEF IInv, TypeOK, Endpoint, Results, Terminal, Send, Goto, rows, endpoint, local,
           bounds, history, Procs
  <1>2. OneSendAtATime'
    BY DEF IInv, TypeOK, OneSendAtATime, Carries, Send, Goto, rows, endpoint, local, bounds,
           history, Procs
  <1>3. CursorOK'
    BY DEF IInv, TypeOK, CursorOK, Send, Goto, rows, endpoint, local, bounds, history, Procs
  <1>4. ListedOK'
    BY DEF IInv, TypeOK, ListedOK, Send, Goto, rows, endpoint, local, bounds, history, Procs
  <1>5. BudgetOK'
    BY DEF IInv, TypeOK, BudgetOK, Terminal, CarrierOK, OneSendAtATime, Carries, CursorOK,
           ListedOK, Send, Goto, rows, endpoint, local, bounds, history, Procs
  <1>6. CarrierOK'
    BY DEF IInv, TypeOK, CarrierOK, OneSendAtATime, Carries, BudgetOK, CursorOK, ListedOK,
           Send, Goto, rows, endpoint, local, bounds, history, Procs
  <1> QED
    BY <1>1, <1>2, <1>3, <1>4, <1>5, <1>6 DEF IInv

\* Blocked keeps the invariant.
LEMMA BlockedStep ==
  ASSUME IInv, NEW w \in Workers, Blocked(w)
  PROVE  IInv'
  <1>1. TypeOK'
    BY DEF IInv, TypeOK, Endpoint, Results, Terminal, Blocked, Goto, rows, endpoint, local,
           bounds, history, Procs
  <1>2. OneSendAtATime'
    BY DEF IInv, TypeOK, OneSendAtATime, Carries, Blocked, Goto, rows, endpoint, local,
           bounds, history, Procs
  <1>3. CursorOK'
    BY DEF IInv, TypeOK, CursorOK, Blocked, Goto, rows, endpoint, local, bounds, history,
           Procs
  <1>4. ListedOK'
    BY DEF IInv, TypeOK, ListedOK, Blocked, Goto, rows, endpoint, local, bounds, history,
           Procs
  <1>5. BudgetOK'
    BY DEF IInv, TypeOK, BudgetOK, Terminal, Blocked, Goto, rows, endpoint, local, bounds,
           history, Procs
  <1>6. CarrierOK'
    BY DEF IInv, TypeOK, CarrierOK, Blocked, Goto, rows, endpoint, local, bounds, history,
           Procs
  <1> QED
    BY <1>1, <1>2, <1>3, <1>4, <1>5, <1>6 DEF IInv

\* RecordAttempt keeps the invariant.
LEMMA RecordAttemptStep ==
  ASSUME IInv, NEW w \in Workers, RecordAttempt(w)
  PROVE  IInv'
  <1>1. TypeOK'
    BY DEF IInv, TypeOK, Endpoint, Results, Terminal, RecordAttempt, Goto, StatusAfter,
           SetCursor, NextCursor, rows, endpoint, local, bounds, history, Procs
  <1>2. OneSendAtATime'
    BY DEF IInv, TypeOK, OneSendAtATime, Carries, RecordAttempt, Goto, StatusAfter,
           SetCursor, NextCursor, rows, endpoint, local, bounds, history, Procs
  <1>3. CursorOK'
    BY DEF IInv, TypeOK, CursorOK, CarrierOK, OneSendAtATime, Carries, ListedOK,
           RecordAttempt, Goto, StatusAfter, SetCursor, NextCursor, rows, endpoint, local,
           bounds, history, Procs
  <1>4. ListedOK'
    BY DEF IInv, TypeOK, ListedOK, CarrierOK, OneSendAtATime, Carries, CursorOK,
           RecordAttempt, Goto, StatusAfter, SetCursor, NextCursor, rows, endpoint, local,
           bounds, history, Procs
  <1>5. BudgetOK'
    BY DEF IInv, TypeOK, BudgetOK, Terminal, CarrierOK, OneSendAtATime, Carries, CursorOK,
           ListedOK, RecordAttempt, Goto, StatusAfter, SetCursor, NextCursor, rows,
           endpoint, local, bounds, history, Procs
  <1>6. CarrierOK'
    BY DEF IInv, TypeOK, CarrierOK, OneSendAtATime, Carries, BudgetOK, CursorOK, ListedOK,
           RecordAttempt, Goto, StatusAfter, SetCursor, NextCursor, rows, endpoint, local,
           bounds, history, Procs
  <1> QED
    BY <1>1, <1>2, <1>3, <1>4, <1>5, <1>6 DEF IInv

\* Bump keeps the invariant.
LEMMA BumpStep ==
  ASSUME IInv, NEW w \in Workers, Bump(w)
  PROVE  IInv'
  <1>1. TypeOK'
    BY DEF IInv, TypeOK, Endpoint, Results, Terminal, Bump, Goto, AfterBump, rows,
           endpoint, local, bounds, history, Procs
  <1>2. OneSendAtATime'
    BY DEF IInv, TypeOK, OneSendAtATime, Carries, Bump, Goto, AfterBump, rows,
           endpoint, local, bounds, history, Procs
  <1>3. CursorOK'
    BY DEF IInv, TypeOK, CursorOK, Bump, Goto, AfterBump, rows, endpoint, local,
           bounds, history, Procs
  <1>4. ListedOK'
    BY DEF IInv, TypeOK, ListedOK, Bump, Goto, AfterBump, rows, endpoint, local,
           bounds, history, Procs
  <1>5. BudgetOK'
    BY DEF IInv, TypeOK, BudgetOK, Terminal, Bump, Goto, AfterBump, rows, endpoint,
           local, bounds, history, Procs
  <1>6. CarrierOK'
    BY DEF IInv, TypeOK, CarrierOK, Bump, Goto, AfterBump, rows, endpoint, local,
           bounds, history, Procs
  <1> QED
    BY <1>1, <1>2, <1>3, <1>4, <1>5, <1>6 DEF IInv

\* Check keeps the invariant.
LEMMA CheckStep ==
  ASSUME IInv, NEW w \in Workers, Check(w)
  PROVE  IInv'
  <1>1. TypeOK'
    BY DEF IInv, TypeOK, Endpoint, Results, Terminal, Check, Goto, AfterBump,
           PersistentlyFailing, rows, endpoint, local, bounds, history, Procs
  <1>2. OneSendAtATime'
    BY DEF IInv, TypeOK, OneSendAtATime, Carries, Check, Goto, AfterBump,
           PersistentlyFailing, rows, endpoint, local, bounds, history, Procs
  <1>3. CursorOK'
    BY DEF IInv, TypeOK, CursorOK, Check, Goto, AfterBump, PersistentlyFailing, rows,
           endpoint, local, bounds, history, Procs
  <1>4. ListedOK'
    BY DEF IInv, TypeOK, ListedOK, Check, Goto, AfterBump, PersistentlyFailing, rows,
           endpoint, local, bounds, history, Procs
  <1>5. BudgetOK'
    BY DEF IInv, TypeOK, BudgetOK, Terminal, Check, Goto, AfterBump, PersistentlyFailing,
           rows, endpoint, local, bounds, history, Procs
  <1>6. CarrierOK'
    BY DEF IInv, TypeOK, CarrierOK, Check, Goto, AfterBump, PersistentlyFailing, rows,
           endpoint, local, bounds, history, Procs
  <1> QED
    BY <1>1, <1>2, <1>3, <1>4, <1>5, <1>6 DEF IInv

\* Disable keeps the invariant.
LEMMA DisableStep ==
  ASSUME IInv, NEW w \in Workers, Disable(w)
  PROVE  IInv'
  <1>1. TypeOK'
    BY DEF IInv, TypeOK, Endpoint, Results, Terminal, Disable, Goto, AfterBump, rows,
           endpoint, local, bounds, history, Procs
  <1>2. OneSendAtATime'
    BY DEF IInv, TypeOK, OneSendAtATime, Carries, Disable, Goto, AfterBump, rows, endpoint,
           local, bounds, history, Procs
  <1>3. CursorOK'
    BY DEF IInv, TypeOK, CursorOK, Disable, Goto, AfterBump, rows, endpoint, local, bounds,
           history, Procs
  <1>4. ListedOK'
    BY DEF IInv, TypeOK, ListedOK, Disable, Goto, AfterBump, rows, endpoint, local, bounds,
           history, Procs
  <1>5. BudgetOK'
    BY DEF IInv, TypeOK, BudgetOK, Terminal, Disable, Goto, AfterBump, rows, endpoint,
           local, bounds, history, Procs
  <1>6. CarrierOK'
    BY DEF IInv, TypeOK, CarrierOK, Disable, Goto, AfterBump, rows, endpoint, local, bounds,
           history, Procs
  <1> QED
    BY <1>1, <1>2, <1>3, <1>4, <1>5, <1>6 DEF IInv

\* NotifyDead keeps the invariant.
LEMMA NotifyDeadStep ==
  ASSUME IInv, NEW w \in Workers, NotifyDead(w)
  PROVE  IInv'
  <1>1. TypeOK'
    BY DEF IInv, TypeOK, Endpoint, Results, Terminal, NotifyDead, Goto, rows, endpoint,
           local, bounds, history, Procs
  <1>2. OneSendAtATime'
    BY DEF IInv, TypeOK, OneSendAtATime, Carries, NotifyDead, Goto, rows, endpoint, local,
           bounds, history, Procs
  <1>3. CursorOK'
    BY DEF IInv, TypeOK, CursorOK, NotifyDead, Goto, rows, endpoint, local, bounds, history,
           Procs
  <1>4. ListedOK'
    BY DEF IInv, TypeOK, ListedOK, NotifyDead, Goto, rows, endpoint, local, bounds, history,
           Procs
  <1>5. BudgetOK'
    BY DEF IInv, TypeOK, BudgetOK, Terminal, NotifyDead, Goto, rows, endpoint, local,
           bounds, history, Procs
  <1>6. CarrierOK'
    BY DEF IInv, TypeOK, CarrierOK, NotifyDead, Goto, rows, endpoint, local, bounds,
           history, Procs
  <1> QED
    BY <1>1, <1>2, <1>3, <1>4, <1>5, <1>6 DEF IInv

\* ListDue keeps the invariant.
LEMMA ListDueStep ==
  ASSUME IInv, NEW t \in Ticks, ListDue(t)
  PROVE  IInv'
  <1>1. TypeOK'
    BY DEF IInv, TypeOK, Endpoint, Results, Terminal, ListDue, Goto, DueRows, rows,
           endpoint, local, bounds, history, Procs
  <1>2. OneSendAtATime'
    BY DEF IInv, TypeOK, OneSendAtATime, Carries, ListDue, Goto, DueRows, rows, endpoint,
           local, bounds, history, Procs
  <1>3. CursorOK'
    BY DEF IInv, TypeOK, CursorOK, ListDue, Goto, DueRows, rows, endpoint, local, bounds,
           history, Procs
  <1>4. ListedOK'
    BY DEF IInv, TypeOK, ListedOK, CarrierOK, OneSendAtATime, Carries, CursorOK, ListDue,
           Goto, DueRows, rows, endpoint, local, bounds, history, Procs
  <1>5. BudgetOK'
    BY DEF IInv, TypeOK, BudgetOK, Terminal, ListDue, Goto, DueRows, rows, endpoint, local,
           bounds, history, Procs
  <1>6. CarrierOK'
    BY DEF IInv, TypeOK, CarrierOK, ListDue, Goto, DueRows, rows, endpoint, local, bounds,
           history, Procs
  <1> QED
    BY <1>1, <1>2, <1>3, <1>4, <1>5, <1>6 DEF IInv

\* Claim keeps the invariant.
LEMMA ClaimStep ==
  ASSUME IInv, NEW t \in Ticks, Claim(t)
  PROVE  IInv'
  <1>1. TypeOK'
    BY DEF IInv, TypeOK, Endpoint, Results, Terminal, Claim, Goto, ClaimRow, Matches,
           SetCursor, rows, endpoint, local, bounds, history, Procs
  <1>2. OneSendAtATime'
    BY DEF IInv, TypeOK, OneSendAtATime, Carries, CursorOK, ListedOK, Terminal, Claim, Goto,
           ClaimRow, Matches, SetCursor, rows, endpoint, local, bounds, history, Procs
  <1>3. CursorOK'
    BY DEF IInv, TypeOK, CursorOK, CarrierOK, OneSendAtATime, Carries, ListedOK, Claim,
           Goto, ClaimRow, Matches, SetCursor, rows, endpoint, local, bounds, history, Procs
  <1>4. ListedOK'
    BY DEF IInv, TypeOK, ListedOK, CarrierOK, OneSendAtATime, Carries, CursorOK, Claim,
           Goto, ClaimRow, Matches, SetCursor, rows, endpoint, local, bounds, history, Procs
  <1>5. BudgetOK'
    BY DEF IInv, TypeOK, BudgetOK, Terminal, CarrierOK, OneSendAtATime, Carries, CursorOK,
           ListedOK, Claim, Goto, ClaimRow, Matches, SetCursor, rows, endpoint, local,
           bounds, history, Procs
  <1>6. CarrierOK'
    BY DEF IInv, TypeOK, CarrierOK, OneSendAtATime, Carries, BudgetOK, CursorOK, ListedOK,
           Claim, Goto, ClaimRow, Matches, SetCursor, rows, endpoint, local, bounds,
           history, Procs
  <1> QED
    BY <1>1, <1>2, <1>3, <1>4, <1>5, <1>6 DEF IInv

\* Elapse keeps the invariant.
LEMMA ElapseStep ==
  ASSUME IInv, NEW d \in Deliveries, Elapse(d)
  PROVE  IInv'
  <1>1. TypeOK'
    BY DEF IInv, TypeOK, Endpoint, Results, Terminal, Elapse, rows, endpoint, local, bounds,
           history, Procs
  <1>2. OneSendAtATime'
    BY DEF IInv, TypeOK, OneSendAtATime, Carries, Elapse, rows, endpoint, local, bounds,
           history, Procs
  <1>3. CursorOK'
    BY DEF IInv, TypeOK, CursorOK, Elapse, rows, endpoint, local, bounds, history, Procs
  <1>4. ListedOK'
    BY DEF IInv, TypeOK, ListedOK, Elapse, rows, endpoint, local, bounds, history, Procs
  <1>5. BudgetOK'
    BY DEF IInv, TypeOK, BudgetOK, Terminal, Elapse, rows, endpoint, local, bounds, history,
           Procs
  <1>6. CarrierOK'
    BY DEF IInv, TypeOK, CarrierOK, Elapse, rows, endpoint, local, bounds, history, Procs
  <1> QED
    BY <1>1, <1>2, <1>3, <1>4, <1>5, <1>6 DEF IInv

\* EditRead keeps the invariant.
LEMMA EditReadStep ==
  ASSUME IInv, NEW r \in Requests, EditRead(r)
  PROVE  IInv'
  <1>1. TypeOK'
    BY DEF IInv, TypeOK, Endpoint, Results, Terminal, EditRead, Goto, EndpointRow, rows,
           endpoint, local, bounds, history, Procs
  <1>2. OneSendAtATime'
    BY DEF IInv, TypeOK, OneSendAtATime, Carries, EditRead, Goto, EndpointRow, rows,
           endpoint, local, bounds, history, Procs
  <1>3. CursorOK'
    BY DEF IInv, TypeOK, CursorOK, EditRead, Goto, EndpointRow, rows, endpoint, local,
           bounds, history, Procs
  <1>4. ListedOK'
    BY DEF IInv, TypeOK, ListedOK, EditRead, Goto, EndpointRow, rows, endpoint, local,
           bounds, history, Procs
  <1>5. BudgetOK'
    BY DEF IInv, TypeOK, BudgetOK, Terminal, EditRead, Goto, EndpointRow, rows, endpoint,
           local, bounds, history, Procs
  <1>6. CarrierOK'
    BY DEF IInv, TypeOK, CarrierOK, EditRead, Goto, EndpointRow, rows, endpoint, local,
           bounds, history, Procs
  <1> QED
    BY <1>1, <1>2, <1>3, <1>4, <1>5, <1>6 DEF IInv

\* EditSave keeps the invariant.
LEMMA EditSaveStep ==
  ASSUME IInv, NEW r \in Requests, EditSave(r)
  PROVE  IInv'
  <1>1. TypeOK'
    BY DEF IInv, TypeOK, Endpoint, Results, Terminal, EditSave, Goto, rows, endpoint, local,
           bounds, history, Procs
  <1>2. OneSendAtATime'
    BY DEF IInv, TypeOK, OneSendAtATime, Carries, EditSave, Goto, rows, endpoint, local,
           bounds, history, Procs
  <1>3. CursorOK'
    BY DEF IInv, TypeOK, CursorOK, EditSave, Goto, rows, endpoint, local, bounds, history,
           Procs
  <1>4. ListedOK'
    BY DEF IInv, TypeOK, ListedOK, EditSave, Goto, rows, endpoint, local, bounds, history,
           Procs
  <1>5. BudgetOK'
    BY DEF IInv, TypeOK, BudgetOK, Terminal, EditSave, Goto, rows, endpoint, local, bounds,
           history, Procs
  <1>6. CarrierOK'
    BY DEF IInv, TypeOK, CarrierOK, EditSave, Goto, rows, endpoint, local, bounds, history,
           Procs
  <1> QED
    BY <1>1, <1>2, <1>3, <1>4, <1>5, <1>6 DEF IInv

\* Crash keeps the invariant.
LEMMA CrashStep ==
  ASSUME IInv, NEW p \in Procs, Crash(p)
  PROVE  IInv'
  <1>1. TypeOK'
    BY DEF IInv, TypeOK, Endpoint, Results, Terminal, Crash, Goto, rows, endpoint, local,
           bounds, history, Procs
  <1>2. OneSendAtATime'
    BY DEF IInv, TypeOK, OneSendAtATime, Carries, Crash, Goto, rows, endpoint, local,
           bounds, history, Procs
  <1>3. CursorOK'
    BY DEF IInv, TypeOK, CursorOK, Crash, Goto, rows, endpoint, local, bounds, history,
           Procs
  <1>4. ListedOK'
    BY DEF IInv, TypeOK, ListedOK, Crash, Goto, rows, endpoint, local, bounds, history,
           Procs
  <1>5. BudgetOK'
    BY DEF IInv, TypeOK, BudgetOK, Terminal, Crash, Goto, rows, endpoint, local, bounds,
           history, Procs
  <1>6. CarrierOK'
    BY DEF IInv, TypeOK, CarrierOK, Crash, Goto, rows, endpoint, local, bounds, history,
           Procs
  <1> QED
    BY <1>1, <1>2, <1>3, <1>4, <1>5, <1>6 DEF IInv

-----------------------------------------------------------------------------
\* Every step keeps the invariant.
LEMMA NextInvariant == IInv /\ [Next]_vars => IInv'
  <1> SUFFICES ASSUME IInv, [Next]_vars PROVE IInv'
    OBVIOUS
  <1>1. ASSUME NEW r \in Requests, CreateDelivery(r) \/ Replay(r) \/ TestEndpoint(r) PROVE IInv'
    <2>1. PICK d \in Deliveries, limit \in Nat \ {0} : NewDelivery(r, d, limit)
      BY <1>1, WebhooksAssumption DEF CreateDelivery, Replay, TestEndpoint, IInv, TypeOK,
         BudgetOK
    <2> QED
      BY <2>1, NewDeliveryStep
  <1>2. CASE UNCHANGED vars
    BY <1>2 DEF IInv, TypeOK, OneSendAtATime, Carries, CursorOK, ListedOK, BudgetOK,
       CarrierOK,
                vars, rows, endpoint, local, bounds, history
  <1>3. ASSUME NEW w \in Workers, WorkerStep(w) PROVE IInv'
    BY <1>3, TakeStep, ReadStep, SendStep, BlockedStep, RecordAttemptStep, BumpStep,
       CheckStep,
       DisableStep, NotifyDeadStep DEF WorkerStep
  <1>4. ASSUME NEW t \in Ticks, TickStep(t) PROVE IInv'
    BY <1>4, ListDueStep, ClaimStep, EnqueueStep DEF TickStep, Procs
  <1>5. ASSUME NEW r \in Requests, Begin(r) \/ Finish(r) PROVE IInv'
    BY <1>1, <1>5, FanOutStep, EnqueueStep, EditReadStep, EditSaveStep DEF Begin, Finish,
       Procs
  <1> QED
    BY <1>2, <1>3, <1>4, <1>5, ElapseStep, EnqueueFailsStep, CrashStep DEF Next

\* The invariant holds always.
THEOREM InvariantHolds == Spec => []IInv
  BY InitInvariant, NextInvariant, PTL DEF Spec

\* The variables of the model keep their types; a row is due only while it
\* is RETRYING.
THEOREM TypeCorrect == Spec => []TypeOK
  <1>1. IInv => TypeOK
    BY DEF IInv
  <1> QED
    BY <1>1, InvariantHolds, PTL

\* run_due_deliveries and deliver_webhook never have one delivery on two
\* ways to its endpoint.
THEOREM NeverSentTwiceAtOnce == Spec => []OneSendAtATime
  <1>1. IInv => OneSendAtATime
    BY DEF IInv
  <1> QED
    BY <1>1, InvariantHolds, PTL

\* No delivery is POSTed more often than max_attempts.
THEOREM AttemptsStayBounded == Spec => []AttemptsBounded
  <1>1. IInv => AttemptsBounded
    BY DEF IInv, BudgetOK, AttemptsBounded
  <1> QED
    BY <1>1, InvariantHolds, PTL

\* Only the tick's claim makes a RETRYING row PENDING, and a claim that
\* matches is of the current cursor, which was due when it was listed.
THEOREM RetriesAwaitBackoff == Spec => BackoffRespected
  <1> DEFINE Due == \A d \in Deliveries : status[d] = "retrying" /\ status'[d] = "pending" => d \in due
  <1>1. ASSUME IInv, [Next]_vars PROVE [Due]_vars
    <2>1. ASSUME NEW r \in Requests, NEW d \in Deliveries, NEW limit, NewDelivery(r, d, limit) PROVE Due
      BY <1>1, <2>1 DEF NewDelivery, IInv, TypeOK
    <2>2. ASSUME NEW w \in Workers, RecordAttempt(w) PROVE Due
      BY <1>1, <2>2 DEF RecordAttempt, StatusAfter, IInv, TypeOK, OneSendAtATime, Carries,
         Procs
    <2>3. ASSUME NEW t \in Ticks, Claim(t) PROVE Due
      BY <1>1, <2>3 DEF Claim, ClaimRow, Matches, IInv, TypeOK, ListedOK, Procs
    <2>4. CASE UNCHANGED status
      BY <2>4
    <2>5. UNCHANGED status \/ (\E w \in Workers : RecordAttempt(w)) \/ (\E t \in Ticks : Claim(t))
            \/ \E r \in Requests : CreateDelivery(r) \/ Replay(r) \/ TestEndpoint(r)
      BY <1>1 DEF Next, WorkerStep, TickStep, Begin, Finish, Take, Read, Send, Blocked,
         Bump, Check, Disable,
                  NotifyDead, ListDue, Enqueue, FanOut, EditRead, EditSave, Elapse, EnqueueFails, Crash,
                  vars, rows
    <2> QED
      BY <2>1, <2>2, <2>3, <2>4, <2>5 DEF CreateDelivery, Replay, TestEndpoint
  <1>2. IInv /\ [Next]_vars => [Due]_vars
    BY <1>1
  <1> QED
    BY <1>2, InvariantHolds, PTL DEF Spec, BackoffRespected

-----------------------------------------------------------------------------
\* A worker's step leaves a persistently failing endpoint disabled, or is
\* itself about to look: only _bump_endpoint raises the counter, and it goes
\* on to read the endpoint back.
LEMMA WorkerDisables ==
  ASSUME TypeOK, FormOpened, FailingIsDisabled, NEW w \in Workers, WorkerStep(w)
  PROVE  FormOpened' /\ FailingIsDisabled'
  <1> USE DEF TypeOK, FormOpened, FailingIsDisabled, Goto, Procs, rows, endpoint, local, bounds, history
  <1>1. CASE Take(w) \/ Read(w) \/ Send(w) \/ Blocked(w) \/ RecordAttempt(w) \/ NotifyDead(w)
    BY <1>1 DEF Take, Read, Send, Blocked, RecordAttempt, NotifyDead
  <1>2. CASE Bump(w)
    BY <1>2, WebhooksAssumption DEF Bump, AfterBump
  <1>3. CASE Check(w)
    BY <1>3 DEF Check, PersistentlyFailing, AfterBump
  <1>4. CASE Disable(w)
    BY <1>4 DEF Disable, AfterBump
  <1> QED
    BY <1>1, <1>2, <1>3, <1>4 DEF WorkerStep

\* The other steps leave the endpoint alone, except the form's save, or are
\* a fault.
LEMMA OthersDisable ==
  ASSUME TypeOK, FormOpened, FailingIsDisabled, Next, ~\E w \in Workers : WorkerStep(w)
  PROVE  FormOpened' /\ FailingIsDisabled'
  <1> USE DEF TypeOK, FormOpened, FailingIsDisabled, Goto, rows, endpoint, local, bounds, history
  <1>1. ASSUME NEW p \in Ticks \cup Requests, Enqueue(p) PROVE FormOpened' /\ FailingIsDisabled'
    BY <1>1, WebhooksAssumption DEF Enqueue, AfterEnqueue, Procs
  <1>2. ASSUME NEW t \in Ticks, ListDue(t) \/ Claim(t) PROVE FormOpened' /\ FailingIsDisabled'
    BY <1>2, WebhooksAssumption DEF ListDue, Claim, ClaimRow, Procs
  <1>3. ASSUME NEW r \in Requests, NEW d, NEW limit, NewDelivery(r, d, limit)
        PROVE  FormOpened' /\ FailingIsDisabled'
    BY <1>3, WebhooksAssumption DEF NewDelivery, Procs
  <1>4. ASSUME NEW r \in Requests, FanOut(r) PROVE FormOpened' /\ FailingIsDisabled'
    BY <1>4, WebhooksAssumption DEF FanOut, Procs
  <1>5. ASSUME NEW r \in Requests, EditRead(r) \/ EditSave(r) PROVE FormOpened' /\ FailingIsDisabled'
    BY <1>5 DEF EditRead, EditSave, Procs
  <1>6. ASSUME NEW d \in Deliveries, Elapse(d) PROVE FormOpened' /\ FailingIsDisabled'
    BY <1>6 DEF Elapse
  <1>7. ASSUME NEW p \in Procs, EnqueueFails(p) \/ Crash(p) PROVE FormOpened' /\ FailingIsDisabled'
    BY <1>7 DEF EnqueueFails, Crash, AfterEnqueue
  <1> QED
    BY <1>1, <1>2, <1>3, <1>4, <1>5, <1>6, <1>7
       DEF Next, TickStep, Begin, Finish, CreateDelivery, Replay, TestEndpoint

\* However many workers fail on the endpoint together, once none of them is
\* between _bump_endpoint's statements an endpoint with Threshold failures in
\* a row is off; each of them reads the counter back after its own increment.
THEOREM FailingEndpointIsOff == Spec => []FailingIsDisabled
  <1>1. Init => FormOpened /\ FailingIsDisabled
    BY WebhooksAssumption DEF Init, FormOpened, FailingIsDisabled
  <1>2. TypeOK /\ FormOpened /\ FailingIsDisabled /\ [Next]_vars => FormOpened' /\ FailingIsDisabled'
    <2>1. ASSUME TypeOK, FormOpened, FailingIsDisabled, UNCHANGED vars
          PROVE  FormOpened' /\ FailingIsDisabled'
      BY <2>1 DEF FormOpened, FailingIsDisabled, vars, rows, endpoint, local, bounds, history
    <2> QED
      BY <2>1, WorkerDisables, OthersDisable
  <1> QED
    BY <1>1, <1>2, TypeCorrect, PTL DEF Spec
-----------------------------------------------------------------------------
(* What has ended.                                                         *)

\* The worker still has to tell that its attempt was the delivery's last.
Mourns(w, d) ==
    cur[w] = d /\ result[w] = "dead" /\ pc[w] \in {"bump", "check", "disable", "notify"}

\* The dead-delivery mail (_notify_dead) is sent of given-up deliveries only,
\* and of each at most once.
DeadIsMailedOnce ==
    \A d \in Deliveries : mails[d] <= 1 /\ (mails[d] = 1 => status[d] = "dead")

\* Its inductive form: whoever is about to send it is alone and the first.
MailOK ==
    /\ \A w \in Workers :
         /\ pc[w] = "notify" => result[w] = "dead"
         /\ pc[w] = "record" => result[w] \in {"ok", "fail"}
    /\ \A d \in Deliveries :
         /\ mails[d] \in {0, 1}
         /\ status[d] # "dead" => mails[d] = 0
         /\ \A w \in Workers : Mourns(w, d) => mails[d] = 0 /\ status[d] = "dead"
         /\ \A v, w \in Workers : Mourns(v, d) /\ Mourns(w, d) => v = w

\* Action property: a delivery that was delivered or given up is not touched
\* again: no further POST, no further attempt, no other status.
EndedIsFinal ==
    [][\A d \in Deliveries : status[d] \in Terminal =>
          status'[d] = status[d] /\ posts'[d] = posts[d] /\ attempt'[d] = attempt[d]]_vars

\* A worker's step, RecordAttempt apart: nobody begins to mourn.
LEMMA WorkerMails ==
  ASSUME IInv, MailOK, NEW w \in Workers, WorkerStep(w)
  PROVE  MailOK'
  <1> USE DEF IInv, TypeOK, MailOK, Mourns, Goto, Procs, rows, endpoint, local, bounds, history
  <1>1. CASE Take(w) \/ Read(w)
    BY <1>1 DEF Take, Read
  <1>2. CASE Send(w) \/ Blocked(w)
    BY <1>2 DEF Send, Blocked
  <1>3. CASE RecordAttempt(w)
    <2> DEFINE d == cur[w]
    <2>1. d \in Deliveries /\ status[d] = "pending"
      BY <1>3 DEF RecordAttempt, OneSendAtATime, Carries
    <2>2. mails[d] = 0 /\ \A v \in Workers : ~Mourns(v, d)
      BY <2>1
    <2>3. /\ UNCHANGED <<cur, mails>>
          /\ \A v \in Workers : v # w => result'[v] = result[v] /\ pc'[v] = pc[v]
          /\ \A e \in Deliveries : e # d => status'[e] = status[e]
          /\ pc'[w] = "bump" /\ (result'[w] = "dead" => status'[d] = "dead" \/ result[w] = "dead")
      BY <1>3, <2>1 DEF RecordAttempt
    <2>4. result'[w] = "dead" => status'[d] = "dead"
      BY <1>3, <2>1 DEF RecordAttempt, StatusAfter
    <2> QED
      BY <2>1, <2>2, <2>3, <2>4, SMTT(30)
  <1>4. CASE Bump(w)
    BY <1>4 DEF Bump, AfterBump
  <1>5. CASE Check(w) \/ Disable(w)
    BY <1>5 DEF Check, Disable, AfterBump
  <1>6. CASE NotifyDead(w)
    BY <1>6 DEF NotifyDead
  <1> QED
    BY <1>1, <1>2, <1>3, <1>4, <1>5, <1>6 DEF WorkerStep

\* The other steps move no worker into _notify_dead, and no dead row.
LEMMA OthersMail ==
  ASSUME IInv, MailOK, Next, ~\E w \in Workers : WorkerStep(w)
  PROVE  MailOK'
  <1> USE DEF IInv, TypeOK, MailOK, Mourns, Goto, rows, endpoint, local, bounds, history
  <1>1. ASSUME NEW p \in Ticks \cup Requests, Enqueue(p) PROVE MailOK'
    BY <1>1, WebhooksAssumption DEF Enqueue, AfterEnqueue, Procs
  <1>2. ASSUME NEW t \in Ticks, ListDue(t) PROVE MailOK'
    BY <1>2, WebhooksAssumption DEF ListDue, Procs
  <1>3. ASSUME NEW t \in Ticks, Claim(t) PROVE MailOK'
    <2>1. PICK row \in todo[t] : ClaimRow(t, row, Matches(row))
      BY <1>3 DEF Claim
    <2>2. row[1] \in Deliveries /\ (Matches(row) => status[row[1]] = "retrying")
      BY <2>1 DEF Matches, ListedOK, CursorOK, Procs
    <2>3. /\ \A d \in Deliveries : status'[d] # status[d] => status[d] = "retrying"
          /\ \A d \in Deliveries : status'[d] = "dead" <=> status[d] = "dead"
          /\ \A w \in Workers : pc'[w] = pc[w] /\ cur'[w] = cur[w]
          /\ UNCHANGED <<result, mails>>
      BY <2>1, <2>2, WebhooksAssumption DEF ClaimRow, Procs
    <2> QED
      BY <2>3
  <1>4. ASSUME NEW r \in Requests, NEW d \in Deliveries, NEW limit, NewDelivery(r, d, limit)
        PROVE  MailOK'
    BY <1>4, WebhooksAssumption DEF NewDelivery, Procs
  <1>5. ASSUME NEW r \in Requests, FanOut(r) \/ EditRead(r) \/ EditSave(r) PROVE MailOK'
    BY <1>5, WebhooksAssumption DEF FanOut, EditRead, EditSave, Procs
  <1>6. ASSUME NEW d \in Deliveries, Elapse(d) PROVE MailOK'
    BY <1>6 DEF Elapse
  <1>7. ASSUME NEW p \in Procs, EnqueueFails(p) PROVE MailOK'
    BY <1>7 DEF EnqueueFails, AfterEnqueue
  <1>8. ASSUME NEW p \in Procs, Crash(p) PROVE MailOK'
    <2>1. /\ \A w \in Workers : pc'[w] = pc[w] \/ pc'[w] = "idle"
          /\ UNCHANGED <<status, cur, result, mails>>
      BY <1>8 DEF Crash
    <2>2. \A w \in Workers :
            /\ pc'[w] = "notify" => result'[w] = "dead"
            /\ pc'[w] = "record" => result'[w] \in {"ok", "fail"}
            /\ \A d \in Deliveries : Mourns(w, d)' => Mourns(w, d)
      BY <2>1
    <2> HIDE DEF TypeOK, Mourns
    <2> QED
      BY <2>1, <2>2
  <1> QED
    BY <1>1, <1>2, <1>3, <1>4, <1>5, <1>6, <1>7, <1>8
       DEF Next, TickStep, Begin, Finish, CreateDelivery, Replay, TestEndpoint

\* However workers, ticks and replays overlap and die, nobody is told twice
\* that a delivery was given up, and nobody of one that is still going on.
THEOREM DeadMailIsSentOnce == Spec => []DeadIsMailedOnce
  <1>1. Init => MailOK
    BY DEF Init, MailOK, Mourns, Procs
  <1>2. IInv /\ MailOK /\ [Next]_vars => MailOK'
    <2>1. ASSUME MailOK, UNCHANGED vars PROVE MailOK'
      BY <2>1 DEF MailOK, Mourns, vars, rows, local, history
    <2> QED
      BY <2>1, WorkerMails, OthersMail
  <1>3. MailOK => DeadIsMailedOnce
    BY DEF MailOK, DeadIsMailedOnce
  <1> QED
    BY <1>1, <1>2, <1>3, InvariantHolds, PTL DEF Spec

\* A delivery that ended stays as it is, although ticks may hold cursors and
\* workers tasks of it from before: deliver_webhook skips a terminal row, and
\* a claim matches only a cursor that is set.
THEOREM EndedDeliveryIsFinal == Spec => EndedIsFinal
  <1> DEFINE Final == \A d \in Deliveries : status[d] \in Terminal =>
                 status'[d] = status[d] /\ posts'[d] = posts[d] /\ attempt'[d] = attempt[d]
  <1>1. ASSUME IInv, [Next]_vars PROVE Final
    <2> USE DEF IInv, TypeOK, Terminal
    <2>1. ASSUME NEW r \in Requests, NEW d \in Deliveries, NEW limit, NewDelivery(r, d, limit)
          PROVE  Final
      BY <2>1 DEF NewDelivery, history
    <2>2. ASSUME NEW w \in Workers, RecordAttempt(w) \/ Send(w) PROVE Final
      <3>1. cur[w] \in Deliveries /\ status[cur[w]] = "pending"
        BY <1>1, <2>2 DEF RecordAttempt, Send, OneSendAtATime, Carries, Procs
      <3> QED
        BY <1>1, <2>2, <3>1 DEF RecordAttempt, Send, rows, history
    <2>3. ASSUME NEW t \in Ticks, Claim(t) PROVE Final
      BY <1>1, <2>3 DEF Claim, ClaimRow, Matches, ListedOK, CursorOK, Procs, history
    <2>4. CASE UNCHANGED <<status, posts, attempt>>
      BY <2>4
    <2>5. \/ UNCHANGED <<status, posts, attempt>>
          \/ \E w \in Workers : RecordAttempt(w) \/ Send(w)
          \/ \E t \in Ticks : Claim(t)
          \/ \E r \in Requests : CreateDelivery(r) \/ Replay(r) \/ TestEndpoint(r)
      BY <1>1 DEF Next, WorkerStep, TickStep, Begin, Finish, Take, Read, Blocked, Bump, Check, Disable,
                  NotifyDead, ListDue, Enqueue, FanOut, EditRead, EditSave, Elapse, EnqueueFails, Crash,
                  vars, rows, history
    <2> QED
      BY <2>1, <2>2, <2>3, <2>4, <2>5 DEF CreateDelivery, Replay, TestEndpoint
  <1>2. IInv /\ [Next]_vars => [Final]_vars
    BY <1>1
  <1> QED
    BY <1>2, InvariantHolds, PTL DEF Spec, EndedIsFinal
=============================================================================

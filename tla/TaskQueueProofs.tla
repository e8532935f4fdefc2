-------------------------- MODULE TaskQueueProofs --------------------------
(***************************************************************************)
(* The safety properties of TaskQueue, for every number of workers,        *)
(* results and faults, every retry policy and every pinned budget.         *)
(*                                                                         *)
(* IInv is inductive: one lemma per action below, combined in NextStep.    *)
(* The uniqueness of attempt numbers is what makes it need ChainInv (where *)
(* a retry stands in its chain), and the cancel and stamp properties need  *)
(* what a thread in the middle of a receiver or a sweep knows (ThreadInv,  *)
(* SupersedeInv).  What a pinned budget may repeat, and that outcomes      *)
(* stand, needs who executes a row and why it is retried (Executing,       *)
(* PinDecided), on top of IInv.  What chain_outcome tells is an induction  *)
(* on the iterations of its walk (Seen), which ends because the attempts   *)
(* of a chain are numbered without a gap up to its budget.  AttemptLedger  *)
(* is implemented because what a thread decided on stays true until it     *)
(* acts (RetryDecided, StampedIsLost).                                     *)
(***************************************************************************)
EXTENDS TaskOutcome, WellFoundedInduction, TLAPS

\* Which thread is which.
LEMMA ThreadFacts ==
    /\ \A w \in Workers : Main(w) \in Threads /\ Main(w) \in Mains /\ Main(w) \notin Sweeps
    /\ \A p \in Procs : Sweep(p) \in Threads /\ Sweep(p) \in Sweeps /\ Sweep(p) \notin Mains
    /\ \A w \in Workers : w \in Procs /\ Sweep(w) # Main(w)
    /\ \A c \in Commands : c \in Procs
    /\ \A t \in Threads : t \in Mains \/ t \in Sweeps
    /\ \A t \in Mains : t \in Threads /\ t \notin Sweeps
    /\ \A t \in Sweeps : t \in Threads
  BY DEF Main, Sweep, Mains, Sweeps, Threads, Procs

PCs == MainPC \cup SweepPC
BackPCs == {"idle", "wait", "reap", "repairing", "detecting"}

\* GoesBack ends a subroutine: the thread holds no row any more.
LEMMA GoesBackFacts ==
    ASSUME TypeOK, NEW t \in Threads, NEW to \in BackPCs, GoesBack(t, to)
    PROVE  /\ pc' \in [Threads -> PCs]
           /\ cur' \in [Threads -> Results \cup {None}]
           /\ dcause' \in [Threads -> Cause \cup {None}]
           /\ \A u \in Threads : u # t =>
                 pc'[u] = pc[u] /\ cur'[u] = cur[u] /\ dcause'[u] = dcause[u]
           /\ pc'[t] = to /\ cur'[t] = None
  BY DEF GoesBack, TypeOK, PCs, BackPCs, MainPC, SweepPC

\* Goes moves one thread and keeps the row it holds.
LEMMA GoesFacts ==
    ASSUME TypeOK, NEW t \in Threads, NEW to \in PCs, Goes(t, to)
    PROVE  /\ pc' \in [Threads -> PCs]
           /\ cur' \in [Threads -> Results \cup {None}]
           /\ dcause' \in [Threads -> Cause \cup {None}]
           /\ \A u \in Threads :
                 (u # t => pc'[u] = pc[u]) /\ cur'[u] = cur[u] /\ dcause'[u] = dcause[u]
           /\ pc'[t] = to
  BY DEF Goes, TypeOK, PCs

\* A subroutine returns to a loop.
LEMMA ReturnFacts ==
    ASSUME TypeOK, NEW t \in Threads
    PROVE  Returns(t) \in BackPCs /\ LateReturns(t) \in BackPCs
  BY ThreadFacts DEF Returns, LateReturns, TypeOK, BackPCs

\* A process that ends leaves no thread behind.
LEMMA VanishFacts ==
    ASSUME TypeOK, NEW w \in Workers, Vanishes(w)
    PROVE  /\ pc' \in [Threads -> PCs]
           /\ cur' \in [Threads -> Results \cup {None}]
           /\ dcause' \in [Threads -> Cause \cup {None}]
           /\ todo' \in [Sweeps -> SUBSET Results]
           /\ missed' \in [Workers -> 0..2]
           /\ stopping' \in SUBSET Workers
           /\ \A u \in Threads : u # Main(w) /\ u # Sweep(w) =>
                 pc'[u] = pc[u] /\ cur'[u] = cur[u] /\ dcause'[u] = dcause[u]
           /\ pc'[Main(w)] = "gone" /\ cur'[Main(w)] = None
           /\ pc'[Sweep(w)] = "off" /\ cur'[Sweep(w)] = None
           /\ todo'[Sweep(w)] = {}
           /\ \A u \in Sweeps : u # Sweep(w) => todo'[u] = todo[u]
  <1> USE ThreadFacts
  <1>1. pc' \in [Threads -> PCs]
    BY DEF Vanishes, TypeOK, PCs, MainPC, SweepPC
  <1>2. cur' \in [Threads -> Results \cup {None}]
    BY DEF Vanishes, TypeOK
  <1>3. dcause' \in [Threads -> Cause \cup {None}]
    BY DEF Vanishes, TypeOK
  <1>4. /\ todo' \in [Sweeps -> SUBSET Results]
        /\ missed' \in [Workers -> 0..2]
        /\ stopping' \in SUBSET Workers
    BY DEF Vanishes, TypeOK
  <1>5. \A u \in Threads : u # Main(w) /\ u # Sweep(w) =>
                 pc'[u] = pc[u] /\ cur'[u] = cur[u] /\ dcause'[u] = dcause[u]
    BY DEF Vanishes, TypeOK
  <1>6. /\ pc'[Main(w)] = "gone" /\ cur'[Main(w)] = None
        /\ pc'[Sweep(w)] = "off" /\ cur'[Sweep(w)] = None
    BY DEF Vanishes, TypeOK
  <1>7. /\ todo'[Sweep(w)] = {}
        /\ \A u \in Sweeps : u # Sweep(w) => todo'[u] = todo[u]
    BY DEF Vanishes, TypeOK
  <1> QED
    BY <1>1, <1>2, <1>3, <1>4, <1>5, <1>6, <1>7

-----------------------------------------------------------------------------
(* One lemma per action: it preserves the inductive invariant.             *)

\* A new root is the first attempt of a chain of its own.
LEMMA EnqueueStep ==
    ASSUME IInv, NEW r \in Roots, NEW pin \in Pins, Enqueue(r, pin)
    PROVE  IInv'
  <1> USE TaskAssumption, ThreadFacts DEF IInv, rowVars, attVars, hbVars, threadVars
  <1>1. TypeOK'
    BY DEF Enqueue, TypeOK, ThreadInv, RowStatus, MainPC
  <1>2. RowInv'
    BY DEF Enqueue, TypeOK, RowInv, Executed
  <1>3. ThreadInv'
    BY DEF Enqueue, TypeOK, RowInv, ThreadInv, Executed, Exists, Budget
  <1>4. ChainInv'
    BY DEF Enqueue, TypeOK, RowInv, ThreadInv, ChainInv, Executed, Exists
  <1>5. ChainsAreLinear'
    BY DEF Enqueue, TypeOK, RowInv, ChainInv, ChainsAreLinear, Executed, Exists, Budget
  <1>6. SupersedeInv'
    BY DEF Enqueue, TypeOK, RowInv, ThreadInv, ChainInv, SupersedeInv, Executed
  <1> QED
    BY <1>1, <1>2, <1>3, <1>4, <1>5, <1>6

\* register_worker touches only the heartbeat table.
LEMMA StartWorkerStep ==
    ASSUME IInv, NEW w \in Workers, StartWorker(w)
    PROVE  IInv'
  <1> USE TaskAssumption, ThreadFacts DEF IInv, rowVars, attVars, hbVars, threadVars
  <1>1. TypeOK'
    BY DEF StartWorker, TypeOK, MainPC, SweepPC
  <1>2. RowInv' /\ ChainInv' /\ ChainsAreLinear'
    BY DEF StartWorker, RowInv, ChainInv, ChainsAreLinear, Executed, Exists, Budget
  <1>3. ThreadInv'
    BY DEF StartWorker, TypeOK, RowInv, ThreadInv, Executed, Budget
  <1>4. SupersedeInv'
    BY DEF StartWorker, TypeOK, SupersedeInv
  <1> QED
    BY <1>1, <1>2, <1>3, <1>4

\* Entering the claim loop changes no row.
LEMMA EnterLoopStep ==
    ASSUME IInv, NEW w \in Workers, EnterLoop(w)
    PROVE  IInv'
  <1> USE TaskAssumption, ThreadFacts DEF IInv, rowVars, attVars, hbVars, threadVars
  <1>1. TypeOK'
    BY DEF EnterLoop, TypeOK, MainPC, SweepPC
  <1>2. RowInv' /\ ChainInv' /\ ChainsAreLinear'
    BY DEF EnterLoop, RowInv, ChainInv, ChainsAreLinear, Executed, Exists, Budget
  <1>3. ThreadInv'
    BY DEF EnterLoop, TypeOK, RowInv, ThreadInv, Executed, Budget
  <1>4. SupersedeInv'
    BY DEF EnterLoop, TypeOK, SupersedeInv
  <1> QED
    BY <1>1, <1>2, <1>3, <1>4

\* A claim makes a READY row RUNNING and names its worker.
LEMMA ClaimStep ==
    ASSUME IInv, NEW w \in Workers, NEW r \in Results, Claim(w, r)
    PROVE  IInv'
  <1> USE TaskAssumption, ThreadFacts DEF IInv, rowVars, attVars, hbVars, threadVars
  <1>1. TypeOK'
    BY DEF Claim, TypeOK, ThreadInv, RowStatus, MainPC
  <1>2. RowInv'
    BY DEF Claim, TypeOK, RowInv, Executed
  <1>3. ThreadInv'
    BY DEF Claim, TypeOK, RowInv, ThreadInv, Executed, Exists, Budget
  <1>4. ChainInv'
    BY DEF Claim, TypeOK, RowInv, ThreadInv, ChainInv, Executed, Exists
  <1>5. ChainsAreLinear'
    BY DEF Claim, TypeOK, RowInv, ChainInv, ChainsAreLinear, Executed, Exists, Budget
  <1>6. SupersedeInv'
    BY DEF Claim, TypeOK, RowInv, ThreadInv, ChainInv, SupersedeInv, Executed
  <1> QED
    BY <1>1, <1>2, <1>3, <1>4, <1>5, <1>6

\* The worker's own outcome may overwrite the reaper's, never a cancel: a row it
\* executes was claimed, and a claimed row is not a cancelled one.
LEMMA WriteStep ==
    ASSUME IInv, NEW w \in Workers, NEW s \in {"SUCCESSFUL", "FAILED"}, NEW e \in ExcPath,
           e \notin {"WorkerLost", "RetrySuperseded"}, s = "SUCCESSFUL" => e = None,
           WriteOutcome(w, s, e)
    PROVE  IInv'
  <1> USE TaskAssumption, ThreadFacts DEF IInv, rowVars, attVars, hbVars
  <1>0. /\ cur[Main(w)] \in Results /\ Executed(cur[Main(w)])
        /\ rexc[cur[Main(w)]] # "RetrySuperseded"
    <2>1. cur[Main(w)] \in Results /\ Executed(cur[Main(w)])
      BY DEF WriteOutcome, TypeOK, ThreadInv
    <2>2. rstatus[cur[Main(w)]] \in RowStatus
      BY <2>1 DEF TypeOK
    <2> QED
      BY <2>1, <2>2 DEF RowInv, RowStatus
  <1>1. TypeOK'
    BY <1>0 DEF WriteOutcome, TypeOK, RowStatus, MainPC
  <1>2. RowInv'
    BY <1>0 DEF WriteOutcome, TypeOK, RowInv, Executed
  <1>3. ThreadInv'
    BY <1>0 DEF WriteOutcome, TypeOK, ThreadInv, Executed, Budget
  <1>4. ChainInv'
    BY <1>0 DEF WriteOutcome, TypeOK, ChainInv, Executed, Exists, RowInv
  <1>5. ChainsAreLinear'
    BY <1>0 DEF WriteOutcome, TypeOK, ChainsAreLinear, Exists, Budget, RowInv, Executed
  <1>6. SupersedeInv'
    <2>1. \A c \in Results : rexc[c] = "RetrySuperseded" => rexc'[c] = "RetrySuperseded"
      BY <1>0 DEF WriteOutcome, TypeOK
    <2>2. \A u \in Threads : pc'[u] \in {"cancel", "flag"} => pc'[u] = pc[u] /\ u # Main(w)
      BY DEF WriteOutcome, TypeOK
    <2>3. UNCHANGED <<cur, tparent, tcompleted, tcancelled>> /\ reported \subseteq reported'
      BY DEF WriteOutcome
    <2> QED
      BY <2>1, <2>2, <2>3 DEF SupersedeInv
  <1> QED
    BY <1>1, <1>2, <1>3, <1>4, <1>5, <1>6

\* A SystemExit that escapes drops what the main thread held.
LEMMA StopEscapesStep ==
    ASSUME IInv, NEW w \in Workers, StopEscapes(w)
    PROVE  IInv'
  <1> USE TaskAssumption, ThreadFacts DEF IInv, rowVars, attVars, hbVars
  <1>1. /\ pc' \in [Threads -> PCs]
        /\ cur' \in [Threads -> Results \cup {None}]
        /\ dcause' \in [Threads -> Cause \cup {None}]
        /\ \A u \in Threads : u # Main(w) =>
              pc'[u] = pc[u] /\ cur'[u] = cur[u] /\ dcause'[u] = dcause[u]
        /\ pc'[Main(w)] = "idle" /\ cur'[Main(w)] = None
    BY GoesBackFacts DEF StopEscapes, BackPCs
  <1>2. UNCHANGED <<rowVars, attVars, hbVars, ret, todo, stopping, faults, reported>>
    BY DEF StopEscapes
  <1>3. TypeOK'
    BY <1>1, <1>2 DEF TypeOK, PCs
  <1>4. RowInv' /\ ChainInv' /\ ChainsAreLinear'
    BY <1>2 DEF RowInv, ChainInv, ChainsAreLinear, Executed, Exists, Budget
  <1>5. ThreadInv'
    BY <1>1, <1>2 DEF ThreadInv, Executed, Budget
  <1>6. SupersedeInv'
    BY <1>1, <1>2 DEF SupersedeInv
  <1> QED
    BY <1>3, <1>4, <1>5, <1>6

\* A success is overturned by the worker that reported it; what it has flagged
\* by then is a cancelled retry.
LEMMA StopOverturnsStep ==
    ASSUME IInv, NEW w \in Workers, StopOverturns(w)
    PROVE  IInv'
  <1> USE TaskAssumption, ThreadFacts DEF IInv, rowVars, attVars, hbVars
  <1> DEFINE r == cur[Main(w)]
  <1>0. /\ r \in Results /\ Executed(r) /\ r \in reported
        /\ rstatus[r] = "SUCCESSFUL" /\ rexc[r] = None
    BY DEF StopOverturns, TypeOK, ThreadInv, RowInv
  <1>a. /\ rstatus' = [rstatus EXCEPT ![r] = "FAILED"]
        /\ rexc' = [rexc EXCEPT ![r] = "SystemExit"]
        /\ rage' = [rage EXCEPT ![r] = "fresh"]
        /\ pc' = [pc EXCEPT ![Main(w)] = "late"]
        /\ UNCHANGED <<rworker, troot, tparent, tattempt, tcause, tmax, tcompleted, texpired,
                       hbVars, ret, cur, todo, dcause, stopping, faults, reported>>
    BY DEF StopOverturns
  <1>b. /\ tcancelled' \in [Results -> BOOLEAN]
        /\ \A c \in Results : tcancelled'[c] => tcancelled[c] \/ (pc[Main(w)] = "flag" /\ tparent[c] = r)
    BY DEF StopOverturns, TypeOK
  <1> HIDE DEF r
  <1>1. TypeOK'
    BY <1>0, <1>a, <1>b DEF TypeOK, RowStatus, ExcPath, MainPC
  <1>2. RowInv'
    BY <1>0, <1>a DEF TypeOK, RowInv, Executed
  <1>3. ThreadInv'
    BY <1>0, <1>a DEF r, TypeOK, ThreadInv, Executed, Budget
  <1>4. ChainInv'
    BY <1>0, <1>a DEF TypeOK, ChainInv, Executed, Exists, RowInv
  <1>5. ChainsAreLinear'
    BY <1>0, <1>a DEF TypeOK, ChainsAreLinear, Exists, Budget, RowInv, Executed
  <1>6. SupersedeInv'
    <2>1. \A c \in Results : rexc[c] = "RetrySuperseded" => rexc'[c] = "RetrySuperseded"
      BY <1>0, <1>a DEF TypeOK
    <2>2. \A u \in Threads : pc'[u] \in {"cancel", "flag"} => pc'[u] = pc[u] /\ u # Main(w)
      BY <1>a DEF TypeOK
    <2>3. ASSUME NEW c \in Results, tcancelled'[c]
          PROVE  rexc[c] = "RetrySuperseded" /\ tcompleted[c]
      <3>1. CASE tcancelled[c]
        BY <3>1 DEF SupersedeInv
      <3>2. CASE pc[Main(w)] = "flag" /\ tparent[c] = r
        <4>1. PICK d \in Results : /\ tparent[d] = r /\ tcompleted[d]
                                   /\ rexc[d] = "RetrySuperseded"
          BY <3>2 DEF SupersedeInv, r
        <4>2. d = c
          BY <1>0, <3>2, <4>1 DEF ChainInv
        <4> QED
          BY <4>1, <4>2
      <3> QED
        BY <1>b, <2>3, <3>1, <3>2
    <2> QED
      BY <1>a, <2>1, <2>2, <2>3 DEF SupersedeInv
  <1> QED
    BY <1>1, <1>2, <1>3, <1>4, <1>5, <1>6

\* A first stop signal only sets a flag.
LEMMA StopSignalStep ==
    ASSUME IInv, NEW w \in Workers, StopSignal(w)
    PROVE  IInv'
  <1> USE TaskAssumption, ThreadFacts DEF IInv, rowVars, attVars, hbVars, threadVars
  <1>1. TypeOK'
    BY DEF StopSignal, TypeOK, MainPC, SweepPC
  <1>2. RowInv' /\ ChainInv' /\ ChainsAreLinear'
    BY DEF StopSignal, RowInv, ChainInv, ChainsAreLinear, Executed, Exists, Budget
  <1>3. ThreadInv'
    BY DEF StopSignal, TypeOK, RowInv, ThreadInv, Executed, Budget
  <1>4. SupersedeInv'
    BY DEF StopSignal, TypeOK, SupersedeInv
  <1> QED
    BY <1>1, <1>2, <1>3, <1>4

\* mark_stopped touches only the heartbeat table.
LEMMA MarkStoppedStep ==
    ASSUME IInv, NEW w \in Workers, MarkStopped(w)
    PROVE  IInv'
  <1> USE TaskAssumption, ThreadFacts DEF IInv, rowVars, attVars, hbVars, threadVars
  <1>1. TypeOK'
    BY DEF MarkStopped, TypeOK, MainPC, SweepPC
  <1>2. RowInv' /\ ChainInv' /\ ChainsAreLinear'
    BY DEF MarkStopped, RowInv, ChainInv, ChainsAreLinear, Executed, Exists, Budget
  <1>3. ThreadInv'
    BY DEF MarkStopped, TypeOK, RowInv, ThreadInv, Executed, Budget
  <1>4. SupersedeInv'
    BY DEF MarkStopped, TypeOK, SupersedeInv
  <1> QED
    BY <1>1, <1>2, <1>3, <1>4

\* An exit or a crash only removes the two threads of a process.
LEMMA ExitStep ==
    ASSUME IInv, NEW w \in Workers, Exit(w) \/ Crash(w)
    PROVE  IInv'
  <1> USE TaskAssumption, ThreadFacts DEF IInv, rowVars, attVars, hbVars, threadVars
  <1>0. /\ Vanishes(w) /\ faults' \in 0..MaxFaults
        /\ UNCHANGED <<rowVars, attVars, hb, ret, reported>>
    BY DEF Exit, Crash, TypeOK
  <1>v. /\ pc' \in [Threads -> PCs]
        /\ cur' \in [Threads -> Results \cup {None}]
        /\ dcause' \in [Threads -> Cause \cup {None}]
        /\ todo' \in [Sweeps -> SUBSET Results]
        /\ missed' \in [Workers -> 0..2]
        /\ stopping' \in SUBSET Workers
        /\ \A u \in Threads : u # Main(w) /\ u # Sweep(w) =>
              pc'[u] = pc[u] /\ cur'[u] = cur[u] /\ dcause'[u] = dcause[u]
        /\ pc'[Main(w)] = "gone" /\ cur'[Main(w)] = None
        /\ pc'[Sweep(w)] = "off" /\ cur'[Sweep(w)] = None
        /\ todo'[Sweep(w)] = {}
        /\ \A u \in Sweeps : u # Sweep(w) => todo'[u] = todo[u]
    BY <1>0, VanishFacts
  <1>1. TypeOK'
    BY <1>0, <1>v DEF TypeOK, PCs
  <1>2. RowInv'
    BY <1>0 DEF RowInv, Executed
  <1>3. ThreadInv'
    BY <1>0, <1>v DEF ThreadInv, Executed, Budget
  <1>4. ChainInv'
    BY <1>0 DEF ChainInv, Executed, Exists
  <1>5. ChainsAreLinear'
    BY <1>0 DEF ChainsAreLinear, Exists, Budget
  <1>6. SupersedeInv'
    BY <1>0, <1>v DEF SupersedeInv
  <1> QED
    BY <1>1, <1>2, <1>3, <1>4, <1>5, <1>6

\* A beat touches the heartbeat table and may start a pass.
LEMMA BeatStep ==
    ASSUME IInv, NEW w \in Workers, Beat(w)
    PROVE  IInv'
  <1> USE TaskAssumption, ThreadFacts DEF IInv, rowVars, attVars, hbVars, threadVars
  <1>1. TypeOK'
    BY DEF Beat, TypeOK, MainPC, SweepPC
  <1>2. RowInv' /\ ChainInv' /\ ChainsAreLinear'
    BY DEF Beat, RowInv, ChainInv, ChainsAreLinear, Executed, Exists, Budget
  <1>3. ThreadInv'
    BY DEF Beat, TypeOK, RowInv, ThreadInv, Executed, Budget
  <1>4. SupersedeInv'
    BY DEF Beat, TypeOK, SupersedeInv
  <1> QED
    BY <1>1, <1>2, <1>3, <1>4

\* So does a beat that raised.
LEMMA BeatFailsStep ==
    ASSUME IInv, NEW w \in Workers, BeatFails(w)
    PROVE  IInv'
  <1> USE TaskAssumption, ThreadFacts DEF IInv, rowVars, attVars, hbVars, threadVars
  <1>1. TypeOK'
    BY SMTT(30) DEF BeatFails, MaxMissed, TypeOK, MainPC, SweepPC
  <1>2. RowInv' /\ ChainInv' /\ ChainsAreLinear'
    BY DEF BeatFails, MaxMissed, RowInv, ChainInv, ChainsAreLinear, Executed, Exists, Budget
  <1>3. ThreadInv'
    BY DEF BeatFails, MaxMissed, TypeOK, RowInv, ThreadInv, Executed, Budget
  <1>4. SupersedeInv'
    BY DEF BeatFails, MaxMissed, TypeOK, SupersedeInv
  <1> QED
    BY <1>1, <1>2, <1>3, <1>4

\* Time without a beat changes no task row.
LEMMA GoStaleStep ==
    ASSUME IInv, NEW w \in Workers, GoStale(w)
    PROVE  IInv'
  <1> USE TaskAssumption, ThreadFacts DEF IInv, rowVars, attVars, hbVars, threadVars
  <1>1. TypeOK'
    BY DEF GoStale, TypeOK, MainPC, SweepPC
  <1>2. RowInv' /\ ChainInv' /\ ChainsAreLinear'
    BY DEF GoStale, RowInv, ChainInv, ChainsAreLinear, Executed, Exists, Budget
  <1>3. ThreadInv'
    BY DEF GoStale, TypeOK, RowInv, ThreadInv, Executed, Budget
  <1>4. SupersedeInv'
    BY DEF GoStale, TypeOK, SupersedeInv
  <1> QED
    BY <1>1, <1>2, <1>3, <1>4

\* The command only starts a pass.
LEMMA RunCommandStep ==
    ASSUME IInv, NEW c \in Commands, RunCommand(c)
    PROVE  IInv'
  <1> USE TaskAssumption, ThreadFacts DEF IInv, rowVars, attVars, hbVars, threadVars
  <1>1. TypeOK'
    BY DEF RunCommand, TypeOK, MainPC, SweepPC
  <1>2. RowInv' /\ ChainInv' /\ ChainsAreLinear'
    BY DEF RunCommand, RowInv, ChainInv, ChainsAreLinear, Executed, Exists, Budget
  <1>3. ThreadInv'
    BY DEF RunCommand, TypeOK, RowInv, ThreadInv, Executed, Budget
  <1>4. SupersedeInv'
    BY DEF RunCommand, TypeOK, SupersedeInv
  <1> QED
    BY <1>1, <1>2, <1>3, <1>4

\* Ageing a row changes nothing the invariant reads.
LEMMA GrowOldStep ==
    ASSUME IInv, NEW r \in Results, GrowOld(r)
    PROVE  IInv'
  <1> USE TaskAssumption, ThreadFacts DEF IInv, rowVars, attVars, hbVars, threadVars
  <1>1. TypeOK'
    BY DEF GrowOld, TypeOK, ThreadInv, RowStatus, MainPC
  <1>2. RowInv'
    BY DEF GrowOld, TypeOK, RowInv, Executed
  <1>3. ThreadInv'
    BY DEF GrowOld, TypeOK, RowInv, ThreadInv, Executed, Exists, Budget
  <1>4. ChainInv'
    BY DEF GrowOld, TypeOK, RowInv, ThreadInv, ChainInv, Executed, Exists
  <1>5. ChainsAreLinear'
    BY DEF GrowOld, TypeOK, RowInv, ChainInv, ChainsAreLinear, Executed, Exists, Budget
  <1>6. SupersedeInv'
    BY DEF GrowOld, TypeOK, RowInv, ThreadInv, ChainInv, SupersedeInv, Executed
  <1> QED
    BY <1>1, <1>2, <1>3, <1>4, <1>5, <1>6

\* Neither does ageing an attempt.
LEMMA ExpireStep ==
    ASSUME IInv, NEW r \in Results, Expire(r)
    PROVE  IInv'
  <1> USE TaskAssumption, ThreadFacts DEF IInv, rowVars, attVars, hbVars, threadVars
  <1>1. TypeOK'
    BY DEF Expire, TypeOK, ThreadInv, RowStatus, MainPC
  <1>2. RowInv'
    BY DEF Expire, TypeOK, RowInv, Executed
  <1>3. ThreadInv'
    BY DEF Expire, TypeOK, RowInv, ThreadInv, Executed, Exists, Budget
  <1>4. ChainInv'
    BY DEF Expire, TypeOK, RowInv, ThreadInv, ChainInv, Executed, Exists
  <1>5. ChainsAreLinear'
    BY DEF Expire, TypeOK, RowInv, ChainInv, ChainsAreLinear, Executed, Exists, Budget
  <1>6. SupersedeInv'
    BY DEF Expire, TypeOK, RowInv, ThreadInv, ChainInv, SupersedeInv, Executed
  <1> QED
    BY <1>1, <1>2, <1>3, <1>4, <1>5, <1>6

\* The pass reads RUNNING rows, all of them claimed.
LEMMA FindLostStep ==
    ASSUME IInv, NEW p \in Procs, FindLost(p)
    PROVE  IInv'
  <1> USE TaskAssumption, ThreadFacts DEF IInv, rowVars, attVars, hbVars, threadVars
  <1>1. TypeOK'
    BY DEF FindLost, TypeOK, MainPC, SweepPC
  <1>2. RowInv' /\ ChainInv' /\ ChainsAreLinear'
    BY DEF FindLost, RowInv, ChainInv, ChainsAreLinear, Executed, Exists, Budget
  <1>3. ThreadInv'
    BY DEF FindLost, TypeOK, RowInv, ThreadInv, Executed, Budget
  <1>4. SupersedeInv'
    BY DEF FindLost, TypeOK, SupersedeInv
  <1> QED
    BY <1>1, <1>2, <1>3, <1>4

\* The reaper fails RUNNING rows only, so no reported and no cancelled one.
LEMMA ReapStep ==
    ASSUME IInv, NEW p \in Procs, Reap(p)
    PROVE  IInv'
  <1> USE TaskAssumption, ThreadFacts DEF IInv, rowVars, attVars, hbVars
  <1> DEFINE t == Sweep(p)
  <1>u. UNCHANGED <<rworker, attVars, hbVars, ret, dcause, stopping, faults, reported>>
    BY DEF Reap
  <1>k. PICK r \in todo[t] :
          /\ todo' = [todo EXCEPT ![t] = @ \ {r}]
          /\ \/ /\ rstatus[r] = "RUNNING"
                /\ rstatus' = [rstatus EXCEPT ![r] = "FAILED"]
                /\ rexc' = [rexc EXCEPT ![r] = "WorkerLost"]
                /\ rage' = [rage EXCEPT ![r] = "fresh"]
                /\ cur' = [cur EXCEPT ![t] = r]
                /\ pc' = [pc EXCEPT ![t] = "decide"]
             \/ UNCHANGED <<rstatus, rexc, rage, cur, pc>>
    BY DEF Reap, Reapable
  <1>t. t \in Threads /\ t \in Sweeps /\ pc[t] = "reap"
    BY DEF Reap
  <1>r. r \in Results /\ Executed(r)
    BY <1>k, <1>t DEF TypeOK, ThreadInv
  <1>d. /\ todo' \in [Sweeps -> SUBSET Results]
        /\ \A v \in Sweeps : todo'[v] \subseteq todo[v]
    BY <1>k, <1>t DEF TypeOK
  <1>1. CASE UNCHANGED <<rstatus, rexc, rage, cur, pc>>
    <2>1. TypeOK'
      BY <1>1, <1>u, <1>d DEF TypeOK
    <2>2. RowInv' /\ ChainInv' /\ ChainsAreLinear' /\ SupersedeInv'
      BY <1>1, <1>u DEF RowInv, ChainInv, ChainsAreLinear, SupersedeInv, Executed, Exists,
                        Budget
    <2>3. ThreadInv'
      BY <1>1, <1>u, <1>d DEF ThreadInv, Executed, Budget
    <2> QED
      BY <2>1, <2>2, <2>3
  <1>2. CASE /\ rstatus[r] = "RUNNING"
             /\ rstatus' = [rstatus EXCEPT ![r] = "FAILED"]
             /\ rexc' = [rexc EXCEPT ![r] = "WorkerLost"]
             /\ rage' = [rage EXCEPT ![r] = "fresh"]
             /\ cur' = [cur EXCEPT ![t] = r]
             /\ pc' = [pc EXCEPT ![t] = "decide"]
    <2>a. \A a \in Results : a # r => rstatus'[a] = rstatus[a] /\ rexc'[a] = rexc[a]
      BY <1>2 DEF TypeOK
    <2>b. rstatus'[r] = "FAILED" /\ rexc[r] = None
      BY <1>2, <1>r DEF TypeOK, RowInv
    <2>c. \A v \in Threads : v # t => pc'[v] = pc[v] /\ cur'[v] = cur[v]
      BY <1>2 DEF TypeOK
    <2>d. pc'[t] = "decide" /\ cur'[t] = r
      BY <1>2, <1>t DEF TypeOK
    <2>1. TypeOK'
      BY <1>2, <1>u, <1>d, <1>r, <1>t DEF TypeOK, RowStatus, ExcPath, MainPC
    <2>2. RowInv'
      BY <1>2, <1>u, <1>r DEF TypeOK, RowInv, Executed
    <2>3. ChainInv' /\ ChainsAreLinear'
      <3>1. \A a \in Results : /\ Exists(a)' <=> Exists(a)
                               /\ Executed(a)' <=> Executed(a)
                               /\ Budget(a)' = Budget(a)
        BY <2>a, <2>b, <1>2, <1>u DEF Exists, Executed, Budget
      <3>2. ChainInv'
        BY <3>1, <1>u DEF ChainInv, TypeOK
      <3>3. ChainsAreLinear'
        BY <3>1, <1>u DEF ChainsAreLinear
      <3> QED
        BY <3>2, <3>3
    <2>4. ThreadInv'
      BY <2>c, <2>d, <1>u, <1>d, <1>r, <1>t DEF ThreadInv, Executed, Budget
    <2>5. SupersedeInv'
      <3>1. \A v \in Threads : pc'[v] \in {"cancel", "flag"} =>
               pc'[v] = pc[v] /\ cur'[v] = cur[v]
        BY <2>c, <2>d
      <3>2. \A a \in Results : rexc[a] = "RetrySuperseded" => rexc'[a] = "RetrySuperseded"
        BY <2>a, <2>b
      <3> QED
        BY <3>1, <3>2, <1>u DEF SupersedeInv
    <2> QED
      BY <2>1, <2>2, <2>3, <2>4, <2>5
  <1> QED
    BY <1>k, <1>1, <1>2

\* The repair sweep reads FAILED rows that are not bookkeeping, so claimed ones.
LEMMA FindMissedStep ==
    ASSUME IInv, NEW p \in Procs, FindMissed(p)
    PROVE  IInv'
  <1> USE TaskAssumption, ThreadFacts DEF IInv, rowVars, attVars, hbVars, threadVars
  <1>1. TypeOK'
    BY DEF FindMissed, Missed, TypeOK, MainPC, SweepPC
  <1>2. RowInv' /\ ChainInv' /\ ChainsAreLinear'
    BY DEF FindMissed, Missed, RowInv, ChainInv, ChainsAreLinear, Executed, Exists, Budget
  <1>3. ThreadInv'
    BY DEF FindMissed, Missed, TypeOK, RowInv, ThreadInv, Executed, Budget
  <1>4. SupersedeInv'
    BY DEF FindMissed, Missed, TypeOK, SupersedeInv
  <1> QED
    BY <1>1, <1>2, <1>3, <1>4

\* The repair loop picks a row it has read.
LEMMA RepairStep ==
    ASSUME IInv, NEW p \in Procs, Repair(p)
    PROVE  IInv'
  <1> USE TaskAssumption, ThreadFacts DEF IInv, rowVars, attVars, hbVars, threadVars
  <1>1. TypeOK'
    BY DEF Repair, TypeOK, MainPC, SweepPC
  <1>2. RowInv' /\ ChainInv' /\ ChainsAreLinear'
    BY DEF Repair, RowInv, ChainInv, ChainsAreLinear, Executed, Exists, Budget
  <1>3. ThreadInv'
    BY DEF Repair, TypeOK, RowInv, ThreadInv, Executed, Budget
  <1>4. SupersedeInv'
    BY DEF Repair, TypeOK, SupersedeInv
  <1> QED
    BY <1>1, <1>2, <1>3, <1>4

\* A reaped, retried attempt without the reaper's verdict was reported.
LEMMA FindLateStep ==
    ASSUME IInv, NEW p \in Procs, FindLate(p)
    PROVE  IInv'
  <1> USE TaskAssumption, ThreadFacts DEF IInv, rowVars, attVars, hbVars
  <1>u. UNCHANGED <<rowVars, attVars, hbVars, ret, cur, dcause, stopping, faults, reported>>
    BY DEF FindLate
  <1>t. Sweep(p) \in Threads /\ Sweep(p) \in Sweeps
    OBVIOUS
  <1>0. /\ todo' = [todo EXCEPT ![Sweep(p)] = {r \in Results : CameBack(r)}]
        /\ pc' = [pc EXCEPT ![Sweep(p)] = "detecting"]
    BY DEF FindLate
  <1>r. \A r \in Results : CameBack(r) => Executed(r) /\ r \in reported
    <2> TAKE r \in Results
    <2> HAVE CameBack(r)
    <2>1. Executed(r)
      BY DEF CameBack, UnstampedLostChild, ChainInv
    <2>2. r \in reported
      BY <2>1 DEF CameBack, RowInv
    <2> QED
      BY <2>1, <2>2
  <1>1. TypeOK'
    BY <1>u, <1>t, <1>0 DEF TypeOK, MainPC, SweepPC
  <1>2. RowInv' /\ ChainInv' /\ ChainsAreLinear'
    BY <1>u DEF RowInv, ChainInv, ChainsAreLinear, Executed, Exists, Budget
  <1>3. ThreadInv'
    <2>1. /\ \A v \in Threads : v # Sweep(p) => pc'[v] = pc[v]
          /\ \A v \in Sweeps : v # Sweep(p) => todo'[v] = todo[v]
          /\ pc'[Sweep(p)] = "detecting"
          /\ todo'[Sweep(p)] = {r \in Results : CameBack(r)}
      BY <1>t, <1>0 DEF TypeOK
    <2> QED
      BY <2>1, <1>u, <1>r, <1>t DEF ThreadInv, Executed, Budget
  <1>4. SupersedeInv'
    BY <1>u, <1>t, <1>0 DEF SupersedeInv, TypeOK
  <1> QED
    BY <1>1, <1>2, <1>3, <1>4

\* The late-completion loop picks a row it has read.
LEMMA DetectStep ==
    ASSUME IInv, NEW p \in Procs, Detect(p)
    PROVE  IInv'
  <1> USE TaskAssumption, ThreadFacts DEF IInv, rowVars, attVars, hbVars, threadVars
  <1>1. TypeOK'
    BY DEF Detect, TypeOK, MainPC, SweepPC
  <1>2. RowInv' /\ ChainInv' /\ ChainsAreLinear'
    BY DEF Detect, RowInv, ChainInv, ChainsAreLinear, Executed, Exists, Budget
  <1>3. ThreadInv'
    BY DEF Detect, TypeOK, RowInv, ThreadInv, Executed, Budget
  <1>4. SupersedeInv'
    BY DEF Detect, TypeOK, SupersedeInv
  <1> QED
    BY <1>1, <1>2, <1>3, <1>4

\* Pruning touches only the heartbeat table.
LEMMA PruneStep ==
    ASSUME IInv, NEW p \in Procs, Prune(p)
    PROVE  IInv'
  <1> USE TaskAssumption, ThreadFacts DEF IInv, rowVars, attVars, hbVars, threadVars
  <1>1. TypeOK'
    BY DEF Prune, TypeOK, MainPC, SweepPC
  <1>2. RowInv' /\ ChainInv' /\ ChainsAreLinear'
    BY DEF Prune, RowInv, ChainInv, ChainsAreLinear, Executed, Exists, Budget
  <1>3. ThreadInv'
    BY DEF Prune, TypeOK, RowInv, ThreadInv, Executed, Budget
  <1>4. SupersedeInv'
    BY DEF Prune, TypeOK, SupersedeInv
  <1> QED
    BY <1>1, <1>2, <1>3, <1>4

\* maybe_retry goes on to its insert only below the budget.
LEMMA DecideStep ==
    ASSUME IInv, NEW t \in Threads, Decide(t)
    PROVE  IInv'
  <1> USE TaskAssumption, ThreadFacts DEF IInv, rowVars, attVars, hbVars
  <1>u. UNCHANGED <<rowVars, attVars, hbVars, ret, todo, stopping, faults, reported>>
    BY DEF Decide
  <1>r. cur[t] \in Results
    BY DEF Decide, ThreadInv, TypeOK
  <1>0. /\ pc' \in [Threads -> PCs]
        /\ cur' \in [Threads -> Results \cup {None}]
        /\ dcause' \in [Threads -> Cause \cup {None}]
        /\ \A v \in Threads : v # t =>
              pc'[v] = pc[v] /\ cur'[v] = cur[v] /\ dcause'[v] = dcause[v]
        /\ \/ /\ pc'[t] = "insert" /\ cur'[t] = cur[t] /\ dcause'[t] # None
              /\ tattempt[cur[t]] < Budget(cur[t])
           \/ pc'[t] \in BackPCs \ {"detecting"} /\ cur'[t] = None
    <2>1. CASE Decides(cur[t], AskedCause(t))
      <3>1. Classify(cur[t], AskedCause(t)) \in Cause
        BY DEF Classify, AskedCause, Cause
      <3>2. /\ pc' = [pc EXCEPT ![t] = "insert"] /\ cur' = cur
            /\ dcause' = [dcause EXCEPT ![t] = Classify(cur[t], AskedCause(t))]
        BY <2>1 DEF Decide
      <3> QED
        BY <2>1, <3>1, <3>2 DEF Decides, TypeOK, PCs, MainPC, Cause
    <2>2. CASE ~Decides(cur[t], AskedCause(t))
      <3>1. GoesBack(t, Returns(t))
        BY <2>2 DEF Decide
      <3>2. Returns(t) \in BackPCs \ {"detecting"}
        BY DEF Returns, BackPCs, TypeOK
      <3> QED
        BY <3>1, <3>2, GoesBackFacts
    <2> QED
      BY <2>1, <2>2
  <1>1. TypeOK'
    BY <1>u, <1>0 DEF TypeOK, PCs
  <1>2. RowInv'
    BY <1>u DEF RowInv, Executed
  <1>3. ThreadInv'
    BY <1>u, <1>r, <1>0 DEF ThreadInv, Executed, Budget, BackPCs, Decide
  <1>4. ChainInv'
    BY <1>u DEF ChainInv, Executed, Exists
  <1>5. ChainsAreLinear'
    BY <1>u DEF ChainsAreLinear, Exists, Budget
  <1>6. SupersedeInv'
    BY <1>u, <1>0 DEF SupersedeInv, BackPCs
  <1> QED
    BY <1>1, <1>2, <1>3, <1>4, <1>5, <1>6

\* The insert extends a chain at its end: were another attempt numbered like the
\* new one, its parent would be the very row being retried.
LEMMA InsertStep ==
    ASSUME IInv, NEW t \in Threads, Insert(t)
    PROVE  IInv'
  <1> USE TaskAssumption, ThreadFacts DEF IInv, rowVars, attVars, hbVars
  <1> DEFINE r == cur[t]
  <1>r. /\ r \in Results /\ Executed(r) /\ Exists(r)
        /\ tattempt[r] \in Nat /\ tattempt[r] >= 1 /\ tattempt[r] < Budget(r)
    BY DEF Insert, ThreadInv, TypeOK, RowInv, ChainInv, Exists
  <1>b. /\ Returns(t) \in BackPCs \ {"detecting"} /\ GoesBack(t, Returns(t))
        /\ UNCHANGED <<hbVars, ret, todo, stopping, faults, reported>>
    BY DEF Insert, Returns, BackPCs, TypeOK
  <1>p. /\ pc' \in [Threads -> PCs]
        /\ cur' \in [Threads -> Results \cup {None}]
        /\ dcause' \in [Threads -> Cause \cup {None}]
        /\ \A u \in Threads : u # t => pc'[u] = pc[u] /\ cur'[u] = cur[u]
        /\ pc'[t] \in BackPCs \ {"detecting"} /\ cur'[t] = None
        /\ \A u \in Threads : u # t => dcause'[u] = dcause[u]
    BY <1>b, GoesBackFacts
  <1>1. CASE HasChild(r)
    <2>0. UNCHANGED <<rowVars, attVars>>
      BY <1>1 DEF Insert
    <2>1. TypeOK'
      BY <2>0, <1>b, <1>p DEF TypeOK, PCs
    <2>2. RowInv' /\ ChainInv' /\ ChainsAreLinear'
      BY <2>0, <1>b DEF RowInv, ChainInv, ChainsAreLinear, Executed, Exists, Budget
    <2>3. ThreadInv'
      BY <2>0, <1>b, <1>p DEF ThreadInv, Executed, Budget, BackPCs
    <2>4. SupersedeInv'
      BY <2>0, <1>b, <1>p DEF SupersedeInv, BackPCs
    <2> QED
      BY <2>1, <2>2, <2>3, <2>4
  <1>2. CASE ~HasChild(r)
    <2>0. PICK n \in Results \ Roots :
            /\ rstatus[n] = "NONE"
            /\ rstatus' = [rstatus EXCEPT ![n] = "READY"]
            /\ troot' = [troot EXCEPT ![n] = troot[r]]
            /\ tparent' = [tparent EXCEPT ![n] = r]
            /\ tattempt' = [tattempt EXCEPT ![n] = tattempt[r] + 1]
            /\ tcause' = [tcause EXCEPT ![n] = dcause[t]]
            /\ tmax' = [tmax EXCEPT ![n] = tmax[r]]
            /\ UNCHANGED <<rexc, rworker, rage, tcompleted, tcancelled, texpired>>
      BY <1>2 DEF Insert
    <2>n. n # r /\ ~Executed(n) /\ tparent[n] = None /\ ~HasChild(r)
      BY <1>r, <1>2, <2>0 DEF RowInv, Exists
    <2>e. \A a \in Results : /\ a # n => /\ rstatus'[a] = rstatus[a] /\ troot'[a] = troot[a]
                                         /\ tparent'[a] = tparent[a] /\ tmax'[a] = tmax[a]
                                         /\ tattempt'[a] = tattempt[a]
                             /\ rexc'[a] = rexc[a] /\ rworker'[a] = rworker[a]
                             /\ tcompleted'[a] = tcompleted[a] /\ tcancelled'[a] = tcancelled[a]
      BY <2>0 DEF TypeOK
    <2>w. /\ rstatus'[n] = "READY" /\ troot'[n] = troot[r] /\ tparent'[n] = r
          /\ tattempt'[n] = tattempt[r] + 1 /\ tmax'[n] = tmax[r]
      BY <2>0 DEF TypeOK
    <2>d. dcause[t] \in Cause
      BY DEF Insert, ThreadInv, TypeOK
    <2>1. TypeOK'
      BY <2>0, <2>d, <1>r, <1>b, <1>p DEF TypeOK, PCs, RowStatus
    <2>2. RowInv'
      BY <2>0, <2>n, <2>e, <2>w, <1>b DEF RowInv, Executed
    <2>3. ThreadInv'
      <3>1. \A a \in Results : Executed(a) => a # n
        BY <2>n
      <3>2. \A a \in Results : a # n => Budget(a)' = Budget(a) /\ (Executed(a)' <=> Executed(a))
        BY <2>e DEF Budget, Executed
      <3>3. \A u \in Threads : cur[u] # None => cur[u] \in Results
        BY DEF TypeOK
      <3>4. \A u \in Sweeps : todo[u] \in SUBSET Results
        BY DEF TypeOK
      <3> QED
        BY <3>1, <3>2, <3>3, <3>4, <2>e, <1>b, <1>p DEF ThreadInv, BackPCs
    <2>4. ChainInv'
      <3>0. tparent \in [Results -> Results \cup {None}]
        BY DEF TypeOK
      <3>1. \A c \in Results : tparent[c] # n /\ tparent[c] # r
        BY <2>n DEF ChainInv, HasChild
      <3>2. \A c \in Results : tparent'[c] # None =>
              /\ Exists(c)' /\ Executed(tparent[c])'
              /\ troot'[c] = troot'[tparent'[c]]
              /\ tattempt'[c] = tattempt'[tparent'[c]] + 1
              /\ tmax'[c] = tmax'[tparent'[c]]
        <4> TAKE c \in Results
        <4>1. CASE c = n
          BY <4>1, <2>n, <2>e, <2>w, <1>r DEF Exists, Executed
        <4>2. CASE c # n
          BY <4>2, <3>0, <3>1, <2>n, <2>e DEF ChainInv, Exists, Executed
        <4> QED
          BY <4>1, <4>2
      <3>3. \A c \in Results : tparent'[c] = None => troot'[c] = c /\ tattempt'[c] = 1
        BY <2>e, <2>w, <1>r DEF ChainInv
      <3>4. \A a, b \in Results : tparent'[a] # None /\ tparent'[a] = tparent'[b] => a = b
        BY <2>e, <2>w, <3>1 DEF ChainInv
      <3>5. \A a \in Results : tattempt'[a] >= 1
        BY <2>e, <2>w, <1>r DEF ChainInv
      <3> QED
        BY <3>2, <3>3, <3>4, <3>5 DEF ChainInv
    <2>5. ChainsAreLinear'
      <3>1. ASSUME NEW a \in Results, Exists(a), troot[a] = troot[r],
                   tattempt[a] = tattempt[r] + 1
            PROVE  FALSE
        <4>1. tparent[a] # None
          BY <3>1, <1>r DEF ChainInv
        <4>2. tparent[a] \in Results /\ Exists(tparent[a])
          BY <4>1 DEF ChainInv, TypeOK, Exists, RowInv, Executed
        <4>3. troot[tparent[a]] = troot[r] /\ tattempt[tparent[a]] = tattempt[r]
          BY <3>1, <4>1, <4>2, <1>r DEF ChainInv, TypeOK
        <4>4. tparent[a] = r
          BY <4>2, <4>3, <1>r DEF ChainsAreLinear
        <4> QED
          BY <4>4, <1>2 DEF HasChild
      <3>2. ASSUME NEW a \in Results, NEW b \in Results, Exists(a)', Exists(b)',
                   troot'[a] = troot'[b], tattempt'[a] = tattempt'[b]
            PROVE  a = b
        BY <3>1, <3>2, <2>e, <2>w DEF ChainsAreLinear, Exists
      <3>3. ASSUME NEW a \in Results, Exists(a)' PROVE tattempt'[a] <= Budget(a)'
        <4>1. CASE a = n
          <5>1. Budget(r) \in Nat /\ Budget(n)' = Budget(r)
            BY <2>w, <1>r DEF Budget, TypeOK
          <5> QED
            BY <4>1, <5>1, <2>w, <1>r
        <4>2. CASE a # n
          BY <4>2, <3>3, <2>e DEF ChainsAreLinear, Exists, Budget
        <4> QED
          BY <4>1, <4>2
      <3> QED
        BY <3>2, <3>3 DEF ChainsAreLinear
    <2>6. SupersedeInv'
      <3>0. \A c \in Results : tcompleted[c] => c # n
        BY <2>n DEF SupersedeInv, TypeOK
      <3>1. \A c \in Results, u \in Threads : tparent[c] = cur[u] /\ cur[u] # None => c # n
        BY <2>n
      <3> QED
        BY <3>0, <3>1, <2>e, <1>b, <1>p DEF SupersedeInv, BackPCs, ThreadInv
    <2> QED
      BY <2>1, <2>2, <2>3, <2>4, <2>5, <2>6
  <1> QED
    BY <1>1, <1>2

\* The stamp is put on a retry of a reported attempt.
LEMMA StampStep ==
    ASSUME IInv, NEW t \in Threads, Stamp(t)
    PROVE  IInv'
  <1> USE TaskAssumption, ThreadFacts DEF IInv, rowVars, attVars, hbVars
  <1>u. UNCHANGED <<rowVars, troot, tparent, tattempt, tcause, tmax, tcancelled, texpired,
                    hbVars, ret, todo, stopping, faults, reported>>
    BY DEF Stamp
  <1>r. cur[t] \in Results /\ Executed(cur[t]) /\ cur[t] \in reported /\ pc[t] = "late"
    BY DEF Stamp, ThreadInv, TypeOK
  <1>0. /\ pc' \in [Threads -> PCs]
        /\ cur' \in [Threads -> Results \cup {None}]
        /\ dcause' \in [Threads -> Cause \cup {None}]
        /\ \A v \in Threads : v # t =>
              pc'[v] = pc[v] /\ cur'[v] = cur[v] /\ dcause'[v] = dcause[v]
        /\ \/ /\ pc'[t] = "cancel" /\ cur'[t] = cur[t]
              /\ \E c \in Results : /\ tparent[c] = cur[t]
                                    /\ tcompleted' = [tcompleted EXCEPT ![c] = TRUE]
           \/ /\ pc'[t] = "decide" /\ cur'[t] = cur[t] /\ t \in Mains
              /\ tcompleted' = tcompleted
           \/ /\ pc'[t] \in BackPCs /\ cur'[t] = None /\ tcompleted' = tcompleted
    <2>1. CASE \E c \in Results :
                  /\ UnstampedLostChild(c, cur[t])
                  /\ tcompleted' = [tcompleted EXCEPT ![c] = TRUE]
                  /\ Goes(t, "cancel")
      <3>1. "cancel" \in PCs
        BY DEF PCs, MainPC
      <3> QED
        BY <2>1, <3>1, GoesFacts DEF UnstampedLostChild
    <2>2. CASE t \in Mains /\ Goes(t, "decide") /\ UNCHANGED tcompleted
      <3>1. "decide" \in PCs
        BY DEF PCs, MainPC
      <3> QED
        BY <2>2, <3>1, GoesFacts
    <2>3. CASE GoesBack(t, LateReturns(t)) /\ UNCHANGED tcompleted
      BY <2>3, ReturnFacts, GoesBackFacts
    <2> QED
      BY <2>1, <2>2, <2>3 DEF Stamp
  <1>c. /\ tcompleted' \in [Results -> BOOLEAN]
        /\ \A c \in Results : tcompleted[c] => tcompleted'[c]
        /\ \A c \in Results : tcompleted'[c] => tcompleted[c] \/ tparent[c] = cur[t]
    <2>0. tcompleted \in [Results -> BOOLEAN]
      BY DEF TypeOK
    <2>1. CASE tcompleted' = tcompleted
      BY <2>0, <2>1
    <2>2. ASSUME NEW c \in Results, tparent[c] = cur[t],
                 tcompleted' = [tcompleted EXCEPT ![c] = TRUE]
          PROVE  /\ tcompleted' \in [Results -> BOOLEAN]
                 /\ \A a \in Results : tcompleted[a] => tcompleted'[a]
                 /\ \A a \in Results : tcompleted'[a] => tcompleted[a] \/ tparent[a] = cur[t]
      BY <2>0, <2>2
    <2> QED
      BY <1>0, <2>1, <2>2
  <1>1. TypeOK'
    BY <1>u, <1>0, <1>c DEF TypeOK, PCs
  <1>2. RowInv' /\ ChainInv' /\ ChainsAreLinear'
    BY <1>u DEF RowInv, ChainInv, ChainsAreLinear, Executed, Exists, Budget
  <1>3. ThreadInv'
    <2>1. t \in Sweeps => todo[t] \subseteq reported
      BY <1>r DEF ThreadInv
    <2> QED
      BY <2>1, <1>u, <1>r, <1>0 DEF ThreadInv, Executed, Budget, BackPCs
  <1>4. SupersedeInv'
    <2>1. \A v \in Threads : pc'[v] \in {"cancel", "flag"} =>
             \E c \in Results :
                /\ tparent'[c] = cur'[v] /\ tcompleted'[c]
                /\ pc'[v] = "flag" => rexc'[c] = "RetrySuperseded"
      <3> TAKE v \in Threads
      <3>1. CASE v = t
        BY <3>1, <1>u, <1>0 DEF BackPCs, TypeOK
      <3>2. CASE v # t
        BY <3>2, <1>u, <1>0, <1>c DEF SupersedeInv
      <3> QED
        BY <3>1, <3>2
    <2>2. \A c \in Results : tcompleted'[c] => tparent'[c] \in reported'
      BY <1>u, <1>c, <1>r DEF SupersedeInv
    <2>3. \A c \in Results : tcancelled'[c] => rexc'[c] = "RetrySuperseded" /\ tcompleted'[c]
      BY <1>u, <1>c DEF SupersedeInv
    <2> QED
      BY <2>1, <2>2, <2>3 DEF SupersedeInv
  <1> QED
    BY <1>1, <1>2, <1>3, <1>4

\* The cancel hits the one retry of the attempt, before anyone claimed it.
LEMMA CancelStep ==
    ASSUME IInv, NEW t \in Threads, Cancel(t)
    PROVE  IInv'
  <1> USE TaskAssumption, ThreadFacts DEF IInv, rowVars, attVars, hbVars
  <1>u. UNCHANGED <<rworker, attVars, hbVars, ret, todo, stopping, faults, reported>>
    BY DEF Cancel
  <1>r. cur[t] \in Results /\ Executed(cur[t]) /\ cur[t] \in reported /\ pc[t] = "cancel"
    BY DEF Cancel, ThreadInv, TypeOK
  <1>k. PICK c \in Results :
          /\ tparent[c] = cur[t]
          /\ \/ /\ rstatus[c] = "READY"
                /\ rstatus' = [rstatus EXCEPT ![c] = "FAILED"]
                /\ rexc' = [rexc EXCEPT ![c] = "RetrySuperseded"]
                /\ rage' = [rage EXCEPT ![c] = "fresh"]
                /\ Goes(t, "flag")
             \/ /\ GoesBack(t, LateReturns(t))
                /\ UNCHANGED <<rstatus, rexc, rage>>
    BY DEF Cancel, Cancellable
  <1>0. /\ pc' \in [Threads -> PCs]
        /\ cur' \in [Threads -> Results \cup {None}]
        /\ dcause' \in [Threads -> Cause \cup {None}]
        /\ \A v \in Threads : v # t =>
              pc'[v] = pc[v] /\ cur'[v] = cur[v] /\ dcause'[v] = dcause[v]
        /\ \/ pc'[t] = "flag" /\ cur'[t] = cur[t] /\ rexc' = [rexc EXCEPT ![c] = "RetrySuperseded"]
           \/ pc'[t] \in BackPCs /\ cur'[t] = None
    <2>1. "flag" \in PCs
      BY DEF PCs, MainPC
    <2> QED
      BY <2>1, <1>k, ReturnFacts, GoesFacts, GoesBackFacts
  <1>c. \A a \in Results :
           /\ rexc[a] = "RetrySuperseded" => rexc'[a] = "RetrySuperseded"
           /\ (rstatus'[a] # "NONE") = (rstatus[a] # "NONE")
    BY <1>k DEF TypeOK
  <1>1. TypeOK'
    BY <1>u, <1>k, <1>0, SMTT(30) DEF TypeOK, PCs, RowStatus, ExcPath
  <1>2. RowInv'
    BY <1>u, <1>k DEF TypeOK, RowInv, Executed
  <1>3. ChainInv' /\ ChainsAreLinear'
    BY <1>u, <1>c DEF ChainInv, ChainsAreLinear, Executed, Exists, Budget
  <1>4. ThreadInv'
    <2>1. t \in Sweeps => todo[t] \subseteq reported
      BY <1>r DEF ThreadInv
    <2> QED
      BY <2>1, <1>u, <1>r, <1>0 DEF ThreadInv, Executed, Budget, BackPCs
  <1>5. SupersedeInv'
    <2>0. tcompleted[c]
      BY <1>k, <1>r DEF SupersedeInv, ChainInv
    <2>1. \A v \in Threads : pc'[v] \in {"cancel", "flag"} =>
             \E d \in Results :
                /\ tparent'[d] = cur'[v] /\ tcompleted'[d]
                /\ pc'[v] = "flag" => rexc'[d] = "RetrySuperseded"
      <3> TAKE v \in Threads
      <3>1. CASE v = t
        BY <3>1, <2>0, <1>u, <1>k, <1>0 DEF BackPCs, TypeOK
      <3>2. CASE v # t
        BY <3>2, <1>u, <1>0, <1>c DEF SupersedeInv
      <3> QED
        BY <3>1, <3>2
    <2> QED
      BY <2>1, <1>u, <1>c DEF SupersedeInv
  <1> QED
    BY <1>1, <1>2, <1>3, <1>4, <1>5

\* retry_cancelled is set on the retry that this thread cancelled.
LEMMA FlagStep ==
    ASSUME IInv, NEW t \in Threads, Flag(t)
    PROVE  IInv'
  <1> USE TaskAssumption, ThreadFacts DEF IInv, rowVars, attVars, hbVars, threadVars
  <1>1. TypeOK'
    BY DEF Flag, GoesBack, LateReturns, TypeOK, ThreadInv, RowStatus, MainPC, SweepPC
  <1>2. RowInv'
    BY DEF Flag, GoesBack, LateReturns, TypeOK, RowInv, Executed
  <1>3. ThreadInv'
    BY DEF Flag, GoesBack, LateReturns, TypeOK, RowInv, ThreadInv, Executed, Exists, Budget
  <1>4. ChainInv'
    BY DEF Flag, GoesBack, LateReturns, TypeOK, RowInv, ThreadInv, ChainInv, Executed, Exists
  <1>5. ChainsAreLinear'
    BY DEF Flag, GoesBack, LateReturns, TypeOK, RowInv, ChainInv, ChainsAreLinear, Executed, Exists, Budget
  <1>6. SupersedeInv'
    BY DEF Flag, GoesBack, LateReturns, TypeOK, RowInv, ThreadInv, ChainInv, SupersedeInv, Executed
  <1> QED
    BY <1>1, <1>2, <1>3, <1>4, <1>5, <1>6

\* A failed statement leaves the rows alone and drops what the thread held.
LEMMA DbErrorStep ==
    ASSUME IInv, NEW t \in Threads, DbError(t)
    PROVE  IInv'
  <1> USE TaskAssumption, ThreadFacts DEF IInv, rowVars, attVars, hbVars
  <1>u. UNCHANGED <<rowVars, attVars, hbVars, ret, stopping, reported>>
        /\ faults' \in 0..MaxFaults
    BY DEF DbError, TypeOK
  <1>0. /\ pc' \in [Threads -> PCs]
        /\ cur' \in [Threads -> Results \cup {None}]
        /\ dcause' \in [Threads -> Cause \cup {None}]
        /\ \A v \in Threads : v # t =>
              pc'[v] = pc[v] /\ cur'[v] = cur[v] /\ dcause'[v] = dcause[v]
        /\ \/ /\ pc'[t] = "decide" /\ cur'[t] = cur[t] /\ cur[t] # None
              /\ todo' = todo
           \/ /\ pc'[t] \in BackPCs \ {"detecting"} /\ cur'[t] = None
              /\ todo' = todo \/ (t \in Sweeps /\ todo' = [todo EXCEPT ![t] = {}])
    <2>1. CASE pc[t] \in {"decide", "insert"} /\ GoesBack(t, Returns(t)) /\ UNCHANGED todo
      <3>1. Returns(t) \in BackPCs \ {"detecting"}
        BY DEF Returns, BackPCs, TypeOK
      <3> QED
        BY <2>1, <3>1, GoesBackFacts
    <2>2. CASE /\ pc[t] \in {"late", "cancel", "flag"} /\ UNCHANGED todo
               /\ Goes(t, "decide") \/ GoesBack(t, "idle")
      <3>1. "decide" \in PCs /\ "idle" \in BackPCs /\ "idle" # "detecting"
        BY DEF PCs, MainPC, BackPCs
      <3>2. cur[t] # None
        BY <2>2 DEF ThreadInv
      <3> QED
        BY <2>2, <3>1, <3>2, GoesFacts, GoesBackFacts
    <2>3. CASE /\ t \in Sweeps /\ GoesBack(t, "wait")
               /\ todo' = [todo EXCEPT ![t] = {}]
      <3>1. "wait" \in BackPCs /\ "wait" # "detecting"
        BY DEF BackPCs
      <3> QED
        BY <2>3, <3>1, GoesBackFacts
    <2> QED
      BY <2>1, <2>2, <2>3 DEF DbError
  <1>d. /\ todo' \in [Sweeps -> SUBSET Results]
        /\ \A v \in Sweeps : todo'[v] \subseteq todo[v]
        /\ \A v \in Sweeps : v # t => todo'[v] = todo[v]
    <2>1. CASE todo' = todo
      BY <2>1 DEF TypeOK
    <2>2. CASE t \in Sweeps /\ todo' = [todo EXCEPT ![t] = {}]
      BY <2>2 DEF TypeOK
    <2> QED
      BY <1>0, <2>1, <2>2
  <1>1. TypeOK'
    BY <1>u, <1>0, <1>d DEF TypeOK, PCs
  <1>2. RowInv' /\ ChainInv' /\ ChainsAreLinear'
    BY <1>u DEF RowInv, ChainInv, ChainsAreLinear, Executed, Exists, Budget
  <1>3. ThreadInv'
    BY <1>u, <1>0, <1>d DEF ThreadInv, Executed, Budget, BackPCs
  <1>4. SupersedeInv'
    BY <1>u, <1>0 DEF SupersedeInv, BackPCs
  <1> QED
    BY <1>1, <1>2, <1>3, <1>4

-----------------------------------------------------------------------------
(* The invariant and its consequences.                                     *)

\* The empty database satisfies the invariant.
LEMMA InitInv == Init => IInv
  <1> SUFFICES ASSUME Init PROVE IInv
    OBVIOUS
  <1> USE TaskAssumption, ThreadFacts
  <1>1. TypeOK
    BY DEF Init, TypeOK, RowStatus, ExcPath, Cause, MainPC, SweepPC
  <1>2. RowInv /\ ChainInv /\ ChainsAreLinear
    BY DEF Init, RowInv, ChainInv, ChainsAreLinear, Executed, Exists
  <1>3. ThreadInv
    BY DEF Init, ThreadInv
  <1>4. SupersedeInv
    BY DEF Init, SupersedeInv
  <1> QED
    BY <1>1, <1>2, <1>3, <1>4 DEF IInv

\* Every step preserves it.
LEMMA NextStep == IInv /\ [Next]_vars => IInv'
  <1> SUFFICES ASSUME IInv, [Next]_vars PROVE IInv'
    OBVIOUS
  <1>0. CASE UNCHANGED vars
    <2> USE <1>0 DEF vars, rowVars, attVars, hbVars, threadVars, IInv
    <2>1. TypeOK'
      BY DEF TypeOK
    <2>2. RowInv' /\ ChainInv' /\ ChainsAreLinear'
      BY DEF RowInv, ChainInv, ChainsAreLinear, Executed, Exists, Budget
    <2>3. ThreadInv'
      BY DEF ThreadInv, Executed, Budget
    <2>4. SupersedeInv'
      BY DEF SupersedeInv
    <2> QED
      BY <2>1, <2>2, <2>3, <2>4
  <1>1. ASSUME NEW r \in Roots, NEW pin \in Pins, Enqueue(r, pin) PROVE IInv'
    BY <1>1, EnqueueStep
  <1>2. ASSUME NEW w \in Workers,
               \/ StartWorker(w) \/ EnterLoop(w) \/ StopSignal(w) \/ MarkStopped(w)
               \/ Exit(w) \/ Crash(w) \/ Beat(w) \/ BeatFails(w) \/ GoStale(w)
        PROVE  IInv'
    BY <1>2, StartWorkerStep, EnterLoopStep, StopSignalStep, MarkStoppedStep, ExitStep,
       BeatStep, BeatFailsStep, GoStaleStep
  <1>3. ASSUME NEW w \in Workers, Succeed(w) \/ ForceStop(w) \/ \E e \in Raised : Fail(w, e)
        PROVE  IInv'
    <2>1. CASE Succeed(w)
      BY <2>1, WriteStep, TaskAssumption DEF Succeed, ExcPath
    <2>2. CASE ForceStop(w)
      BY <2>2, WriteStep, TaskAssumption DEF ForceStop, ExcPath
    <2>3. ASSUME NEW e \in Raised, Fail(w, e) PROVE IInv'
      BY <2>3, WriteStep, TaskAssumption DEF Fail, ExcPath
    <2> QED
      BY <1>3, <2>1, <2>2, <2>3
  <1>4. ASSUME NEW w \in Workers, NEW r \in Results, Claim(w, r) PROVE IInv'
    BY <1>4, ClaimStep
  <1>5. ASSUME NEW c \in Commands, RunCommand(c) PROVE IInv'
    BY <1>5, RunCommandStep
  <1>6. ASSUME NEW p \in Procs,
               \/ FindLost(p) \/ Reap(p) \/ FindMissed(p) \/ Repair(p)
               \/ FindLate(p) \/ Detect(p) \/ Prune(p)
        PROVE  IInv'
    BY <1>6, FindLostStep, ReapStep, FindMissedStep, RepairStep, FindLateStep, DetectStep,
       PruneStep
  <1>7. ASSUME NEW t \in Threads,
               \/ Decide(t) \/ Insert(t) \/ Stamp(t) \/ Cancel(t) \/ Flag(t) \/ DbError(t)
        PROVE  IInv'
    BY <1>7, DecideStep, InsertStep, StampStep, CancelStep, FlagStep, DbErrorStep
  <1>8. ASSUME NEW r \in Results, GrowOld(r) \/ Expire(r) PROVE IInv'
    BY <1>8, GrowOldStep, ExpireStep
  <1>9. ASSUME NEW w \in Workers, StopEscapes(w) \/ StopOverturns(w) PROVE IInv'
    BY <1>9, StopEscapesStep, StopOverturnsStep
  <1> QED
    BY <1>0, <1>1, <1>2, <1>3, <1>4, <1>5, <1>6, <1>7, <1>8, <1>9 DEF Next

\* The inductive invariant holds throughout.
THEOREM Invariance == Spec => []IInv
  BY InitInv, NextStep, PTL DEF Spec

\* Every column, heartbeat and thread keeps its type.
THEOREM TypeCorrect == Spec => []TypeOK
  <1>1. IInv => TypeOK
    BY DEF IInv
  <1> QED
    BY <1>1, Invariance, PTL

\* Whatever paths race to retry an attempt, a chain has one attempt per number
\* and none beyond its budget (maybe_retry and the unique parent_id).
THEOREM LinearChains == Spec => []ChainsAreLinear
  <1>1. IInv => ChainsAreLinear
    BY DEF IInv
  <1> QED
    BY <1>1, Invariance, PTL

\* A cancelled retry never ran and is never retried.
THEOREM CancelledForGood == Spec => []CancelledStaysCancelled
  <1>1. IInv => CancelledStaysCancelled
    <2> SUFFICES ASSUME IInv, NEW r \in Results, rexc[r] = "RetrySuperseded"
                 PROVE  rstatus[r] = "FAILED" /\ ~Executed(r) /\ ~HasChild(r)
      BY DEF CancelledStaysCancelled
    <2>1. rstatus[r] = "FAILED" /\ ~Executed(r)
      BY TaskAssumption DEF IInv, TypeOK, RowStatus, RowInv
    <2>2. ~HasChild(r)
      BY <2>1, TaskAssumption DEF IInv, ChainInv, HasChild
    <2> QED
      BY <2>1, <2>2
  <1> QED
    BY <1>1, Invariance, PTL

\* No reaper and no cancel replaces an outcome a worker wrote.
THEOREM KeptOutcome == Spec => []OutcomeIsKept
  <1>1. IInv => OutcomeIsKept
    <2> SUFFICES ASSUME IInv, NEW r \in reported
                 PROVE  /\ rstatus[r] \in {"SUCCESSFUL", "FAILED"}
                        /\ rexc[r] \notin {"WorkerLost", "RetrySuperseded"}
      BY DEF OutcomeIsKept
    <2>1. r \in Results /\ rstatus[r] \in RowStatus
      BY DEF IInv, TypeOK
    <2> QED
      BY <2>1, TaskAssumption DEF IInv, RowInv, RowStatus
  <1> QED
    BY <1>1, Invariance, PTL

\* A reaped attempt that completed after all stays visible until it is stamped.
THEOREM NoticeableDoubleRun == Spec => []DoubleRunIsNoticeable
  <1>1. IInv => DoubleRunIsNoticeable
    <2> SUFFICES ASSUME IInv, NEW r \in reported, NEW c \in Results, c \notin texpired,
                        tparent[c] = r, tcause[c] = "lost", ~tcompleted[c]
                 PROVE  CameBack(r)
      BY DEF DoubleRunIsNoticeable
    <2>1. r \in Results /\ rstatus[r] \in RowStatus
      BY DEF IInv, TypeOK
    <2>2. \/ rstatus[r] = "SUCCESSFUL"
          \/ rstatus[r] = "FAILED" /\ rexc[r] # "WorkerLost"
      BY <2>1 DEF IInv, RowInv, RowStatus
    <2> QED
      BY <2>2 DEF CameBack, UnstampedLostChild
  <1> QED
    BY <1>1, Invariance, PTL

\* retry_cancelled is only claimed of a retry that did not run, of an attempt
\* that did.
THEOREM TrueCancelClaim == Spec => []CancelClaimIsTrue
  <1>1. IInv => CancelClaimIsTrue
    <2> SUFFICES ASSUME IInv, NEW c \in Results, tcancelled[c]
                 PROVE  ~Executed(c) /\ tcompleted[c] /\ tparent[c] \in reported
      BY DEF CancelClaimIsTrue
    <2>1. rexc[c] = "RetrySuperseded" /\ tcompleted[c] /\ tparent[c] \in reported
      BY DEF IInv, SupersedeInv
    <2>2. ~Executed(c)
      BY <2>1, TaskAssumption DEF IInv, TypeOK, RowStatus, RowInv
    <2> QED
      BY <2>1, <2>2
  <1> QED
    BY <1>1, Invariance, PTL

-----------------------------------------------------------------------------
(* What a retry under a pinned budget followed.  IInv does not say who      *)
(* executes a row or what a thread decided on, so two more conjuncts.       *)

\* A worker executes only the row it claimed, and has not reported it yet.
Executing ==
    \A w \in Workers : pc[Main(w)] = "exec" =>
        rworker[cur[Main(w)]] = w /\ cur[Main(w)] \notin reported

\* A thread about to retry a pinned row of an undeclared task saw its body raise.
PinDecided ==
    ~Declared => \A t \in Threads : pc[t] = "insert" /\ tmax[cur[t]] # None =>
        cur[t] \in reported /\ rexc[cur[t]] \in Raised

\* What any step leaves alone: a thread comes to execute only by claiming and
\* to insert only by deciding, and keeps its row meanwhile.
Steady ==
    /\ \A w \in Workers : pc'[Main(w)] = "exec" =>
          \/ pc[Main(w)] = "exec" /\ cur'[Main(w)] = cur[Main(w)]
          \/ \E r \in Results : Claim(w, r)
    /\ \A t \in Threads : pc'[t] = "insert" =>
          \/ pc[t] = "insert" /\ cur'[t] = cur[t] /\ dcause'[t] = dcause[t]
          \/ Decide(t)

\* A success becomes a failure at the hands of its own worker, which is being
\* force-stopped while its receiver runs.
Overturned(r) ==
    /\ rstatus[r] = "SUCCESSFUL" /\ rstatus'[r] = "FAILED" /\ rexc'[r] = "SystemExit"
    /\ \E w \in stopping : cur[Main(w)] = r

\* Rows: who claimed one and its pin never change, and what its worker wrote
\* only in that way.
Lasting ==
    /\ \A r \in Results : Executed(r) => rworker'[r] = rworker[r]
    /\ reported \subseteq reported'
    /\ \A r \in reported : (rstatus'[r] = rstatus[r] /\ rexc'[r] = rexc[r]) \/ Overturned(r)
    /\ \A r \in Results : Exists(r) => tmax'[r] = tmax[r]

\* The columns that only few statements write.
Kept == <<rstatus, rexc, rworker, tmax, tparent, tattempt, tcause, tcompleted, reported>>

\* Worker and clock steps other than Claim and the outcome's write.
LEMMA QuietSteps ==
    ASSUME IInv,
           \/ UNCHANGED vars
           \/ \E w \in Workers :
                 \/ StartWorker(w) \/ EnterLoop(w) \/ StopSignal(w) \/ MarkStopped(w)
                 \/ Exit(w) \/ Crash(w) \/ Beat(w) \/ BeatFails(w) \/ GoStale(w)
                 \/ StopEscapes(w)
           \/ \E c \in Commands : RunCommand(c)
           \/ \E r \in Results : GrowOld(r) \/ Expire(r)
    PROVE  Steady /\ UNCHANGED Kept
  <1> USE ThreadFacts DEF IInv, TypeOK, Steady, Kept, vars, rowVars, attVars, hbVars, threadVars
  <1>1. CASE UNCHANGED vars
    BY <1>1
  <1>2. ASSUME NEW w \in Workers, StartWorker(w) \/ EnterLoop(w) \/ MarkStopped(w)
        PROVE  Steady /\ UNCHANGED Kept
    BY <1>2 DEF StartWorker, EnterLoop, MarkStopped
  <1>3. ASSUME NEW w \in Workers, Exit(w) \/ Crash(w)
        PROVE  Steady /\ UNCHANGED Kept
    BY <1>3, VanishFacts DEF Exit, Crash
  <1>4. ASSUME NEW w \in Workers, StopSignal(w) \/ Beat(w) \/ BeatFails(w) \/ GoStale(w)
        PROVE  Steady /\ UNCHANGED Kept
    BY <1>4 DEF StopSignal, Beat, BeatFails, GoStale
  <1>5. ASSUME NEW c \in Commands, RunCommand(c)
        PROVE  Steady /\ UNCHANGED Kept
    BY <1>5 DEF RunCommand
  <1>6. ASSUME NEW r \in Results, GrowOld(r) \/ Expire(r)
        PROVE  Steady /\ UNCHANGED Kept
    BY <1>6 DEF GrowOld, Expire
  <1>7. ASSUME NEW w \in Workers, StopEscapes(w)
        PROVE  Steady /\ UNCHANGED Kept
    <2>1. "idle" \in BackPCs /\ GoesBack(Main(w), "idle")
      BY <1>7 DEF StopEscapes, BackPCs
    <2> QED
      BY <1>7, <2>1, GoesBackFacts DEF StopEscapes
  <1> QED
    BY <1>1, <1>2, <1>3, <1>4, <1>5, <1>6, <1>7

\* The steps of a sweep's loops, the reaper's UPDATE apart.
LEMMA SweepSteps ==
    ASSUME IInv, NEW p \in Procs,
           FindLost(p) \/ FindMissed(p) \/ Repair(p) \/ FindLate(p) \/ Detect(p) \/ Prune(p)
    PROVE  Steady /\ UNCHANGED Kept
  BY ThreadFacts DEF IInv, TypeOK, Steady, Kept, rowVars, attVars, hbVars, threadVars,
     FindLost, FindMissed, Repair, FindLate, Detect, Prune

\* The subroutines of a thread.
LEMMA SubroutineSteps ==
    ASSUME IInv, NEW t \in Threads,
           Decide(t) \/ Insert(t) \/ Stamp(t) \/ Cancel(t) \/ Flag(t) \/ DbError(t)
    PROVE  Steady
  <1> USE ReturnFacts, ThreadFacts DEF IInv, Steady
  <1>1. ASSUME NEW to \in BackPCs, GoesBack(t, to) PROVE Steady
    BY <1>1, GoesBackFacts DEF BackPCs
  <1>2. ASSUME NEW to \in {"cancel", "flag", "decide"}, Goes(t, to) PROVE Steady
    BY <1>2, GoesFacts DEF PCs, MainPC, SweepPC
  <1>3. CASE Decide(t)
    BY <1>1, <1>3 DEF Decide, TypeOK
  <1>4. CASE Insert(t) \/ Flag(t)
    BY <1>1, <1>4 DEF Insert, Flag
  <1>5. CASE Stamp(t) \/ Cancel(t)
    BY <1>1, <1>2, <1>5 DEF Stamp, Cancel
  <1>6. CASE DbError(t)
    BY <1>1, <1>2, <1>6 DEF DbError, BackPCs
  <1> QED
    BY <1>3, <1>4, <1>5, <1>6

\* The steps that write rows, from the pinned-retry invariant.
LEMMA RowSteps ==
    ASSUME IInv, Executing, [Next]_vars
    PROVE  Steady /\ Lasting
  <1> USE TaskAssumption, ThreadFacts DEF IInv, rowVars, attVars, hbVars, threadVars
  <1>0. ASSUME UNCHANGED Kept PROVE Lasting
    BY <1>0 DEF Kept, Lasting
  <1>1. ASSUME NEW r \in Roots, NEW pin \in Pins, Enqueue(r, pin) PROVE Steady /\ Lasting
    BY <1>1 DEF Enqueue, Steady, Lasting, Exists, TypeOK, RowInv
  <1>2. ASSUME NEW w \in Workers, NEW status, NEW exc, WriteOutcome(w, status, exc)
        PROVE  Steady /\ Lasting
    <2>1. cur[Main(w)] \notin reported
      BY <1>2 DEF WriteOutcome, Executing
    <2> QED
      BY <1>2, <2>1 DEF WriteOutcome, Steady, Lasting, TypeOK
  <1>3. ASSUME NEW w \in Workers, NEW r \in Results, Claim(w, r) PROVE Steady /\ Lasting
    <2>1. ~Executed(r) /\ r \notin reported
      BY <1>3 DEF Claim, RowInv
    <2>2. Steady
      <3>1. /\ \A u \in Threads : u # Main(w) => pc'[u] = pc[u] /\ cur'[u] = cur[u]
            /\ UNCHANGED dcause
        BY <1>3 DEF Claim, TypeOK
      <3>2. \A v \in Workers : v # w => Main(v) # Main(w)
        BY DEF Main
      <3>3. pc'[Main(w)] = "exec"
        BY <1>3 DEF Claim, TypeOK
      <3> QED
        BY <1>3, <3>1, <3>2, <3>3 DEF Steady
    <2> QED
      BY <1>3, <2>1, <2>2 DEF Claim, Lasting, TypeOK
  <1>4. ASSUME NEW p \in Procs, Reap(p) PROVE Steady /\ Lasting
    <2>1. Steady
      BY <1>4 DEF Reap, Steady, TypeOK
    <2>2. \A r \in Results : Reapable(r) => r \notin reported
      BY DEF Reapable, RowInv
    <2> QED
      BY <1>4, <2>1, <2>2 DEF Reap, Lasting, TypeOK
  <1>5. ASSUME NEW t \in Threads, Insert(t) PROVE Lasting
    <2>1. \A n \in Results : rstatus[n] = "NONE" => n \notin reported
      BY DEF RowInv
    <2> QED
      BY <1>5, <2>1 DEF Insert, Lasting, Exists, TypeOK
  <1>6. ASSUME NEW t \in Threads, Cancel(t) PROVE Lasting
    <2>1. \A n \in Results : Cancellable(n) => n \notin reported
      BY DEF Cancellable, RowInv
    <2> QED
      BY <1>6, <2>1 DEF Cancel, Lasting, TypeOK
  <1>7. ASSUME NEW t \in Threads, Decide(t) \/ Stamp(t) \/ Flag(t) \/ DbError(t) PROVE Lasting
    BY <1>7 DEF Decide, Stamp, Flag, DbError, Lasting
  <1>8. ASSUME NEW w \in Workers, StopOverturns(w) PROVE Steady /\ Lasting
    <2> DEFINE r == cur[Main(w)]
    <2>1. /\ r \in Results /\ rstatus[r] = "SUCCESSFUL" /\ w \in stopping
          /\ rstatus' = [rstatus EXCEPT ![r] = "FAILED"]
          /\ rexc' = [rexc EXCEPT ![r] = "SystemExit"]
          /\ pc' = [pc EXCEPT ![Main(w)] = "late"]
          /\ UNCHANGED <<rworker, tmax, cur, dcause, reported>>
      BY <1>8 DEF StopOverturns, ThreadInv, TypeOK
    <2>2. Steady
      BY <2>1 DEF Steady, TypeOK
    <2>3. Overturned(r)
      BY <2>1 DEF Overturned, TypeOK
    <2>4. \A q \in Results : q # r => rstatus'[q] = rstatus[q] /\ rexc'[q] = rexc[q]
      BY <2>1 DEF TypeOK
    <2>5. reported \subseteq Results
      BY DEF TypeOK
    <2> QED
      BY <2>1, <2>2, <2>3, <2>4, <2>5 DEF Lasting
  <1> QED
    BY <1>0, <1>1, <1>2, <1>3, <1>4, <1>5, <1>6, <1>7, <1>8, QuietSteps, SweepSteps, SubroutineSteps
       DEF Next, Succeed, Fail, ForceStop

\* A failure that its worker reported stays as it is.
LEMMA FailuresStand ==
    ASSUME IInv, Executing, [Next]_vars
    PROVE  \A r \in reported :
              /\ r \in reported'
              /\ rstatus[r] = "FAILED" => rstatus'[r] = "FAILED" /\ rexc'[r] = rexc[r]
              /\ rexc[r] # None => rexc'[r] = rexc[r]
  <1>1. \A r \in reported : r \in Results /\ (rstatus[r] = "SUCCESSFUL" => rexc[r] = None)
    BY DEF IInv, TypeOK, RowInv
  <1> QED
    BY <1>1, RowSteps DEF Lasting, Overturned

\* A claim takes a row that nobody ever executed; a reported row's worker is
\* past executing.
LEMMA ExecutingStep ==
    ASSUME IInv, Executing, [Next]_vars
    PROVE  Executing'
  <1> USE TaskAssumption, ThreadFacts DEF IInv
  <1>1. SUFFICES ASSUME NEW w \in Workers, pc'[Main(w)] = "exec"
                 PROVE  rworker'[cur'[Main(w)]] = w /\ cur'[Main(w)] \notin reported'
    BY DEF Executing
  <1>2. ASSUME NEW r \in Results, Claim(w, r)
        PROVE  rworker'[cur'[Main(w)]] = w /\ cur'[Main(w)] \notin reported'
    BY <1>2 DEF Claim, TypeOK, RowInv
  <1>3. CASE pc[Main(w)] = "exec" /\ cur'[Main(w)] = cur[Main(w)]
    <2> DEFINE r == cur[Main(w)]
    <2>1. r \in Results /\ Executed(r) /\ rworker[r] = w /\ r \notin reported
      BY <1>3 DEF Executing, ThreadInv, TypeOK
    <2>2. rworker'[r] = w
      BY <2>1, RowSteps DEF Lasting
    <2>3. r \notin reported'
      <3>1. CASE UNCHANGED reported
        BY <3>1, <2>1
      <3>2. ASSUME NEW v \in Workers, NEW status, NEW exc, WriteOutcome(v, status, exc)
            PROVE  r \notin reported'
        <4>1. v # w
          BY <1>1, <3>2 DEF WriteOutcome, TypeOK
        <4>2. cur[Main(v)] # r
          BY <2>1, <3>2, <4>1 DEF WriteOutcome, Executing
        <4> QED
          BY <2>1, <3>2, <4>2 DEF WriteOutcome
      <3>3. \/ UNCHANGED reported
            \/ \E v \in Workers : \E status, exc : WriteOutcome(v, status, exc)
        BY DEF Next, vars, Succeed, Fail, ForceStop, StopEscapes, StopOverturns, Enqueue, StartWorker, EnterLoop, Claim, StopSignal,
               MarkStopped, Exit, Crash, Beat, BeatFails, GoStale, RunCommand, FindLost, Reap,
               FindMissed, Repair, FindLate, Detect, Prune, Decide, Insert, Stamp, Cancel, Flag,
               DbError, GrowOld, Expire
      <3> QED
        BY <3>1, <3>2, <3>3
    <2> QED
      BY <1>3, <2>2, <2>3
  <1> QED
    BY <1>1, <1>2, <1>3, RowSteps DEF Steady

\* _decide lets a pinned, undeclared task through only for an exception of its
\* body, and that outcome stays.
LEMMA PinDecidedStep ==
    ASSUME IInv, Executing, PinDecided, [Next]_vars
    PROVE  PinDecided'
  <1> USE TaskAssumption, ThreadFacts DEF IInv
  <1>1. SUFFICES ASSUME ~Declared, NEW t \in Threads, pc'[t] = "insert", tmax'[cur'[t]] # None
                 PROVE  cur'[t] \in reported' /\ rexc'[cur'[t]] \in Raised
    BY DEF PinDecided
  <1>2. CASE Decide(t)
    <2> DEFINE r == cur[t]
    <2>1. r \in Results /\ cur'[t] = r /\ Decides(r, AskedCause(t))
      <3>1. r \in Results
        BY <1>2 DEF Decide, ThreadInv, TypeOK
      <3>2. ~GoesBack(t, Returns(t))
        BY <1>1, ReturnFacts, GoesBackFacts DEF BackPCs
      <3> QED
        BY <1>2, <3>1, <3>2 DEF Decide
    <2>2. UNCHANGED <<rexc, tmax, reported>>
      BY <1>2 DEF Decide, rowVars, attVars
    <2>3. rexc[r] \in RetryOn /\ rstatus[r] = "FAILED"
      BY <1>1, <2>1, <2>2 DEF Decides, RetriesLost
    <2>4. r \in reported
      BY <2>1, <2>3 DEF RowInv
    <2> QED
      BY <2>1, <2>2, <2>3, <2>4
  <1>3. CASE pc[t] = "insert" /\ cur'[t] = cur[t]
    <2> DEFINE r == cur[t]
    <2>1. r \in Results /\ Executed(r)
      BY <1>3 DEF ThreadInv, TypeOK
    <2>2. Exists(r)
      BY <2>1 DEF RowInv, Exists
    <2>3. tmax'[r] = tmax[r]
      BY <2>1, <2>2, RowSteps DEF Lasting
    <2>4. r \in reported /\ rexc[r] \in Raised
      BY <1>1, <1>3, <2>3 DEF PinDecided
    <2> QED
      BY <1>3, <2>4, FailuresStand
  <1> QED
    BY <1>1, <1>2, <1>3, RowSteps DEF Steady

\* Only Insert makes a retry, of the row its thread decided on.
LEMMA PinRepeatsStep ==
    ASSUME IInv, Executing, PinDecided, PinRepeatsOnlyRaised, [Next]_vars
    PROVE  PinRepeatsOnlyRaised'
  <1> USE TaskAssumption, ThreadFacts DEF IInv
  <1>1. SUFFICES ASSUME ~Declared, NEW c \in Results, tparent'[c] # None, tmax'[c] # None
                 PROVE  tparent'[c] \in reported' /\ rexc'[tparent'[c]] \in Raised
    BY DEF PinRepeatsOnlyRaised
  <1>2. CASE tparent'[c] = tparent[c]
    <2>1. Exists(c)
      BY <1>1, <1>2 DEF ChainInv
    <2>2. tmax'[c] = tmax[c]
      BY <2>1, RowSteps DEF Lasting
    <2>3. tparent[c] \in reported /\ rexc[tparent[c]] \in Raised
      BY <1>1, <1>2, <2>2 DEF PinRepeatsOnlyRaised
    <2> QED
      BY <1>2, <2>3, FailuresStand
  <1>3. ASSUME NEW t \in Threads, Insert(t), tparent'[c] # tparent[c]
        PROVE  tparent'[c] \in reported' /\ rexc'[tparent'[c]] \in Raised
    <2> DEFINE r == cur[t]
    <2>1. r \in Results
      BY <1>3 DEF Insert, ThreadInv, TypeOK
    <2>2. tparent'[c] = r /\ tmax'[c] = tmax[r]
      BY <1>3, <2>1 DEF Insert, TypeOK, attVars
    <2>3. r \in reported /\ rexc[r] \in Raised
      BY <1>1, <1>3, <2>2 DEF Insert, PinDecided
    <2> QED
      BY <2>2, <2>3, FailuresStand
  <1>4. UNCHANGED tparent \/ \E t \in Threads : Insert(t)
    BY DEF Next, vars, attVars, WriteOutcome, Succeed, Fail, ForceStop, StopEscapes, StopOverturns, Enqueue, StartWorker, EnterLoop,
           Claim, StopSignal, MarkStopped, Exit, Crash, Beat, BeatFails, GoStale, RunCommand,
           FindLost, Reap, FindMissed, Repair, FindLate, Detect, Prune, Decide, Stamp, Cancel,
           Flag, DbError, GrowOld, Expire
  <1> QED
    BY <1>2, <1>3, <1>4

\* Both conjuncts, and with them the property, hold throughout.
LEMMA PinInvariance == Spec => [](Executing /\ PinDecided /\ PinRepeatsOnlyRaised)
  <1>1. Init => Executing /\ PinDecided /\ PinRepeatsOnlyRaised
    BY ThreadFacts, TaskAssumption DEF Init, Executing, PinDecided, PinRepeatsOnlyRaised
  <1>2. ASSUME IInv, Executing /\ PinDecided /\ PinRepeatsOnlyRaised, [Next]_vars
        PROVE  (Executing /\ PinDecided /\ PinRepeatsOnlyRaised)'
    BY <1>2, ExecutingStep, PinDecidedStep, PinRepeatsStep
  <1> QED
    BY <1>1, <1>2, Invariance, PTL DEF Spec

\* Under a pin nobody declared the task safe for, only an exception its body
\* raised repeats it: whatever the reaper, the repair sweep and the receiver
\* ask, and although the row may still change between their read and insert.
THEOREM PinIsNeverAggressive == Spec => []PinRepeatsOnlyRaised
  BY PinInvariance, PTL

\* What a worker wrote about its attempt stands, against a reaper that had listed
\* the row, a cancel and every other worker, with one exception: the forced stop
\* of that same worker in the receiver of a success fails the task after all
\* (signals.py: "an exception here would flip a successful task to FAILED").
THEOREM OutcomesAreFinal ==
    Spec => [][\A r \in reported :
                  \/ rstatus'[r] = rstatus[r] /\ rexc'[r] = rexc[r]
                  \/ /\ rstatus[r] = "SUCCESSFUL" /\ rstatus'[r] = "FAILED" /\ rexc'[r] = "SystemExit"
                     /\ \E w \in stopping : cur[Main(w)] = r]_vars
  <1> DEFINE Final ==
        \A r \in reported :
            \/ rstatus'[r] = rstatus[r] /\ rexc'[r] = rexc[r]
            \/ /\ rstatus[r] = "SUCCESSFUL" /\ rstatus'[r] = "FAILED" /\ rexc'[r] = "SystemExit"
               /\ \E w \in stopping : cur[Main(w)] = r
  <1>1. IInv /\ Executing /\ [Next]_vars => [Final]_vars
    BY RowSteps DEF Lasting, Overturned
  <1> QED
    BY <1>1, Invariance, PinInvariance, PTL DEF Spec
-----------------------------------------------------------------------------
(* The walk of chain_outcome.  It goes on from row to row until it stops,   *)
(* so what it has seen is a matter of induction on its iterations, here by  *)
(* the least counterexample.                                               *)

\* Every nonempty set of naturals has a least member.
LEMMA LeastNumber ==
    ASSUME NEW S, S \subseteq Nat, S # {}
    PROVE  \E x \in S : \A y \in S : x <= y
  <1>1. IsWellFoundedOn(OpToRel(<, Nat), Nat)
    BY NatLessThanWellFounded
  <1>2. PICK x \in S : \A y \in S : ~(<<y, x>> \in OpToRel(<, Nat))
    BY <1>1, WFMin
  <1>3. \A y \in S : ~(y < x)
    BY <1>2 DEF OpToRel
  <1> QED
    BY <1>3

\* A set of numbers that holds 0 and, with each number below n, the next one,
\* holds all numbers up to n.
LEMMA Climb ==
    ASSUME NEW n \in Nat, NEW A, 0 \in A, \A i \in 0..n : i < n /\ i \in A => i + 1 \in A
    PROVE  \A i \in 0..n : i \in A
  <1> DEFINE B == {i \in 0..n : i \notin A}
  <1>1. SUFFICES ASSUME B # {} PROVE FALSE
    OBVIOUS
  <1>2. PICK x \in B : \A y \in B : x <= y
    <2>1. B \subseteq Nat
      OBVIOUS
    <2> HIDE DEF B
    <2> QED
      BY <1>1, <2>1, LeastNumber
  <1>3. x \in 0..n /\ x # 0 /\ x \notin A
    BY <1>2
  <1>4. x - 1 \in 0..n /\ x - 1 < n /\ ~(x <= x - 1)
    BY <1>3
  <1>5. x - 1 \in A
    BY <1>2, <1>4
  <1>6. (x - 1) + 1 \in A /\ (x - 1) + 1 = x
    BY <1>3, <1>4, <1>5
  <1> QED
    BY <1>3, <1>6

\* A function that follows the recursion of WalkSteps for the first n iterations.
Follows(f, root, n) ==
    f = [i \in 0..n |-> IF i = 0 THEN WalkStart(root) ELSE Walk(f[i - 1])]

\* There is one: each iteration extends it by one more.
LEMMA FollowsExist ==
    ASSUME NEW root PROVE \E f : Follows(f, root, MaxChain)
  <1> DEFINE A == {n \in 0..MaxChain : \E f : Follows(f, root, n)}
  <1>0. MaxChain \in Nat
    BY ChainsFit
  <1>1. 0 \in A
    <2> DEFINE f == [i \in 0..0 |-> WalkStart(root)]
    <2>1. f = [i \in 0..0 |-> IF i = 0 THEN WalkStart(root) ELSE Walk(f[i - 1])]
      <3>1. \A i \in 0..0 : i = 0
        OBVIOUS
      <3> QED
        BY <3>1
    <2>2. Follows(f, root, 0)
      BY <2>1 DEF Follows
    <2> QED
      BY <1>0, <2>2
  <1>2. ASSUME NEW n \in 0..MaxChain, n < MaxChain, n \in A PROVE n + 1 \in A
    <2>1. PICK f : Follows(f, root, n)
      BY <1>2
    <2> DEFINE g == [i \in 0..(n + 1) |-> IF i = n + 1 THEN Walk(f[n]) ELSE f[i]]
    <2>2. \A i \in 0..n : g[i] = f[i] /\ i \in 0..(n + 1)
      BY <1>0
    <2>3. ASSUME NEW i \in 0..(n + 1)
          PROVE  g[i] = IF i = 0 THEN WalkStart(root) ELSE Walk(g[i - 1])
      <3>1. CASE i = n + 1
        <4>1. i # 0 /\ i - 1 = n /\ n \in 0..n
          BY <1>0, <3>1
        <4>2. g[i] = Walk(f[n])
          BY <3>1
        <4>3. g[i - 1] = f[n]
          BY <2>2, <4>1
        <4> QED
          BY <4>1, <4>2, <4>3
      <3>2. CASE i # n + 1
        <4>1. i \in 0..n /\ (i # 0 => i - 1 \in 0..n)
          BY <1>0, <3>2
        <4>2. f[i] = IF i = 0 THEN WalkStart(root) ELSE Walk(f[i - 1])
          BY <2>1, <4>1 DEF Follows
        <4> QED
          BY <2>2, <4>1, <4>2
      <3> QED
        BY <3>1, <3>2
    <2>4. g = [i \in 0..(n + 1) |-> g[i]]
      OBVIOUS
    <2>5. Follows(g, root, n + 1)
      <3> HIDE DEF g
      <3> QED
        BY <2>3, <2>4 DEF Follows
    <2>6. n + 1 \in 0..MaxChain
      BY <1>0, <1>2
    <2> QED
      BY <2>5, <2>6
  <1>3. \A n \in 0..MaxChain : n \in A
    <2> HIDE DEF A
    <2> QED
      BY <1>0, <1>1, <1>2, Climb
  <1>4. MaxChain \in A
    BY <1>0, <1>3
  <1> QED
    BY <1>4

\* So WalkSteps is the walk: it starts at the root and iterates Walk.
LEMMA WalkIterates ==
    ASSUME NEW root
    PROVE  /\ WalkSteps(root)[0] = WalkStart(root)
           /\ \A n \in 1..MaxChain : WalkSteps(root)[n] = Walk(WalkSteps(root)[n - 1])
  <1>0. MaxChain \in Nat
    BY ChainsFit
  <1>1. Follows(WalkSteps(root), root, MaxChain)
    <2>1. WalkSteps(root) = CHOOSE f : Follows(f, root, MaxChain)
      BY DEF WalkSteps, Follows
    <2> QED
      BY <2>1, FollowsExist
  <1> DEFINE f == WalkSteps(root)
  <1> HIDE DEF f
  <1>2. f = [i \in 0..MaxChain |-> IF i = 0 THEN WalkStart(root) ELSE Walk(f[i - 1])]
    BY <1>1 DEF Follows, f
  <1>3. 0 \in 0..MaxChain /\ \A n \in 1..MaxChain : n \in 0..MaxChain /\ n # 0
    BY <1>0
  <1>4. \A i \in 0..MaxChain : f[i] = IF i = 0 THEN WalkStart(root) ELSE Walk(f[i - 1])
    BY <1>2
  <1> QED
    BY <1>3, <1>4 DEF f

-----------------------------------------------------------------------------
(* The chain the walk is on.                                               *)

\* A result that application code enqueued is never somebody's retry.
RootsAreFirst == \A r \in Roots : tparent[r] = None

\* Insert draws its id outside of Roots.
LEMMA RootsStayFirst == Spec => []RootsAreFirst
  <1>1. Init => RootsAreFirst
    BY TaskAssumption DEF Init, RootsAreFirst
  <1>2. ASSUME IInv, RootsAreFirst, [Next]_vars PROVE RootsAreFirst'
    <2>1. CASE UNCHANGED tparent
      BY <1>2, <2>1 DEF RootsAreFirst
    <2>2. ASSUME NEW t \in Threads, Insert(t) PROVE RootsAreFirst'
      BY <1>2, <2>2, TaskAssumption DEF Insert, RootsAreFirst, IInv, TypeOK, attVars
    <2>3. UNCHANGED tparent \/ \E t \in Threads : Insert(t)
      BY <1>2 DEF Next, vars, attVars, WriteOutcome, Succeed, Fail, ForceStop, StopEscapes, StopOverturns, Enqueue, StartWorker,
           EnterLoop, Claim, StopSignal, MarkStopped, Exit, Crash, Beat, BeatFails, GoStale,
           RunCommand, FindLost, Reap, FindMissed, Repair, FindLate, Detect, Prune, Decide, Stamp,
           Cancel, Flag, DbError, GrowOld, Expire
    <2> QED
      BY <2>1, <2>2, <2>3
  <1> QED
    BY <1>1, <1>2, Invariance, PTL DEF Spec

\* A retry and the attempt it replaced are on the same chain, one after the other.
LEMMA RetryFollowsParent ==
    ASSUME IInv, NEW root \in Results, NEW c \in Results, InChain(root, c), tattempt[c] # 1
    PROVE  /\ tparent[c] \in Results /\ InChain(root, tparent[c])
           /\ tattempt[c] = tattempt[tparent[c]] + 1
  <1>1. tparent[c] # None /\ tparent[c] \in Results
    BY DEF IInv, TypeOK, ChainInv
  <1>2. /\ Executed(tparent[c]) /\ troot[c] = troot[tparent[c]]
        /\ tattempt[c] = tattempt[tparent[c]] + 1
    BY <1>1 DEF IInv, ChainInv
  <1>3. Exists(tparent[c])
    BY <1>1, <1>2 DEF IInv, RowInv, Exists
  <1> QED
    BY <1>1, <1>2, <1>3 DEF InChain

\* The attempts of a chain are numbered without a gap.
LEMMA ChainIsDense ==
    ASSUME IInv, NEW root \in Results, NEW c \in Results, InChain(root, c),
           NEW k \in Nat, 1 <= k, k <= tattempt[c]
    PROVE  \E d \in Results : InChain(root, d) /\ tattempt[d] = k
  <1> DEFINE above == {r \in Results : InChain(root, r) /\ k <= tattempt[r]}
             S == {tattempt[r] : r \in above}
  <1>0. \A r \in Results : tattempt[r] \in Nat
    BY DEF IInv, TypeOK
  <1>1. S \subseteq Nat /\ S # {}
    BY <1>0
  <1>2. PICK x \in S : \A y \in S : x <= y
    <2> HIDE DEF S
    <2> QED
      BY <1>1, LeastNumber
  <1>3. PICK d \in Results : InChain(root, d) /\ tattempt[d] = x /\ k <= x
    BY <1>2
  <1>4. ASSUME x # k PROVE FALSE
    <2>1. x \in Nat /\ x # 1 /\ k <= x - 1
      BY <1>0, <1>3, <1>4
    <2>2. /\ tparent[d] \in Results /\ InChain(root, tparent[d])
          /\ x = tattempt[tparent[d]] + 1
      BY <1>3, <2>1, RetryFollowsParent
    <2>3. tattempt[tparent[d]] = x - 1
      BY <1>0, <2>2
    <2>4. x - 1 \in S
      BY <2>1, <2>2, <2>3
    <2> QED
      BY <1>2, <2>1, <2>4
  <1> QED
    BY <1>3, <1>4

\* An attempt with a later one on its chain has the next one as its child.
LEMMA LaterMeansChild ==
    ASSUME IInv, NEW root \in Results, NEW a \in Results, InChain(root, a),
           NEW c \in Results, InChain(root, c), tattempt[a] < tattempt[c]
    PROVE  \E d \in Results : /\ tparent[d] = a /\ InChain(root, d)
                              /\ tattempt[d] = tattempt[a] + 1
  <1>0. tattempt[a] \in Nat /\ tattempt[c] \in Nat /\ tattempt[a] >= 1
    BY DEF IInv, TypeOK, ChainInv
  <1>1. PICK d \in Results : InChain(root, d) /\ tattempt[d] = tattempt[a] + 1
    <2>1. tattempt[a] + 1 \in Nat /\ 1 <= tattempt[a] + 1 /\ tattempt[a] + 1 <= tattempt[c]
      BY <1>0
    <2> QED
      BY <2>1, ChainIsDense
  <1>2. /\ tparent[d] \in Results /\ InChain(root, tparent[d])
        /\ tattempt[d] = tattempt[tparent[d]] + 1
    BY <1>0, <1>1, RetryFollowsParent
  <1>3. tattempt[tparent[d]] = tattempt[a]
    <2>1. tattempt[tparent[d]] \in Nat
      BY <1>2 DEF IInv, TypeOK
    <2> QED
      BY <1>0, <1>1, <1>2, <2>1
  <1>4. tparent[d] = a
    BY <1>2, <1>3 DEF IInv, ChainsAreLinear, InChain
  <1> QED
    BY <1>1, <1>4

\* The budget of a chain is the policy's or was pinned by a caller.
BudgetsFit == \A r \in Results : tmax[r] # None => tmax[r] <= MaxChain

\* Only Enqueue pins a budget, and a retry copies its parent's.
LEMMA BudgetsStayFit == Spec => []BudgetsFit
  <1>1. Init => BudgetsFit
    BY DEF Init, BudgetsFit
  <1>2. ASSUME IInv, BudgetsFit, [Next]_vars PROVE BudgetsFit'
    <2>1. CASE UNCHANGED tmax
      BY <1>2, <2>1 DEF BudgetsFit
    <2>2. ASSUME NEW t \in Threads, Insert(t) PROVE BudgetsFit'
      <3>1. cur[t] \in Results
        BY <1>2, <2>2 DEF IInv, Insert, ThreadInv, TypeOK
      <3> QED
        BY <1>2, <2>2, <3>1 DEF Insert, BudgetsFit, IInv, TypeOK, attVars
    <2>3. ASSUME NEW r \in Roots, NEW pin \in Pins, Enqueue(r, pin) PROVE BudgetsFit'
      BY <1>2, <2>3, ChainsFit DEF Enqueue, BudgetsFit, IInv, TypeOK
    <2>4. \/ UNCHANGED tmax
          \/ \E t \in Threads : Insert(t)
          \/ \E r \in Roots, pin \in Pins : Enqueue(r, pin)
      BY <1>2 DEF Next, vars, attVars, WriteOutcome, Succeed, Fail, ForceStop, StopEscapes, StopOverturns, StartWorker,
           EnterLoop, Claim, StopSignal, MarkStopped, Exit, Crash, Beat, BeatFails, GoStale,
           RunCommand, FindLost, Reap, FindMissed, Repair, FindLate, Detect, Prune, Decide, Stamp,
           Cancel, Flag, DbError, GrowOld, Expire
    <2> QED
      BY <2>1, <2>2, <2>3, <2>4
  <1> QED
    BY <1>1, <1>2, Invariance, PTL DEF Spec

\* So the loop of chain_outcome is long enough for any chain.
LEMMA ChainIsShort ==
    ASSUME IInv, BudgetsFit, NEW c \in Results, Exists(c)
    PROVE  tattempt[c] <= MaxChain
  <1>1. tattempt[c] \in Nat /\ tattempt[c] <= Budget(c) /\ tmax[c] \in (Nat \ {0}) \cup {None}
    BY DEF IInv, TypeOK, ChainsAreLinear
  <1>2. Budget(c) \in Nat /\ Budget(c) <= MaxChain
    BY <1>1, ChainsFit, TaskAssumption DEF Budget, BudgetsFit
  <1> QED
    BY <1>1, <1>2, ChainsFit

-----------------------------------------------------------------------------
\* What the walk knows: it is on the chain, it noted every stamp of a retry that
\* was not cancelled up to where it stands, it moves one attempt at a time, and
\* it stops only before the end if what follows is one cancelled retry.
Seen(root, s, n) ==
    /\ s \in [at : Results, stop : BOOLEAN, forked : BOOLEAN, resurrected : BOOLEAN]
    /\ InChain(root, s.at)
    /\ \A c \in Results :
          InChain(root, c) /\ tattempt[c] <= tattempt[s.at] /\ tcompleted[c] /\ ~tcancelled[c]
          => s.forked
    /\ ~s.stop => tattempt[s.at] = n + 1
    /\ s.stop => \A c \in Results : tparent[c] = s.at => tcancelled[c] /\ ~HasChild(c)

\* The walk starts at the first attempt.
LEMMA SeenAtStart ==
    ASSUME IInv, RootsAreFirst, NEW root \in Roots, Exists(root)
    PROVE  Seen(root, WalkStart(root), 0)
  <1>0. root \in Results /\ tparent[root] = None
    BY TaskAssumption DEF RootsAreFirst
  <1>1. InChain(root, root) /\ tattempt[root] = 1
    BY <1>0 DEF IInv, ChainInv, InChain
  <1>2. ASSUME NEW c \in Results, InChain(root, c), tattempt[c] <= tattempt[root], tcompleted[c]
        PROVE  FALSE
    <2>1. tattempt[c] \in Nat /\ tattempt[c] >= 1
      BY DEF IInv, TypeOK, ChainInv
    <2>2. c = root
      BY <1>0, <1>1, <1>2, <2>1 DEF IInv, ChainsAreLinear, InChain
    <2>3. tparent[c] \in reported
      BY <1>2 DEF IInv, SupersedeInv
    <2> QED
      BY <1>0, <2>2, <2>3, TaskAssumption DEF IInv, TypeOK
  <1>3. WalkStart(root) \in [at : Results, stop : BOOLEAN, forked : BOOLEAN, resurrected : BOOLEAN]
    BY <1>0 DEF WalkStart
  <1>4. WalkStart(root).at = root /\ WalkStart(root).stop = FALSE /\ tattempt[root] = 0 + 1
    BY <1>1 DEF WalkStart
  <1> QED
    BY <1>1, <1>2, <1>3, <1>4 DEF Seen

\* Each iteration keeps that.
LEMMA SeenByWalk ==
    ASSUME IInv, NEW root \in Results, NEW n \in Nat, NEW s, Seen(root, s, n)
    PROVE  Seen(root, Walk(s), n + 1)
  <1> DEFINE Locals == [at : Results, stop : BOOLEAN, forked : BOOLEAN, resurrected : BOOLEAN]
  <1>0. s \in Locals /\ InChain(root, s.at) /\ s.at \in Results
    BY DEF Seen
  <1>t. \A r \in Results : tattempt[r] \in Nat /\ (tparent[r] = None \/ tparent[r] \in Results)
    BY DEF IInv, TypeOK
  <1>1. CASE s.stop \/ ~HasChild(s.at)
    <2>1. Walk(s) = [s EXCEPT !.stop = TRUE]
      BY <1>1 DEF Walk
    <2>2. /\ Walk(s) \in Locals /\ Walk(s).at = s.at /\ Walk(s).stop = TRUE
          /\ Walk(s).forked = s.forked
      BY <1>0, <2>1
    <2>3. \A c \in Results : tparent[c] = s.at => tcancelled[c] /\ ~HasChild(c)
      BY <1>1 DEF Seen, HasChild
    <2> QED
      BY <2>2, <2>3 DEF Seen
  <1>2. CASE ~(s.stop \/ ~HasChild(s.at))
    <2> DEFINE c == ChildOf(s.at)
    <2>1. c \in Results /\ tparent[c] = s.at
      BY <1>2 DEF HasChild, ChildOf
    <2>2. \A d \in Results : tparent[d] = s.at => d = c
      BY <1>0, <2>1, TaskAssumption DEF IInv, ChainInv
    <2>3. InChain(root, c) /\ tattempt[c] = tattempt[s.at] + 1
      <3>1. tparent[c] # None
        BY <1>0, <2>1, TaskAssumption
      <3> QED
        BY <1>0, <2>1, <3>1 DEF IInv, ChainInv, InChain
    <2> HIDE DEF c
    <2>4. CASE tcompleted[c] /\ tcancelled[c] /\ ~HasChild(c)
      <3>1. Walk(s) = [s EXCEPT !.stop = TRUE]
        BY <1>2, <2>4 DEF Walk, c
      <3>2. /\ Walk(s) \in Locals /\ Walk(s).at = s.at /\ Walk(s).stop = TRUE
            /\ Walk(s).forked = s.forked
        BY <1>0, <3>1
      <3>3. \A d \in Results : tparent[d] = s.at => tcancelled[d] /\ ~HasChild(d)
        BY <2>2, <2>4
      <3> QED
        BY <3>2, <3>3 DEF Seen
    <2>5. CASE ~(tcompleted[c] /\ tcancelled[c] /\ ~HasChild(c))
      <3>1. Walk(s) = [at |-> c, stop |-> FALSE,
                       forked |-> s.forked \/ (tcompleted[c] /\ ~tcancelled[c]),
                       resurrected |-> s.resurrected \/ (tcompleted[c] /\ tcancelled[c])]
        BY <1>2, <2>5 DEF Walk, c
      <3>2. /\ Walk(s).at = c /\ Walk(s).stop = FALSE
            /\ Walk(s).forked = (s.forked \/ (tcompleted[c] /\ ~tcancelled[c]))
        BY <3>1
      <3>3. Walk(s) \in Locals
        <4>1. (s.forked \/ (tcompleted[c] /\ ~tcancelled[c])) \in BOOLEAN
          OBVIOUS
        <4>2. (s.resurrected \/ (tcompleted[c] /\ tcancelled[c])) \in BOOLEAN
          OBVIOUS
        <4> QED
          BY <2>1, <3>1, <4>1, <4>2
      <3>4. tattempt[s.at] = n + 1 /\ tattempt[c] = n + 2
        BY <1>2, <2>3 DEF Seen
      <3>5. ASSUME NEW d \in Results, InChain(root, d), tattempt[d] <= tattempt[c],
                   tcompleted[d], ~tcancelled[d]
            PROVE  Walk(s).forked
        <4>1. CASE tattempt[d] <= tattempt[s.at]
          BY <3>2, <3>5, <4>1 DEF Seen
        <4>2. CASE tattempt[d] = tattempt[c]
          <5>1. d = c
            BY <2>1, <2>3, <3>5, <4>2 DEF IInv, ChainsAreLinear, InChain
          <5> QED
            BY <3>2, <3>5, <5>1
        <4>3. tattempt[d] \in Nat /\ tattempt[s.at] \in Nat
          BY <1>0, <1>t
        <4> QED
          BY <2>3, <3>5, <4>1, <4>2, <4>3
      <3>6. tattempt[c] = (n + 1) + 1
        BY <3>4
      <3> DEFINE w == Walk(s)
      <3>7. /\ w.at = c /\ w.stop = FALSE /\ w \in Locals
            /\ \A d \in Results :
                  InChain(root, d) /\ tattempt[d] <= tattempt[c] /\ tcompleted[d] /\ ~tcancelled[d]
                  => w.forked
        BY <3>2, <3>3, <3>5
      <3>8. Seen(root, w, n + 1)
        <4> HIDE DEF w
        <4> QED
          BY <2>3, <3>6, <3>7 DEF Seen
      <3> QED
        BY <3>8
    <2> QED
      BY <2>4, <2>5
  <1> QED
    BY <1>1, <1>2

\* When it is over it has seen the whole chain.
LEMMA WalkSeesChain ==
    ASSUME IInv, RootsAreFirst, BudgetsFit, NEW root \in Roots, Exists(root)
    PROVE  /\ Seen(root, WalkFrom(root), MaxChain)
           /\ \A c \in Results : InChain(root, c) =>
                 tcancelled[c] \/ tattempt[c] <= tattempt[WalkFrom(root).at]
  <1>0. MaxChain \in Nat /\ root \in Results
    BY ChainsFit, TaskAssumption
  <1> DEFINE A == {n \in 0..MaxChain : Seen(root, WalkSteps(root)[n], n)}
  <1>1. 0 \in A
    BY <1>0, SeenAtStart, WalkIterates
  <1>2. ASSUME NEW n \in 0..MaxChain, n < MaxChain, n \in A PROVE n + 1 \in A
    <2>1. n \in Nat /\ n + 1 \in 1..MaxChain /\ n + 1 \in 0..MaxChain /\ (n + 1) - 1 = n
      BY <1>0, <1>2
    <2>2. WalkSteps(root)[n + 1] = Walk(WalkSteps(root)[n])
      BY <2>1, WalkIterates
    <2>3. Seen(root, Walk(WalkSteps(root)[n]), n + 1)
      BY <1>0, <1>2, <2>1, SeenByWalk
    <2> QED
      BY <2>1, <2>2, <2>3
  <1>3. Seen(root, WalkFrom(root), MaxChain)
    <2>1. \A n \in 0..MaxChain : n \in A
      <3> HIDE DEF A
      <3> QED
        BY <1>0, <1>1, <1>2, Climb
    <2>2. MaxChain \in 0..MaxChain
      BY <1>0
    <2> QED
      BY <2>1, <2>2 DEF WalkFrom
  <1> DEFINE s == WalkFrom(root)
  <1> HIDE DEF s
  <1>4. s.at \in Results /\ InChain(root, s.at) /\ tattempt[s.at] \in Nat
    BY <1>3 DEF Seen, s, IInv, TypeOK
  <1>5. s.stop
    <2>1. tattempt[s.at] <= MaxChain
      BY <1>4, ChainIsShort DEF InChain
    <2>2. ~s.stop => tattempt[s.at] = MaxChain + 1
      BY <1>3 DEF Seen, s
    <2> QED
      BY <1>0, <1>4, <2>1, <2>2
  <1>6. ASSUME NEW c \in Results, InChain(root, c), ~(tattempt[c] <= tattempt[s.at])
        PROVE  tcancelled[c]
    <2>1. tattempt[c] \in Nat /\ tattempt[s.at] < tattempt[c]
      BY <1>4, <1>6 DEF IInv, TypeOK
    <2>2. PICK d \in Results : /\ tparent[d] = s.at /\ InChain(root, d)
                               /\ tattempt[d] = tattempt[s.at] + 1
      BY <1>0, <1>4, <1>6, <2>1, LaterMeansChild
    <2>3. tcancelled[d] /\ ~HasChild(d)
      BY <1>3, <1>5, <2>2 DEF Seen, s
    <2>4. ~(tattempt[d] < tattempt[c])
      BY <1>0, <1>6, <2>2, <2>3, LaterMeansChild DEF HasChild
    <2>5. tattempt[c] = tattempt[d]
      BY <1>4, <2>1, <2>2, <2>4
    <2>6. c = d
      BY <1>6, <2>2, <2>5 DEF IInv, ChainsAreLinear, InChain
    <2> QED
      BY <2>3, <2>6
  <1> QED
    BY <1>3, <1>6 DEF s

\* Whatever later attempts were lost, cancelled or retried, chain_outcome tells
\* of every attempt that completed after being replaced by one that ran.
THEOREM ForksAreReported == Spec => []ForkIsReported
  <1>1. IInv /\ RootsAreFirst /\ BudgetsFit => ForkIsReported
    <2> SUFFICES ASSUME IInv, RootsAreFirst, BudgetsFit, NEW root \in Roots, Exists(root),
                        NEW c \in Results, InChain(root, c), tcompleted[c], Executed(c)
                 PROVE  ChainOutcome(root).executed_more_than_once
      BY DEF ForkIsReported
    <2>1. ~tcancelled[c]
      <3>1. tcancelled[c] => rexc[c] = "RetrySuperseded"
        BY DEF IInv, SupersedeInv
      <3>2. rexc[c] = "RetrySuperseded" => ~Executed(c)
        BY TaskAssumption DEF IInv, TypeOK, RowStatus, RowInv
      <3> QED
        BY <3>1, <3>2
    <2>2. WalkFrom(root).forked
      BY <2>1, WalkSeesChain DEF Seen
    <2> QED
      BY <2>2 DEF ChainOutcome
  <1> QED
    BY <1>1, Invariance, RootsStayFirst, BudgetsStayFit, PTL

\* The attempt that chain_outcome reports on is the last of the chain, or the
\* last before one retry that was cancelled: an attempt that ran is never later.
THEOREM OutcomeIsLast ==
    Spec => [](\A root \in Roots : Exists(root) =>
                 \A c \in Results : InChain(root, c) /\ Executed(c) =>
                    tattempt[c] <= tattempt[ChainOutcome(root).at])
  <1> DEFINE Last == \A root \in Roots : Exists(root) =>
                        \A c \in Results : InChain(root, c) /\ Executed(c) =>
                           tattempt[c] <= tattempt[ChainOutcome(root).at]
  <1>1. IInv /\ RootsAreFirst /\ BudgetsFit => Last
    <2> SUFFICES ASSUME IInv, RootsAreFirst, BudgetsFit, NEW root \in Roots, Exists(root),
                        NEW c \in Results, InChain(root, c), Executed(c)
                 PROVE  tattempt[c] <= tattempt[ChainOutcome(root).at]
      OBVIOUS
    <2>1. ~tcancelled[c]
      <3>1. tcancelled[c] => rexc[c] = "RetrySuperseded"
        BY DEF IInv, SupersedeInv
      <3>2. rexc[c] = "RetrySuperseded" => ~Executed(c)
        BY TaskAssumption DEF IInv, TypeOK, RowStatus, RowInv
      <3> QED
        BY <3>1, <3>2
    <2>2. ChainOutcome(root).at = WalkFrom(root).at
      BY DEF ChainOutcome
    <2> QED
      BY <2>1, <2>2, WalkSeesChain
  <1> QED
    BY <1>1, Invariance, RootsStayFirst, BudgetsStayFit, PTL
-----------------------------------------------------------------------------
(* The queue implements AttemptLedger.  A step of the ledger depends on     *)
(* what a thread read some statements ago: that the attempt it is about to  *)
(* repeat is over or was taken for lost, and that the retry it is about to  *)
(* cancel replaces a lost one.                                              *)

\* A thread about to retry saw its row failed.  If it takes the row for lost,
\* the worker may have reported since; otherwise the failure is the worker's
\* own, and stands.
RetryDecided ==
    \A t \in Threads : pc[t] = "insert" =>
        /\ rstatus[cur[t]] \in {"SUCCESSFUL", "FAILED"}
        /\ dcause[t] = "lost" \/ (cur[t] \in reported /\ rstatus[cur[t]] = "FAILED")

\* An attempt is repeated as lost, or because of a failure that its worker
\* reported and that stands: the retry of a task that succeeded is always one
\* that a reaper asked for (_decide, _classify).
RetryJustified ==
    \A c \in Results : tparent[c] # None =>
        tcause[c] = "lost" \/ (tparent[c] \in reported /\ rstatus[tparent[c]] = "FAILED")

\* Only the retry of a lost attempt is stamped.
StampedIsLost == \A c \in Results : tcompleted[c] => tcause[c] = "lost"

\* What any step does to rows that are over, and to what a retry says of itself.
LEMMA OverStays ==
    ASSUME IInv, [Next]_vars
    PROVE  /\ \A r \in Results : rstatus[r] \in {"SUCCESSFUL", "FAILED"} =>
                 rstatus'[r] \in {"SUCCESSFUL", "FAILED"}
           /\ UNCHANGED <<tparent, tcause>> \/ \E t \in Threads : Insert(t)
           /\ UNCHANGED tcompleted \/ \E t \in Threads : Stamp(t)
  <1> DEFINE Stays == \A r \in Results : rstatus[r] \in {"SUCCESSFUL", "FAILED"} =>
                          rstatus'[r] \in {"SUCCESSFUL", "FAILED"}
  <1> USE ThreadFacts DEF IInv
  <1>1. ASSUME UNCHANGED rstatus PROVE Stays
    BY <1>1
  <1>2. ASSUME NEW r \in Roots, NEW pin \in Pins, Enqueue(r, pin) PROVE Stays
    BY <1>2, TaskAssumption DEF Enqueue, TypeOK
  <1>3. ASSUME NEW w \in Workers, NEW r \in Results, Claim(w, r) PROVE Stays
    BY <1>3 DEF Claim, TypeOK
  <1>4. ASSUME NEW w \in Workers, Succeed(w) \/ ForceStop(w) \/ \E e \in Raised : Fail(w, e)
        PROVE  Stays
    BY <1>4 DEF Succeed, ForceStop, Fail, WriteOutcome, TypeOK
  <1>5. ASSUME NEW p \in Procs, Reap(p) PROVE Stays
    BY <1>5 DEF Reap, TypeOK
  <1>s. ASSUME NEW w \in Workers, StopOverturns(w) PROVE Stays
    BY <1>s DEF StopOverturns, TypeOK
  <1>6. ASSUME NEW t \in Threads, Insert(t) \/ Cancel(t) PROVE Stays
    BY <1>6 DEF Insert, Cancel, rowVars, TypeOK
  <1>7. Stays
    BY <1>1, <1>2, <1>3, <1>4, <1>5, <1>6, <1>s
       DEF Next, vars, rowVars, StartWorker, EnterLoop, StopSignal, StopEscapes,
           MarkStopped, Exit, Crash, Beat, BeatFails, GoStale, RunCommand, FindLost,
           FindMissed, Repair, FindLate, Detect, Prune, Decide, Stamp, Flag,
           DbError, GrowOld, Expire
  <1>8. UNCHANGED <<tparent, tcause>> \/ \E t \in Threads : Insert(t)
    BY DEF Next, vars, attVars, WriteOutcome, Succeed, Fail, ForceStop, StopEscapes, StopOverturns, Enqueue, StartWorker, EnterLoop,
           Claim, StopSignal, MarkStopped, Exit, Crash, Beat, BeatFails, GoStale, RunCommand,
           FindLost, Reap, FindMissed, Repair, FindLate, Detect, Prune, Decide, Stamp, Cancel,
           Flag, DbError, GrowOld, Expire
  <1>9. UNCHANGED tcompleted \/ \E t \in Threads : Stamp(t)
    BY DEF Next, vars, attVars, WriteOutcome, Succeed, Fail, ForceStop, StopEscapes, StopOverturns, Enqueue, StartWorker, EnterLoop,
           Claim, StopSignal, MarkStopped, Exit, Crash, Beat, BeatFails, GoStale, RunCommand,
           FindLost, Reap, FindMissed, Repair, FindLate, Detect, Prune, Decide, Insert, Cancel,
           Flag, DbError, GrowOld, Expire
  <1> QED
    BY <1>7, <1>8, <1>9

\* What a thread decided on stays true until it inserts.
LEMMA RetryDecidedStep ==
    ASSUME IInv, Executing, RetryDecided, [Next]_vars
    PROVE  RetryDecided'
  <1> USE TaskAssumption, ThreadFacts DEF IInv
  <1>1. SUFFICES ASSUME NEW t \in Threads, pc'[t] = "insert"
                 PROVE  /\ rstatus'[cur'[t]] \in {"SUCCESSFUL", "FAILED"}
                        /\ \/ dcause'[t] = "lost"
                           \/ cur'[t] \in reported' /\ rstatus'[cur'[t]] = "FAILED"
    BY DEF RetryDecided
  <1>2. CASE Decide(t)
    <2> DEFINE r == cur[t]
    <2>1. r \in Results
      BY <1>2 DEF Decide, ThreadInv, TypeOK
    <2>2. ~GoesBack(t, Returns(t))
      BY <1>1, ReturnFacts, GoesBackFacts DEF BackPCs
    <2>3. /\ Decides(r, AskedCause(t)) /\ cur'[t] = r
          /\ dcause'[t] = Classify(r, AskedCause(t))
      BY <1>2, <2>1, <2>2 DEF Decide, TypeOK
    <2>4. rstatus[r] = "FAILED" /\ rexc[r] # "RetrySuperseded"
      BY <2>3 DEF Decides
    <2>5. rexc[r] = "WorkerLost" \/ r \in reported
      BY <2>1, <2>4 DEF RowInv
    <2>6. UNCHANGED <<rstatus, reported>>
      BY <1>2 DEF Decide, rowVars
    <2> QED
      BY <2>3, <2>4, <2>5, <2>6 DEF Classify
  <1>3. CASE pc[t] = "insert" /\ cur'[t] = cur[t] /\ dcause'[t] = dcause[t]
    <2>1. cur[t] \in Results
      BY <1>3 DEF ThreadInv, TypeOK
    <2>2. /\ rstatus[cur[t]] \in {"SUCCESSFUL", "FAILED"}
          /\ dcause[t] = "lost" \/ (cur[t] \in reported /\ rstatus[cur[t]] = "FAILED")
      BY <1>3 DEF RetryDecided
    <2>3. rstatus'[cur[t]] \in {"SUCCESSFUL", "FAILED"}
      BY <2>1, <2>2, OverStays
    <2>4. cur[t] \in reported /\ rstatus[cur[t]] = "FAILED"
            => cur[t] \in reported' /\ rstatus'[cur[t]] = "FAILED"
      BY FailuresStand
    <2> QED
      BY <1>3, <2>2, <2>3, <2>4
  <1> QED
    BY <1>1, <1>2, <1>3, RowSteps DEF Steady

\* What Insert writes: the retry of the row its thread decided on.
LEMMA InsertFacts ==
    ASSUME IInv, NEW t \in Threads, Insert(t), ~UNCHANGED <<tparent, tcause>>
    PROVE  /\ cur[t] \in Results /\ ~HasChild(cur[t])
           /\ \E n \in Results \ Roots :
                 /\ rstatus[n] = "NONE"
                 /\ rstatus' = [rstatus EXCEPT ![n] = "READY"]
                 /\ tparent' = [tparent EXCEPT ![n] = cur[t]]
                 /\ tattempt' = [tattempt EXCEPT ![n] = tattempt[cur[t]] + 1]
                 /\ tcause' = [tcause EXCEPT ![n] = dcause[t]]
                 /\ tmax' = [tmax EXCEPT ![n] = tmax[cur[t]]]
           /\ UNCHANGED <<rexc, tcompleted, reported>>
  <1>1. cur[t] \in Results
    BY DEF IInv, Insert, ThreadInv, TypeOK
  <1> QED
    BY <1>1 DEF Insert, attVars

\* Insert writes what its thread decided; a standing failure stays.
LEMMA RetryJustifiedStep ==
    ASSUME IInv, Executing, RetryDecided, RetryJustified, [Next]_vars
    PROVE  RetryJustified'
  <1> USE TaskAssumption, ThreadFacts DEF IInv
  <1>1. SUFFICES ASSUME NEW c \in Results, tparent'[c] # None
                 PROVE  \/ tcause'[c] = "lost"
                        \/ tparent'[c] \in reported' /\ rstatus'[tparent'[c]] = "FAILED"
    BY DEF RetryJustified
  <1>2. CASE tparent'[c] = tparent[c] /\ tcause'[c] = tcause[c]
    BY <1>1, <1>2, FailuresStand DEF RetryJustified
  <1>3. ASSUME NEW t \in Threads, Insert(t), ~UNCHANGED <<tparent, tcause>>
        PROVE  \/ tcause'[c] = "lost"
               \/ tparent'[c] \in reported' /\ rstatus'[tparent'[c]] = "FAILED"
    <2>1. PICK n \in Results \ Roots :
             /\ tparent' = [tparent EXCEPT ![n] = cur[t]]
             /\ tcause' = [tcause EXCEPT ![n] = dcause[t]]
      BY <1>3, InsertFacts
    <2>2. CASE c # n
      BY <1>2, <2>1, <2>2 DEF TypeOK
    <2>3. CASE c = n
      <3>1. tparent'[c] = cur[t] /\ tcause'[c] = dcause[t]
        BY <2>1, <2>3 DEF TypeOK
      <3>2. dcause[t] = "lost" \/ (cur[t] \in reported /\ rstatus[cur[t]] = "FAILED")
        BY <1>3 DEF Insert, RetryDecided
      <3> QED
        BY <3>1, <3>2, FailuresStand
    <2> QED
      BY <2>2, <2>3
  <1> QED
    BY <1>2, <1>3, OverStays

\* Insert makes an unstamped row; Stamp looks for a lost child.
LEMMA StampedIsLostStep ==
    ASSUME IInv, StampedIsLost, [Next]_vars
    PROVE  StampedIsLost'
  <1> USE TaskAssumption, ThreadFacts DEF IInv
  <1>1. CASE UNCHANGED <<tcause, tcompleted>>
    BY <1>1 DEF StampedIsLost
  <1>2. ASSUME NEW t \in Threads, Stamp(t) PROVE StampedIsLost'
    BY <1>2 DEF Stamp, UnstampedLostChild, StampedIsLost, TypeOK
  <1>3. ASSUME NEW t \in Threads, Insert(t), ~UNCHANGED <<tparent, tcause>>
        PROVE  StampedIsLost'
    <2>1. PICK n \in Results \ Roots :
             rstatus[n] = "NONE" /\ tcause' = [tcause EXCEPT ![n] = dcause[t]]
      BY <1>3, InsertFacts
    <2>2. UNCHANGED tcompleted
      BY <1>3, InsertFacts
    <2>3. ~tcompleted[n]
      BY <2>1 DEF RowInv, SupersedeInv, TypeOK
    <2> QED
      BY <2>1, <2>2, <2>3 DEF StampedIsLost, TypeOK
  <1> QED
    BY <1>1, <1>2, <1>3, OverStays

\* The three conjuncts hold throughout.
LEMMA RetryInvariance == Spec => [](Executing /\ RetryDecided /\ RetryJustified /\ StampedIsLost)
  <1>1. Init => RetryDecided /\ RetryJustified /\ StampedIsLost
    BY ThreadFacts, TaskAssumption DEF Init, RetryDecided, RetryJustified, StampedIsLost
  <1>2. ASSUME IInv, Executing, RetryDecided /\ RetryJustified /\ StampedIsLost, [Next]_vars
        PROVE  (RetryDecided /\ RetryJustified /\ StampedIsLost)'
    BY <1>2, RetryDecidedStep, RetryJustifiedStep, StampedIsLostStep
  <1> QED
    BY <1>1, <1>2, Invariance, PinInvariance, PTL DEF Spec

\* A task that succeeded is run again only when its worker had been taken for
\* lost; any other retry follows a failure that its worker reported and that
\* nobody changed (maybe_retry, with the row read before the insert).
THEOREM RetriesAreJustified == Spec => []RetryJustified
  BY RetryInvariance, PTL

\* The initial states are those of the ledger.
LEMMA LedgerInitialised == Init => Ledger!LedgerInit
  BY TaskAssumption DEF Init, Ledger!LedgerInit, Phase, Budget

\* A step that leaves status, exception and chain alone is a stutter.
LEMMA LedgerStutters ==
    ASSUME UNCHANGED <<rstatus, rexc, tparent, tcause, tattempt, tmax>>
    PROVE  UNCHANGED Ledger!ledgerVars
  BY DEF Ledger!ledgerVars, Phase, Budget

\* The phases of a row the invariant knows.
LEMMA PhaseFacts ==
    ASSUME IInv, NEW r \in Results
    PROVE  /\ rstatus[r] \in {"NONE", "READY", "RUNNING", "SUCCESSFUL"} => Phase(r) = rstatus[r]
           /\ r \in reported => Phase(r) = rstatus[r] /\ rstatus[r] \in {"SUCCESSFUL", "FAILED"}
           /\ Executed(r) /\ r \notin reported => Phase(r) \in {"RUNNING", "LOST"}
           /\ Executed(r) /\ rstatus[r] = "FAILED" => Phase(r) \in {"LOST", "FAILED"}
  <1>1. rstatus[r] \in RowStatus
    BY DEF IInv, TypeOK
  <1> QED
    BY <1>1 DEF IInv, RowInv, RowStatus, Phase

\* A step that rewrites one row and no chain moves the phase of that row only.
LEMMA OnePhaseMoves ==
    ASSUME TypeOK, NEW r \in Results, NEW s \in RowStatus, NEW e \in ExcPath,
           rstatus' = [rstatus EXCEPT ![r] = s],
           rexc' = [rexc EXCEPT ![r] = e]
    PROVE  [q \in Results |-> Phase(q)]' =
               [[q \in Results |-> Phase(q)] EXCEPT ![r] =
                   IF s = "FAILED" /\ e = "WorkerLost" THEN "LOST"
                   ELSE IF s = "FAILED" /\ e = "RetrySuperseded" THEN "CANCELLED"
                   ELSE s]
  <1>1. \A q \in Results : q # r => rstatus'[q] = rstatus[q] /\ rexc'[q] = rexc[q]
    BY DEF TypeOK
  <1>2. rstatus'[r] = s /\ rexc'[r] = e
    BY DEF TypeOK
  <1>3. ASSUME NEW q \in Results, q # r PROVE Phase(q)' = Phase(q)
    BY <1>1, <1>3 DEF Phase
  <1>4. Phase(r)' = IF s = "FAILED" /\ e = "WorkerLost" THEN "LOST"
                    ELSE IF s = "FAILED" /\ e = "RetrySuperseded" THEN "CANCELLED"
                    ELSE s
    BY <1>2 DEF Phase
  <1> QED
    BY <1>3, <1>4

\* Enqueuing is accepting a task under its limit.
LEMMA EnqueueAccepts ==
    ASSUME IInv, NEW r \in Roots, NEW pin \in Pins, Enqueue(r, pin)
    PROVE  Ledger!LedgerNext
  <1> USE TaskAssumption DEF IInv
  <1> DEFINE l == IF pin # None THEN pin ELSE PolicyAttempts
  <1>1. r \in Results /\ rstatus[r] = "NONE" /\ Phase(r) = "NONE" /\ rexc[r] = None
    BY DEF Enqueue, RowInv, Phase
  <1>2. [q \in Results |-> Phase(q)]' = [[q \in Results |-> Phase(q)] EXCEPT ![r] = "READY"]
    BY <1>1 DEF Enqueue, Phase, TypeOK
  <1>3. [q \in Results |-> Budget(q)]' = [[q \in Results |-> Budget(q)] EXCEPT ![r] = l]
    BY <1>1 DEF Enqueue, Budget, TypeOK
  <1>4. Ledger!Accept(r, l)
    BY <1>1, <1>2, <1>3 DEF Enqueue, Ledger!Accept
  <1> QED
    BY <1>4 DEF Ledger!LedgerNext

\* A claim starts an attempt.
LEMMA ClaimStarts ==
    ASSUME IInv, NEW w \in Workers, NEW r \in Results, Claim(w, r)
    PROVE  Ledger!LedgerNext
  <1> USE TaskAssumption DEF IInv
  <1>1. Phase(r) = "READY" /\ rexc[r] = None
    BY DEF Claim, RowInv, Phase
  <1>2. [q \in Results |-> Phase(q)]' = [[q \in Results |-> Phase(q)] EXCEPT ![r] = "RUNNING"]
    BY <1>1 DEF Claim, Phase, TypeOK
  <1>3. [q \in Results |-> Budget(q)]' = [q \in Results |-> Budget(q)]
    BY DEF Claim, attVars, Budget
  <1>4. Ledger!Start(r)
    BY <1>1, <1>2, <1>3 DEF Claim, attVars, Ledger!Start
  <1> QED
    BY <1>4 DEF Ledger!LedgerNext

\* The worker's unconditional UPDATE reports an attempt that runs or is lost.
LEMMA WriteReports ==
    ASSUME IInv, Executing, NEW w \in Workers, NEW s \in {"SUCCESSFUL", "FAILED"}, NEW e \in ExcPath,
           e \notin {"WorkerLost", "RetrySuperseded"}, WriteOutcome(w, s, e)
    PROVE  Ledger!LedgerNext
  <1> USE ThreadFacts DEF IInv
  <1> DEFINE r == cur[Main(w)]
  <1>1. r \in Results /\ Executed(r) /\ r \notin reported
    BY DEF WriteOutcome, ThreadInv, TypeOK, Executing
  <1>2. Phase(r) \in {"RUNNING", "LOST"}
    BY <1>1, PhaseFacts
  <1>3. [q \in Results |-> Phase(q)]' = [[q \in Results |-> Phase(q)] EXCEPT ![r] = s]
    <2>1. rstatus' = [rstatus EXCEPT ![r] = s] /\ rexc' = [rexc EXCEPT ![r] = e]
      BY DEF WriteOutcome
    <2>2. \A q \in Results : q # r => rstatus'[q] = rstatus[q] /\ rexc'[q] = rexc[q]
      BY <2>1 DEF TypeOK
    <2>3. rstatus'[r] = s /\ rexc'[r] = e
      BY <1>1, <2>1 DEF TypeOK
    <2> QED
      BY <1>1, <2>2, <2>3 DEF Phase
  <1>4. [q \in Results |-> Budget(q)]' = [q \in Results |-> Budget(q)]
    BY DEF WriteOutcome, attVars, Budget
  <1>5. Ledger!Report(r, s)
    BY <1>1, <1>2, <1>3, <1>4 DEF WriteOutcome, attVars, Ledger!Report
  <1> QED
    BY <1>1, <1>5 DEF Ledger!LedgerNext

\* A forced stop in the receiver of a success overturns it.
LEMMA StopsOverturn ==
    ASSUME IInv, NEW w \in Workers, StopOverturns(w)
    PROVE  Ledger!LedgerNext
  <1> USE ThreadFacts DEF IInv
  <1> DEFINE r == cur[Main(w)]
  <1>1. /\ r \in Results /\ rstatus[r] = "SUCCESSFUL"
        /\ rstatus' = [rstatus EXCEPT ![r] = "FAILED"]
        /\ rexc' = [rexc EXCEPT ![r] = "SystemExit"]
        /\ UNCHANGED <<tparent, tcause, tattempt, tmax>>
    BY DEF StopOverturns, ThreadInv, TypeOK
  <1> HIDE DEF r
  <1>2. Phase(r) = "SUCCESSFUL"
    BY <1>1 DEF Phase
  <1>3. [q \in Results |-> Phase(q)]' = [[q \in Results |-> Phase(q)] EXCEPT ![r] = "FAILED"]
    BY <1>1, OnePhaseMoves DEF RowStatus, ExcPath
  <1>4. [q \in Results |-> Budget(q)]' = [q \in Results |-> Budget(q)]
    BY <1>1 DEF Budget
  <1>5. Ledger!Overturn(r)
    BY <1>1, <1>2, <1>3, <1>4 DEF Ledger!Overturn
  <1> QED
    BY <1>1, <1>5 DEF Ledger!LedgerNext

\* The reaper's UPDATE gives up a running attempt, or hits nothing.
LEMMA ReapGivesUp ==
    ASSUME IInv, NEW p \in Procs, Reap(p)
    PROVE  Ledger!LedgerNext \/ UNCHANGED Ledger!ledgerVars
  <1> USE ThreadFacts DEF IInv
  <1>1. PICK r \in todo[Sweep(p)] :
            \/ /\ rstatus[r] = "RUNNING"
               /\ rstatus' = [rstatus EXCEPT ![r] = "FAILED"]
               /\ rexc' = [rexc EXCEPT ![r] = "WorkerLost"]
            \/ UNCHANGED <<rstatus, rexc>>
    BY DEF Reap, Reapable
  <1>2. r \in Results /\ UNCHANGED attVars
    BY DEF Reap, TypeOK
  <1>3. CASE UNCHANGED <<rstatus, rexc>>
    BY <1>2, <1>3, LedgerStutters DEF attVars
  <1>4. CASE /\ rstatus[r] = "RUNNING"
             /\ rstatus' = [rstatus EXCEPT ![r] = "FAILED"]
             /\ rexc' = [rexc EXCEPT ![r] = "WorkerLost"]
    <2>1. Phase(r) = "RUNNING"
      BY <1>4 DEF Phase
    <2>2. [q \in Results |-> Phase(q)]' = [[q \in Results |-> Phase(q)] EXCEPT ![r] = "LOST"]
      BY <1>2, <1>4, OnePhaseMoves DEF RowStatus, ExcPath
    <2>3. [q \in Results |-> Budget(q)]' = [q \in Results |-> Budget(q)]
      BY <1>2 DEF attVars, Budget
    <2>4. Ledger!GiveUp(r)
      BY <1>2, <2>1, <2>2, <2>3 DEF attVars, Ledger!GiveUp
    <2> QED
      BY <1>2, <2>4 DEF Ledger!LedgerNext
  <1> QED
    BY <1>1, <1>3, <1>4

\* The cancel withdraws the unstarted replacement of an attempt that came back.
LEMMA CancelWithdraws ==
    ASSUME IInv, StampedIsLost, NEW t \in Threads, Cancel(t)
    PROVE  Ledger!LedgerNext \/ UNCHANGED Ledger!ledgerVars
  <1> USE TaskAssumption DEF IInv
  <1>1. UNCHANGED attVars
    BY DEF Cancel
  <1>2. CASE UNCHANGED <<rstatus, rexc>>
    BY <1>1, <1>2, LedgerStutters DEF attVars
  <1>3. CASE ~UNCHANGED <<rstatus, rexc>>
    <2>1. PICK c \in Results :
              /\ tparent[c] = cur[t] /\ rstatus[c] = "READY"
              /\ rstatus' = [rstatus EXCEPT ![c] = "FAILED"]
              /\ rexc' = [rexc EXCEPT ![c] = "RetrySuperseded"]
      BY <1>3 DEF Cancel, Cancellable
    <2>2. cur[t] \in Results /\ cur[t] \in reported
      BY DEF Cancel, ThreadInv, TypeOK
    <2>3. tcompleted[c]
      <3>1. PICK d \in Results : tparent[d] = cur[t] /\ tcompleted[d]
        BY DEF Cancel, SupersedeInv
      <3> QED
        BY <2>1, <2>2, <3>1 DEF ChainInv
    <2>4. tcause[c] = "lost" /\ Phase(tparent[c]) \in {"SUCCESSFUL", "FAILED"}
      BY <2>1, <2>2, <2>3, PhaseFacts DEF StampedIsLost
    <2>5. Phase(c) = "READY"
      BY <2>1 DEF Phase
    <2>6. [q \in Results |-> Phase(q)]' =
              [[q \in Results |-> Phase(q)] EXCEPT ![c] = "CANCELLED"]
      BY <2>1, OnePhaseMoves DEF RowStatus, ExcPath
    <2>7. [q \in Results |-> Budget(q)]' = [q \in Results |-> Budget(q)]
      BY <1>1 DEF attVars, Budget
    <2>8. Ledger!Withdraw(c)
      BY <1>1, <2>1, <2>2, <2>4, <2>5, <2>6, <2>7 DEF attVars, Ledger!Withdraw
    <2> QED
      BY <2>8 DEF Ledger!LedgerNext
  <1> QED
    BY <1>2, <1>3

\* The transaction of maybe_retry repeats an attempt, or is rolled back.
LEMMA InsertRepeats ==
    ASSUME IInv, RetryDecided, NEW t \in Threads, Insert(t)
    PROVE  Ledger!LedgerNext \/ UNCHANGED Ledger!ledgerVars
  <1> USE TaskAssumption DEF IInv
  <1> DEFINE r == cur[t]
  <1>1. CASE HasChild(r)
    BY <1>1, LedgerStutters DEF Insert, rowVars, attVars
  <1>2. CASE ~HasChild(r)
    <2>1. /\ r \in Results /\ Executed(r) /\ tattempt[r] < Budget(r)
          /\ dcause[t] \in Cause
      BY DEF Insert, ThreadInv, TypeOK
    <2>2. PICK n \in Results \ Roots :
             /\ rstatus[n] = "NONE"
             /\ rstatus' = [rstatus EXCEPT ![n] = "READY"]
             /\ tparent' = [tparent EXCEPT ![n] = r]
             /\ tattempt' = [tattempt EXCEPT ![n] = tattempt[r] + 1]
             /\ tcause' = [tcause EXCEPT ![n] = dcause[t]]
             /\ tmax' = [tmax EXCEPT ![n] = tmax[r]]
      BY <1>2 DEF Insert
    <2>3. UNCHANGED rexc
      BY <1>2 DEF Insert
    <2>4. \/ dcause[t] = "lost" /\ Phase(r) \in {"LOST", "SUCCESSFUL", "FAILED"}
          \/ dcause[t] # "lost" /\ Phase(r) = "FAILED"
      BY <2>1, PhaseFacts DEF Insert, RetryDecided
    <2>5. \A c \in Results : tparent[c] # r
      BY <1>2 DEF HasChild
    <2>6. Phase(n) = "NONE" /\ rexc[n] = None
      BY <2>2 DEF Phase, RowInv
    <2>7. [q \in Results |-> Phase(q)]' = [[q \in Results |-> Phase(q)] EXCEPT ![n] = "READY"]
      BY <2>2, <2>3, <2>6 DEF Phase, TypeOK
    <2>8. [q \in Results |-> Budget(q)]' =
              [[q \in Results |-> Budget(q)] EXCEPT ![n] = Budget(r)]
      BY <2>1, <2>2 DEF Budget, TypeOK
    <2>9. Ledger!Repeat(r, n, dcause[t])
      BY <2>1, <2>2, <2>4, <2>5, <2>6, <2>7, <2>8 DEF Ledger!Repeat
    <2> QED
      BY <2>1, <2>9 DEF Ledger!LedgerNext
  <1> QED
    BY <1>1, <1>2

\* Every step is a step of the ledger or leaves it alone.
LEMMA NextRefinesLedger ==
    IInv /\ Executing /\ RetryDecided /\ StampedIsLost /\ [Next]_vars
        => [Ledger!LedgerNext]_(Ledger!ledgerVars)
  <1> SUFFICES ASSUME IInv, Executing, RetryDecided, StampedIsLost, [Next]_vars
               PROVE  Ledger!LedgerNext \/ UNCHANGED Ledger!ledgerVars
    OBVIOUS
  <1>1. ASSUME UNCHANGED Kept PROVE UNCHANGED Ledger!ledgerVars
    BY <1>1, LedgerStutters DEF Kept
  <1>2. ASSUME NEW w \in Workers, Succeed(w) \/ ForceStop(w) \/ \E e \in Raised : Fail(w, e)
        PROVE  Ledger!LedgerNext
    BY <1>2, WriteReports, TaskAssumption DEF Succeed, ForceStop, Fail, ExcPath
  <1>3. ASSUME NEW t \in Threads, Decide(t) \/ Stamp(t) \/ Flag(t) \/ DbError(t)
        PROVE  UNCHANGED Ledger!ledgerVars
    BY <1>3, LedgerStutters DEF Decide, Stamp, Flag, DbError, rowVars, attVars
  <1> QED
    BY <1>1, <1>2, <1>3, EnqueueAccepts, ClaimStarts, StopsOverturn, ReapGivesUp, CancelWithdraws,
       InsertRepeats, QuietSteps, SweepSteps DEF Next

\* Whatever workers, reapers, sweeps and cancels race, crash or fail half way,
\* the rows of apps/tasks behave as AttemptLedger promises to those who enqueue.
THEOREM QueueImplementsLedger == Spec => LedgerRefined
  BY Invariance, RetryInvariance, LedgerInitialised, NextRefinesLedger, PTL
     DEF Spec, LedgerRefined, Ledger!LedgerSpec
=============================================================================

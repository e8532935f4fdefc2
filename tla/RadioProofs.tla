---------------------------- MODULE RadioProofs -----------------------------
(***************************************************************************)
(* The station's one radio, proved for any number of requests, faults,     *)
(* processes and restarts.                                                 *)
(*                                                                         *)
(* Transmit.  The lock has no owner: that at most one request is at work   *)
(* follows because every request at work holds it (OneTransmission is      *)
(* inductive with its types).  KeyedWhilePlaying then needs mutual         *)
(* exclusion: nobody else can unkey the rig.                               *)
(*                                                                         *)
(* Receiver.  What plays is the process on file, except between Popen and  *)
(* the note of its pid, and then every other one was on the file a         *)
(* _reap_stale has just been through; and nothing that this server process *)
(* spawned outlives its supervision.                                       *)
(***************************************************************************)
EXTENDS Transmit, Receiver, TLAPS

\* Without a fault, a rig is keyed through CAT only under a request with PTT.
KeyHasOwner ==
    linkFaults = 0 /\ deaths = 0 /\ "cat" \in keyed
      => \E r \in Requests : pc[r] \in {"play", "unkey"} /\ usePtt[r]

Inv == TypeOK /\ OneTransmission /\ KeyedWhilePlaying /\ KeyHasOwner

\* Only a request with PTT comes to the steps that key or unkey.
PttSteps == \A r \in Requests : pc[r] \in {"probe", "key", "unkey"} => usePtt[r]

IInv == Inv /\ PttSteps

\* The initial states satisfy the invariant.
LEMMA InitInvariant == Init => IInv
  <1> SUFFICES ASSUME Init PROVE IInv
    OBVIOUS
  <1>1. TypeOK
    <2>1. linkFaults \in 0 .. MaxLinkFaults /\ deaths \in 0 .. MaxDeaths
      BY TransmitAssumption DEF Init
    <2> QED
      BY <2>1, Zenon DEF Init, TypeOK, Labels
  <1>2. OneTransmission /\ KeyedWhilePlaying /\ KeyHasOwner /\ PttSteps
    BY DEF Init, OneTransmission, KeyedWhilePlaying, KeyHasOwner, PttSteps
  <1> QED
    BY <1>1, <1>2 DEF IInv, Inv

\* The steps of a request, failed ones included, keep the invariant.
LEMMA RequestKeeps ==
  ASSUME IInv, NEW r \in Requests,
         Acquire(r) \/ RenderFails(r) \/ Proceed(r) \/ LinkFails(r) \/ AnswerLost(r)
  PROVE  IInv'
  <1> USE TransmitAssumption
  <1> USE DEF IInv, Inv, TypeOK, Labels, OneTransmission, KeyedWhilePlaying, KeyHasOwner,
              PttSteps, Goto, Fail
  <1>1. CASE Acquire(r)
    BY <1>1 DEF Acquire
  <1>2. CASE Render(r)
    BY <1>2 DEF Render
  <1>3. CASE RenderFails(r)
    BY <1>3 DEF RenderFails
  <1>4. CASE Begin(r)
    BY <1>4 DEF Begin
  <1>5. CASE Connect(r)
    BY <1>5 DEF Connect
  <1>6. CASE Probe(r)
    BY <1>6, ZenonT(30) DEF Probe
  <1>7. CASE Key(r)
    BY <1>7 DEF Key
  <1>8. CASE Play(r) \/ PlayFails(r)
    BY <1>8 DEF Play, PlayFails, AfterPlay, AfterFailedPlay
  <1>9. CASE Unkey(r)
    BY <1>9 DEF Unkey
  <1>10. CASE Close(r)
    BY <1>10 DEF Close
  <1>11. CASE Release(r)
    BY <1>11 DEF Release
  <1>12. CASE LinkFails(r)
    BY <1>12 DEF LinkFails, AfterRigError
  <1>13. CASE AnswerLost(r)
    BY <1>13 DEF AnswerLost, AfterRigError
  <1> QED
    BY <1>1, <1>2, <1>3, <1>4, <1>5, <1>6, <1>7, <1>8, <1>9, <1>10, <1>11, <1>12, <1>13 DEF Proceed

\* Every step keeps the invariant.
LEMMA NextInvariant == IInv /\ [Next]_vars => IInv'
  <1> SUFFICES ASSUME IInv, [Next]_vars PROVE IInv'
    OBVIOUS
  <1>1. CASE Restart
    <2>1. pc' = [r \in Requests |-> "idle"] /\ deaths' \in 0 .. MaxDeaths /\ deaths' # 0
      BY <1>1, TransmitAssumption DEF Restart, IInv, Inv, TypeOK
    <2>2. TypeOK'
      <3>1. pc' \in [Requests -> Labels]
        BY <2>1 DEF Labels
      <3> QED
        BY <1>1, <2>1, <3>1 DEF Restart, IInv, Inv, TypeOK
    <2>3. OneTransmission' /\ KeyedWhilePlaying' /\ KeyHasOwner' /\ PttSteps'
      BY <2>1 DEF OneTransmission, KeyedWhilePlaying, KeyHasOwner, PttSteps
    <2> QED
      BY <2>2, <2>3 DEF IInv, Inv
  <1>2. CASE Hand
    BY <1>2 DEF Hand, IInv, Inv, TypeOK, OneTransmission, KeyedWhilePlaying, KeyHasOwner, PttSteps
  <1>3. CASE UNCHANGED vars
    BY <1>3 DEF vars, IInv, Inv, TypeOK, OneTransmission, KeyedWhilePlaying, KeyHasOwner, PttSteps
  <1> QED
    BY <1>1, <1>2, <1>3, RequestKeeps DEF Next

\* The invariant holds always.
THEOREM TransmitInvariant == Spec => []IInv
  BY InitInvariant, NextInvariant, PTL DEF Spec

\* transmit_session lets one request at a time through.
THEOREM OneAtATime == Spec => []OneTransmission
  <1>1. IInv => OneTransmission
    BY DEF IInv, Inv
  <1> QED
    BY <1>1, TransmitInvariant, PTL

\* The rig is keyed while a session plays, in spite of link faults, restarts
\* and the operator's hand.
THEOREM AudioIsKeyed == Spec => []KeyedWhilePlaying
  <1>1. IInv => KeyedWhilePlaying
    BY DEF IInv, Inv
  <1> QED
    BY <1>1, TransmitInvariant, PTL

\* Until the first fault the rig is keyed only by a transmission at work.
THEOREM KeyIsOwned == Spec => []KeyedOnlyInTransmission
  <1>1. IInv => KeyedOnlyInTransmission
    BY DEF IInv, Inv, KeyHasOwner, KeyedOnlyInTransmission
  <1> QED
    BY <1>1, TransmitInvariant, PTL

-----------------------------------------------------------------------------
\* An operation that supervises a new rtl_fm knows its pid, a survey that
\* sweeps has a band left.
SupervisedIsNamed ==
    /\ radioOp.pc \in {"record", "settle", "audio", "silent"} => tracked \in Procs
    /\ radioOp.pc = "clear" => tracked = Nobody
    /\ survey.pc = "sweeping" => survey.left > 0

\* The processes no supervision accounts for: never on file, or not killed.
Lost == orphans \cup spared

\* Who is playing: the one on file, except between a spawn and the note of its
\* pid, when nobody else is but the lost; and a spawn begins with the one on
\* file reaped or lost.
PlayingIsOnFile ==
    /\ radioOp.pc # "record" => alive \subseteq {pidfile} \cup Lost
    /\ radioOp.pc = "record" => alive \subseteq {tracked} \cup Lost
    /\ radioOp.pc = "spawn" => (pidfile \in alive => pidfile \in {tracked} \cup Lost)

\* Of what this server process spawned, only the supervised one is alive.
OwnIsSupervised == alive \ inherited \subseteq {tracked}

ReceiverInv == ReceiverTypeOK /\ SupervisedIsNamed /\ PlayingIsOnFile /\ OwnIsSupervised

-----------------------------------------------------------------------------
OpPCs == {"idle", "stop", "clear", "sweep", "sweeping", "reap", "spawn", "record", "settle",
          "audio", "silent"}

\* Nobody is not a pid.
LEMMA NobodyIsNoProcess == 0 \notin Procs /\ Nobody = 0
  BY DEF Procs, Nobody

\* The initial states satisfy the invariant.
LEMMA ReceiverInitially == ReceiverInit => ReceiverInv
  <1> SUFFICES ASSUME ReceiverInit PROVE ReceiverInv
    OBVIOUS
  <1>1. /\ 0 \in 0 .. MaxProcs /\ 0 \in 0 .. MaxRestarts /\ 0 \in 0 .. SurveyBands
    BY ReceiverAssumption
  <1>2. ReceiverTypeOK
    BY <1>1 DEF ReceiverInit, ReceiverTypeOK, NoOp, NoSurvey
  <1>3. SupervisedIsNamed /\ PlayingIsOnFile /\ OwnIsSupervised
    BY DEF ReceiverInit, SupervisedIsNamed, PlayingIsOnFile, OwnIsSupervised, NoOp, NoSurvey
  <1> QED
    BY <1>2, <1>3 DEF ReceiverInv

\* The invariant's types, one by one.
LEMMA ReceiverTypes ==
  ASSUME ReceiverInv
  PROVE  /\ alive \subseteq Procs /\ spawned \in 0 .. MaxProcs
         /\ dongle \in Procs \cup {Nobody, SeekSweep, SurveySweep}
         /\ tracked \in Procs \cup {Nobody} /\ pidfile \in Procs \cup {Nobody}
         /\ radioOp = [kind |-> radioOp.kind, pc |-> radioOp.pc] /\ radioOp.pc \in OpPCs
         /\ radioOp.kind \in {"none", "start", "stop", "retune", "seek"}
         /\ pumps \in [Procs -> {"none", "opening", "reading", "ended"}]
         /\ sinkOpen \in BOOLEAN /\ sinkGone \in BOOLEAN
         /\ heard \subseteq Procs /\ started \subseteq Procs /\ orphans \subseteq Procs
         /\ spared \subseteq Procs /\ inherited \subseteq Procs
         /\ \A gone : Freed(gone) \in Procs \cup {Nobody, SeekSweep, SurveySweep}
  BY DEF ReceiverInv, ReceiverTypeOK, OpPCs, Freed

\* The step of an operation: what is left to show is about the processes.
LEMMA OpStepKeeps ==
  ASSUME ReceiverInv, NEW kind \in {"none", "start", "stop", "retune", "seek"}, NEW place \in OpPCs,
         radioOp' = [kind |-> kind, pc |-> place],
         alive' \subseteq Procs, spawned' \in 0 .. MaxProcs,
         dongle' \in Procs \cup {Nobody, SeekSweep, SurveySweep},
         tracked' \in Procs \cup {Nobody}, pidfile' \in Procs \cup {Nobody},
         pumps' \in [Procs -> {"none", "opening", "reading", "ended"}],
         sinkOpen' \in BOOLEAN, sinkGone' \in BOOLEAN,
         started' \subseteq Procs, orphans' \subseteq Procs, spared' \subseteq Procs,
         UNCHANGED <<survey, restarts, heard, inherited>>,
         place \in {"record", "settle", "audio", "silent"} => tracked' \in Procs,
         place = "clear" => tracked' = Nobody,
         place # "record" => alive' \subseteq {pidfile'} \cup Lost',
         place = "record" => alive' \subseteq {tracked'} \cup Lost',
         place = "spawn" => (pidfile' \in alive' => pidfile' \in {tracked'} \cup Lost'),
         alive' \ inherited \subseteq {tracked'}
  PROVE  ReceiverInv'
  <1>1. ReceiverTypeOK'
    BY DEF ReceiverInv, ReceiverTypeOK, OpPCs
  <1>2. SupervisedIsNamed' /\ PlayingIsOnFile' /\ OwnIsSupervised'
    BY DEF ReceiverInv, SupervisedIsNamed, PlayingIsOnFile, OwnIsSupervised, Lost
  <1> QED
    BY <1>1, <1>2 DEF ReceiverInv

\* An operation begins with what the one before it left.
LEMMA BeginOpKeeps ==
  ASSUME ReceiverInv, NEW kind \in {"start", "stop", "retune", "seek"}, BeginOp(kind)
  PROVE  ReceiverInv'
  <1>1. PICK place \in {"reap", "stop"} : radioOp' = [kind |-> kind, pc |-> place]
    BY DEF BeginOp
  <1>2. alive \subseteq {pidfile} \cup Lost /\ alive \ inherited \subseteq {tracked}
    BY DEF BeginOp, ReceiverInv, PlayingIsOnFile, OwnIsSupervised
  <1>3. place \in OpPCs
    BY <1>1 DEF OpPCs
  <1> QED
    BY <1>1, <1>2, <1>3, ReceiverTypes, OpStepKeeps DEF BeginOp, Lost

\* After a stop nothing plays but what a restart has orphaned.
LEMMA StopReceiverKeeps ==
  ASSUME ReceiverInv, StopReceiver
  PROVE  ReceiverInv'
  <1>1. PICK kind \in {"none", "start", "stop", "retune", "seek"} :
            radioOp' = [kind |-> kind, pc |-> "clear"]
    BY ReceiverTypes DEF StopReceiver
  <1>2. alive \subseteq {pidfile} \cup Lost /\ alive \ inherited \subseteq {tracked}
    BY DEF StopReceiver, ReceiverInv, PlayingIsOnFile, OwnIsSupervised
  <1>3. "clear" \in OpPCs
    BY DEF OpPCs
  <1> QED
    BY <1>1, <1>2, <1>3, ReceiverTypes, OpStepKeeps DEF StopReceiver, Lost

\* After _reap_stale the process on file is gone, is lost or is the one
\* supervised; in a stop nobody is, and what still plays is not this server
\* process's.
LEMMA ReapStaleKeeps ==
  ASSUME ReceiverInv, ReapStale
  PROVE  /\ ReceiverInv'
         /\ radioOp.pc = "clear" => alive' \subseteq inherited \cap (orphans \cup spared')
  <1>1. PICK kind \in {"none", "start", "stop", "retune", "seek"}, place \in {"idle", "sweep", "reap", "spawn"} :
            radioOp' = [kind |-> kind, pc |-> place]
    BY ReceiverTypes DEF ReapStale, AfterReap, NoOp
  <1>2. alive \subseteq {pidfile} \cup Lost /\ alive \ inherited \subseteq {tracked}
    BY DEF ReapStale, ReceiverInv, PlayingIsOnFile, OwnIsSupervised
  <1>3. place \in OpPCs
    BY <1>1 DEF OpPCs
  <1>4. /\ alive' \subseteq alive /\ spared \subseteq spared' /\ spared' \subseteq spared \cup alive
        /\ pidfile' \in {Nobody, pidfile}
        /\ orphans' = orphans
    BY DEF ReapStale
  <1>5. \/ Stale = {pidfile} /\ (pidfile \notin alive' \/ pidfile \in spared')
        \/ /\ Stale = {} /\ pidfile' = pidfile
           /\ pidfile = Nobody \/ (pidfile = tracked /\ tracked \in alive)
    BY DEF ReapStale, Stale, Running
  <1>6. pidfile \in alive' => pidfile \in spared' \/ (pidfile' = pidfile /\ pidfile = tracked)
    BY <1>4, <1>5, ReceiverTypes, NobodyIsNoProcess
  <1>7. /\ alive' \subseteq {pidfile'} \cup Lost'
        /\ pidfile' \in alive' => pidfile' \in {tracked} \cup Lost'
        /\ alive' \ inherited \subseteq {tracked}
    BY <1>2, <1>4, <1>6, ReceiverTypes, NobodyIsNoProcess DEF Lost
  <1>8. /\ dongle' \in Procs \cup {Nobody, SeekSweep, SurveySweep}
        /\ spared' \subseteq Procs /\ alive' \subseteq Procs /\ pidfile' \in Procs \cup {Nobody}
        /\ UNCHANGED <<spawned, tracked, pumps, sinkOpen, sinkGone, survey, restarts,
                       heard, started, orphans, inherited>>
    BY <1>4, ReceiverTypes DEF ReapStale
  <1>9. ReceiverInv'
    BY <1>1, <1>3, <1>7, <1>8, ReceiverTypes, OpStepKeeps
  <1>10. radioOp.pc = "clear" => alive' \subseteq inherited \cap (orphans \cup spared')
    <2> SUFFICES ASSUME radioOp.pc = "clear", NEW q \in alive'
                 PROVE  q \in inherited /\ q \in orphans \cup spared'
      OBVIOUS
    <2>1. tracked = Nobody /\ q \in Procs
      BY <1>4, ReceiverTypes DEF ReceiverInv, SupervisedIsNamed
    <2>2. q \in inherited
      BY <1>7, <2>1, NobodyIsNoProcess
    <2>3. q \in orphans \cup spared'
      BY <1>2, <1>4, <1>6, <2>1, NobodyIsNoProcess DEF Lost
    <2> QED
      BY <2>2, <2>3
  <1> QED
    BY <1>9, <1>10

\* A seek sweeps with the receiver stopped.
LEMMA SeekKeeps ==
  ASSUME ReceiverInv, SeekBegins \/ SeekEnds
  PROVE  ReceiverInv'
  <1>1. PICK kind \in {"none", "start", "stop", "retune", "seek"}, place \in {"idle", "sweeping", "reap"} :
            radioOp' = [kind |-> kind, pc |-> place]
    BY ReceiverTypes DEF SeekBegins, SeekEnds, NoOp
  <1>2. alive \subseteq {pidfile} \cup Lost /\ alive \ inherited \subseteq {tracked}
    BY DEF SeekBegins, SeekEnds, ReceiverInv, PlayingIsOnFile, OwnIsSupervised
  <1>3. place \in OpPCs
    BY <1>1 DEF OpPCs
  <1>4. /\ dongle' \in Procs \cup {Nobody, SeekSweep, SurveySweep}
        /\ UNCHANGED <<alive, spawned, tracked, pidfile, pumps, sinkOpen, sinkGone, survey,
                       restarts, heard, started, orphans, spared, inherited>>
    BY ReceiverTypes DEF SeekBegins, SeekEnds
  <1> QED
    BY <1>1, <1>2, <1>3, <1>4, ReceiverTypes, OpStepKeeps DEF Lost

\* Nothing but the lost plays when a process is spawned.
LEMMA SpawnReceiverKeeps ==
  ASSUME ReceiverInv, SpawnReceiver
  PROVE  ReceiverInv'
  <1>0. /\ alive \subseteq {pidfile} \cup Lost /\ alive \ inherited \subseteq {tracked}
        /\ pidfile \in alive => pidfile \in {tracked} \cup Lost
        /\ UNCHANGED <<dongle, pidfile, pumps, survey, restarts, heard, started, orphans, spared, inherited>>
    BY DEF SpawnReceiver, ReceiverInv, PlayingIsOnFile, OwnIsSupervised
  <1>1. CASE /\ spawned < MaxProcs /\ spawned' = spawned + 1 /\ alive' = alive \cup {spawned'}
             /\ tracked' = spawned' /\ radioOp' = [radioOp EXCEPT !.pc = "record"] /\ ~Running
    <2>1. radioOp' = [kind |-> radioOp.kind, pc |-> "record"] /\ "record" \in OpPCs
      BY <1>1, ReceiverTypes DEF OpPCs
    <2>2. spawned' \in Procs /\ spawned' \in 0 .. MaxProcs
      BY <1>1, ReceiverTypes, ReceiverAssumption DEF Procs
    <2>3. alive \subseteq Lost /\ alive \subseteq inherited /\ Lost' = Lost
      BY <1>0, <1>1 DEF Running, Lost
    <2>4. sinkOpen' = FALSE /\ sinkGone' = FALSE
      BY <1>1 DEF SpawnReceiver
    <2>5. sinkOpen' \in BOOLEAN /\ sinkGone' \in BOOLEAN
      BY <2>4
    <2> QED
      BY <1>0, <1>1, <2>1, <2>2, <2>3, <2>5, ReceiverTypes, OpStepKeeps
  <1>2. CASE radioOp' = NoOp /\ UNCHANGED <<alive, spawned, tracked>>
    <2>1. radioOp' = [kind |-> "none", pc |-> "idle"] /\ "idle" \in OpPCs
      BY <1>2 DEF NoOp, OpPCs
    <2>2. \/ sinkOpen' = sinkOpen /\ sinkGone' = sinkGone
          \/ sinkOpen' = FALSE /\ sinkGone' = FALSE
      BY DEF SpawnReceiver
    <2>3. sinkOpen' \in BOOLEAN /\ sinkGone' \in BOOLEAN
      BY <2>2, ReceiverTypes
    <2> QED
      BY <1>0, <1>2, <2>1, <2>3, ReceiverTypes, OpStepKeeps DEF Lost
  <1> QED
    BY <1>1, <1>2 DEF SpawnReceiver

\* The new pid is on file, or is lost.
LEMMA RecordPidKeeps ==
  ASSUME ReceiverInv, RecordPid
  PROVE  ReceiverInv'
  <1>1. radioOp' = [kind |-> radioOp.kind, pc |-> "settle"] /\ "settle" \in OpPCs
    BY ReceiverTypes DEF RecordPid, OpPCs
  <1>2. tracked \in Procs /\ alive \subseteq {tracked} \cup Lost /\ alive \ inherited \subseteq {tracked}
    BY DEF RecordPid, ReceiverInv, SupervisedIsNamed, PlayingIsOnFile, OwnIsSupervised
  <1>3. /\ pumps' \in [Procs -> {"none", "opening", "reading", "ended"}]
        /\ UNCHANGED <<alive, spawned, dongle, tracked, sinkOpen, sinkGone, survey, restarts,
                       heard, started, spared, inherited>>
    BY ReceiverTypes DEF RecordPid
  <1>4. \/ pidfile' = tracked /\ orphans' = orphans
        \/ orphans' = orphans \cup {tracked} /\ pidfile' \in {Nobody, pidfile}
    BY DEF RecordPid
  <1>5. /\ alive' \subseteq {pidfile'} \cup Lost' /\ alive' \ inherited \subseteq {tracked'}
        /\ orphans' \subseteq Procs /\ pidfile' \in Procs \cup {Nobody}
    BY <1>2, <1>3, <1>4, ReceiverTypes DEF Lost
  <1> QED
    BY <1>1, <1>2, <1>3, <1>5, ReceiverTypes, OpStepKeeps

\* Waiting for a new process and for its sink changes nothing that plays.
LEMMA WaitsKeep ==
  ASSUME ReceiverInv, Settle \/ AwaitAudio
  PROVE  ReceiverInv'
  <1>0. /\ tracked \in Procs /\ alive \subseteq {pidfile} \cup Lost /\ alive \ inherited \subseteq {tracked}
        /\ UNCHANGED <<alive, spawned, dongle, pidfile, pumps, sinkOpen, sinkGone, survey,
                       restarts, heard, orphans, spared, inherited>>
    BY DEF Settle, AwaitAudio, ReceiverInv, SupervisedIsNamed, PlayingIsOnFile, OwnIsSupervised
  <1>1. PICK kind \in {"none", "start", "stop", "retune", "seek"}, place \in {"idle", "audio", "silent"} :
            /\ radioOp' = [kind |-> kind, pc |-> place]
            /\ place # "idle" => tracked' = tracked
    BY ReceiverTypes DEF Settle, AwaitAudio, NoOp
  <1>2. /\ tracked' \in Procs \cup {Nobody} /\ started' \subseteq Procs
        /\ alive' \ inherited \subseteq {tracked'} /\ Lost' = Lost
    BY <1>0, ReceiverTypes DEF Settle, AwaitAudio, Running, Lost
  <1>3. place \in OpPCs
    BY <1>1 DEF OpPCs
  <1> QED
    BY <1>0, <1>1, <1>2, <1>3, ReceiverTypes, OpStepKeeps

\* A restart orphans at most the process whose pid was not noted yet.
LEMMA ServerRestartsKeeps ==
  ASSUME ReceiverInv, ServerRestarts
  PROVE  ReceiverInv'
  <1>1. /\ alive' = alive /\ spawned' = spawned /\ dongle' = dongle /\ pidfile' = pidfile
        /\ heard' = heard /\ started' = started /\ tracked' = Nobody
        /\ radioOp' = [kind |-> "none", pc |-> "idle"] /\ survey' = [pc |-> "off", left |-> 0]
        /\ spared' = spared /\ inherited' = alive
        /\ orphans' = IF radioOp.pc = "record" THEN orphans \cup {tracked} ELSE orphans
    BY DEF ServerRestarts, NoOp, NoSurvey
  <1>2. alive \subseteq {pidfile} \cup Lost' /\ orphans' \subseteq Procs
    BY <1>1, ReceiverTypes DEF ReceiverInv, PlayingIsOnFile, SupervisedIsNamed, Lost
  <1>3. restarts' \in 0 .. MaxRestarts /\ 0 \in 0 .. SurveyBands
    BY ReceiverAssumption DEF ServerRestarts, ReceiverInv, ReceiverTypeOK
  <1>4. /\ pumps' \in [Procs -> {"none", "opening", "reading", "ended"}]
        /\ sinkOpen' \in BOOLEAN /\ sinkGone' \in BOOLEAN
    BY DEF ServerRestarts
  <1>5. ReceiverTypeOK'
    BY <1>1, <1>2, <1>3, <1>4, ReceiverTypes DEF ReceiverTypeOK
  <1>6. SupervisedIsNamed' /\ PlayingIsOnFile' /\ OwnIsSupervised'
    BY <1>1, <1>2 DEF SupervisedIsNamed, PlayingIsOnFile, OwnIsSupervised
  <1> QED
    BY <1>5, <1>6 DEF ReceiverInv

\* What other threads and processes do leaves the operation where it is; they
\* may only end an rtl_fm.
LEMMA OthersKeep ==
  ASSUME ReceiverInv, alive' \subseteq alive,
         dongle' \in Procs \cup {Nobody, SeekSweep, SurveySweep},
         pumps' \in [Procs -> {"none", "opening", "reading", "ended"}],
         sinkOpen' \in BOOLEAN, sinkGone' \in BOOLEAN, heard' \subseteq Procs,
         survey' \in [pc : {"off", "checked", "next", "sweeping"}, left : 0 .. SurveyBands],
         survey'.pc = "sweeping" => survey'.left > 0,
         UNCHANGED <<spawned, tracked, pidfile, radioOp, restarts, started, orphans, spared, inherited>>
  PROVE  ReceiverInv'
  <1>1. ReceiverTypeOK'
    BY DEF ReceiverInv, ReceiverTypeOK
  <1>2. SupervisedIsNamed' /\ PlayingIsOnFile' /\ OwnIsSupervised'
    BY DEF ReceiverInv, SupervisedIsNamed, PlayingIsOnFile, OwnIsSupervised, Lost
  <1> QED
    BY <1>1, <1>2 DEF ReceiverInv

\* A survey neither spawns nor stops a receiver.
LEMMA SurveyKeeps ==
  ASSUME ReceiverInv, SurveyChecks \/ SurveyStep
  PROVE  ReceiverInv'
  <1>0. /\ survey \in [pc : {"off", "checked", "next", "sweeping"}, left : 0 .. SurveyBands]
        /\ 0 \in 0 .. SurveyBands /\ SurveyBands \in 0 .. SurveyBands
        /\ survey.pc = "sweeping" => survey.left - 1 \in 0 .. SurveyBands
    BY ReceiverAssumption DEF ReceiverInv, ReceiverTypeOK, SupervisedIsNamed
  <1>1. /\ survey' \in [pc : {"off", "checked", "next", "sweeping"}, left : 0 .. SurveyBands]
        /\ survey'.pc = "sweeping" => survey'.left > 0
    <2>1. CASE survey' = NoSurvey \/ SurveyChecks \/ SurveyBegins
      BY <1>0, <2>1, ReceiverAssumption DEF NoSurvey, SurveyChecks, SurveyBegins
    <2>2. CASE SurveySweeps /\ survey' # NoSurvey
      BY <1>0, <2>2 DEF SurveySweeps
    <2>3. CASE SurveySwept /\ survey' # NoSurvey
      BY <1>0, <2>3 DEF SurveySwept
    <2> QED
      BY <2>1, <2>2, <2>3 DEF SurveyStep, SurveyEnds
  <1>2. /\ dongle' \in Procs \cup {Nobody, SeekSweep, SurveySweep}
        /\ UNCHANGED <<alive, spawned, tracked, pidfile, radioOp, pumps, sinkOpen, sinkGone,
                       restarts, heard, started, orphans, spared, inherited>>
    BY ReceiverTypes DEF SurveyChecks, SurveyStep, SurveyBegins, SurveySweeps, SurveySwept, SurveyEnds
  <1> QED
    BY <1>1, <1>2, ReceiverTypes, OthersKeep

\* Processes die, claim and open: none of it makes another one play.
LEMMA ProcessKeeps ==
  ASSUME ReceiverInv, NEW p \in Procs,
         ClaimDongle(p) \/ ReceiverDies(p) \/ SinkOpens(p) \/ PumpEnds(p)
  PROVE  ReceiverInv'
  <1>1. /\ alive' \subseteq alive /\ dongle' \in Procs \cup {Nobody, SeekSweep, SurveySweep}
        /\ heard' \subseteq Procs /\ pumps' \in [Procs -> {"none", "opening", "reading", "ended"}]
        /\ UNCHANGED <<spawned, tracked, pidfile, radioOp, survey, restarts, started, orphans, spared, inherited>>
    BY ReceiverTypes DEF ClaimDongle, ReceiverDies, SinkOpens, PumpEnds
  <1>2. sinkOpen' \in BOOLEAN /\ sinkGone' \in BOOLEAN
    BY ReceiverTypes DEF ClaimDongle, ReceiverDies, SinkOpens, PumpEnds
  <1>3. /\ survey \in [pc : {"off", "checked", "next", "sweeping"}, left : 0 .. SurveyBands]
        /\ survey.pc = "sweeping" => survey.left > 0
    BY DEF ReceiverInv, ReceiverTypeOK, SupervisedIsNamed
  <1> QED
    BY <1>1, <1>2, <1>3, OthersKeep

\* Every step keeps the invariant.
LEMMA ReceiverPreserved == ReceiverInv /\ [ReceiverNext]_radioVars => ReceiverInv'
  <1> SUFFICES ASSUME ReceiverInv, [ReceiverNext]_radioVars PROVE ReceiverInv'
    OBVIOUS
  <1>1. /\ survey \in [pc : {"off", "checked", "next", "sweeping"}, left : 0 .. SurveyBands]
        /\ survey.pc = "sweeping" => survey.left > 0
    BY DEF ReceiverInv, ReceiverTypeOK, SupervisedIsNamed
  <1>2. CASE SweepOver
    BY <1>1, <1>2, ReceiverTypes, OthersKeep DEF SweepOver
  <1>3. CASE UNCHANGED radioVars
    BY <1>1, <1>3, ReceiverTypes, OthersKeep DEF radioVars
  <1>4. CASE RadioStep
    BY <1>4, StopReceiverKeeps, ReapStaleKeeps, SeekKeeps, SpawnReceiverKeeps, RecordPidKeeps,
       WaitsKeep DEF RadioStep
  <1> QED
    BY <1>2, <1>3, <1>4, BeginOpKeeps, SurveyKeeps, ServerRestartsKeeps, ProcessKeeps
       DEF ReceiverNext

\* The invariant of the receiver supervision (radiodaemon.py): what plays is on
\* file, but for the moment between Popen and the note of the pid and for the
\* processes never noted or not killed, which are not this server process's.
THEOREM ReceiverInvariant == ReceiverSpec => []ReceiverInv
  BY ReceiverInitially, ReceiverPreserved, PTL DEF ReceiverSpec

\* ReceiversAreKnown, however many processes, restarts and failed kills.
THEOREM NoUntrackedReceiver == ReceiverSpec => []ReceiversAreKnown
  <1>1. ReceiverInv => ReceiversAreKnown
    BY DEF ReceiverInv, PlayingIsOnFile, OwnIsSupervised, Lost, ReceiversAreKnown
  <1> QED
    BY <1>1, ReceiverInvariant, PTL

\* StopSilences: a stop ends its own receiver, and the _reap_stale it closes with
\* leaves of the earlier servers' only what never got on file or was not killed.
THEOREM StopIsSilence == ReceiverSpec => StopSilences
  <1> DEFINE Silent == radioOp.kind = "stop" /\ radioOp.pc = "clear" /\ radioOp'.pc = "idle"
                          /\ restarts' = restarts
                       => alive' \subseteq inherited \cap (orphans \cup spared')
  <1>1. ASSUME ReceiverInv, [ReceiverNext]_radioVars PROVE [Silent]_radioVars
    <2> SUFFICES ASSUME ReceiverNext, radioOp.pc = "clear", radioOp'.pc = "idle", restarts' = restarts
                 PROVE  alive' \subseteq inherited \cap (orphans \cup spared')
      BY <1>1
    <2>1. restarts \in Nat
      BY <1>1, ReceiverAssumption DEF ReceiverInv, ReceiverTypeOK
    <2>2. ~ServerRestarts
      BY <2>1 DEF ServerRestarts
    <2>3. radioOp' # radioOp
      OBVIOUS
    <2>4. ReapStale
      BY <2>2, <2>3
         DEF ReceiverNext, BeginOp, RadioStep, StopReceiver, SeekBegins, SeekEnds, SpawnReceiver,
             RecordPid, Settle, AwaitAudio, SurveyChecks, SurveyStep, SurveyBegins, SurveySweeps,
             SurveySwept, SurveyEnds, SweepOver, ClaimDongle, ReceiverDies, SinkOpens, PumpEnds
    <2> QED
      BY <1>1, <2>4, ReapStaleKeeps
  <1>2. ReceiverInv /\ [ReceiverNext]_radioVars => [Silent]_radioVars
    BY <1>1
  <1> QED
    BY <1>2, ReceiverInvariant, PTL DEF ReceiverSpec, StopSilences
=============================================================================

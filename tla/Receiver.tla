------------------------------ MODULE Receiver ------------------------------
(***************************************************************************)
(* The SDR dongle and its two users (apps/cw): the receiver, radiodaemon,  *)
(* which spawns rtl_fm processes and pumps their audio into a sink, and    *)
(* the band survey, bandscan, which sweeps with rtl_power.  The server can *)
(* be restarted at any time by the autoreloader while rtl_fm plays on.     *)
(* Frequencies, gains and power readings are left out.                     *)
(***************************************************************************)
EXTENDS Integers, FiniteSets

CONSTANTS
    MaxProcs,     \* bound: how many rtl_fm processes are ever spawned
    MaxRestarts,  \* bound: how often the server is restarted
    SurveyBands   \* how many bands a survey sweeps

ASSUME ReceiverAssumption ==
    MaxProcs \in Nat /\ MaxRestarts \in Nat /\ SurveyBands \in Nat \ {0}

VARIABLES
    alive,      \* live rtl_fm processes
    spawned,    \* how many were spawned; pids are given in order
    dongle,     \* who has claimed the USB interface
    tracked,    \* _state["proc"]
    pidfile,    \* the pid on file
    radioOp,    \* the operation that holds _op_lock
    pumps,      \* the _pump thread of every process
    sinkOpen, sinkGone,   \* the two events
    survey,     \* the survey thread
    restarts,   \* how often the server was restarted
    heard,      \* history: processes whose own sink did open
    started,    \* history: processes whose start was reported as a success
    orphans,    \* history: processes whose pid never got on file
    spared,     \* history: processes a _reap_stale found on file and left alive
    inherited   \* history: the processes alive at the last restart

radioVars == <<alive, spawned, dongle, tracked, pidfile, radioOp, pumps, sinkOpen,
               sinkGone, survey, restarts, heard, started, orphans, spared, inherited>>

Procs == 1 .. MaxProcs
Nobody == 0
SeekSweep == -1      \* rtl_power run by seek
SurveySweep == -2    \* rtl_power run by a survey

\* kind: the entry point; pc: its next step.
NoOp == [kind |-> "none", pc |-> "idle"]

\* left: the bands still to sweep.
NoSurvey == [pc |-> "off", left |-> 0]

ReceiverTypeOK ==
    /\ alive \subseteq Procs /\ spawned \in 0 .. MaxProcs
    /\ dongle \in Procs \cup {Nobody, SeekSweep, SurveySweep}
    /\ tracked \in Procs \cup {Nobody} /\ pidfile \in Procs \cup {Nobody}
    /\ radioOp \in [kind : {"none", "start", "stop", "retune", "seek"},
                    pc : {"idle", "stop", "clear", "sweep", "sweeping", "reap",
                          "spawn", "record", "settle", "audio", "silent"}]
    /\ pumps \in [Procs -> {"none", "opening", "reading", "ended"}]
    /\ sinkOpen \in BOOLEAN /\ sinkGone \in BOOLEAN
    /\ survey \in [pc : {"off", "checked", "next", "sweeping"}, left : 0 .. SurveyBands]
    /\ restarts \in 0 .. MaxRestarts
    /\ heard \subseteq Procs /\ started \subseteq Procs /\ orphans \subseteq Procs
    /\ spared \subseteq Procs /\ inherited \subseteq Procs

ReceiverInit ==
    /\ alive = {} /\ spawned = 0 /\ dongle = Nobody
    /\ tracked = Nobody /\ pidfile = Nobody
    /\ radioOp = NoOp
    /\ pumps = [p \in Procs |-> "none"]
    /\ sinkOpen = FALSE /\ sinkGone = FALSE
    /\ survey = NoSurvey
    /\ restarts = 0
    /\ heard = {} /\ started = {} /\ orphans = {} /\ spared = {} /\ inherited = {}

\* A process ends and the kernel releases what it had claimed.
Freed(gone) == IF dongle \in gone THEN Nobody ELSE dongle

Running == tracked \in alive

-----------------------------------------------------------------------------
(* The entry points; each holds _op_lock to its end.                       *)

BeginOp(kind) ==
    /\ radioOp.pc = "idle"
    /\ radioOp' = [kind |-> kind, pc |-> IF kind = "start" THEN "reap" ELSE "stop"]
    /\ UNCHANGED <<alive, spawned, dongle, tracked, pidfile, pumps, sinkOpen, sinkGone,
                   survey, restarts, heard, started, orphans, spared, inherited>>

\* _stop_locked: terminate or kill the child; the _reap_stale it ends with is
\* the next step.  A start that found no audio ends like a stop.
StopReceiver ==
    /\ radioOp.pc \in {"stop", "silent"}
    /\ alive' = alive \ {tracked}
    /\ dongle' = Freed({tracked} \cap alive)
    /\ tracked' = Nobody
    /\ radioOp' = [kind |-> IF radioOp.pc = "silent" THEN "stop" ELSE radioOp.kind,
                   pc |-> "clear"]
    /\ UNCHANGED <<spawned, pidfile, pumps, sinkOpen, sinkGone, survey, restarts,
                   heard, started, orphans, spared, inherited>>

\* Mutant: a pid on file is taken for the receiver's without looking.
StaleIgnored == {}

\* The process on file, unless it is the one being supervised.
Stale == IF pidfile # Nobody /\ ~(pidfile = tracked /\ Running) THEN {pidfile} ELSE {}

\* What follows a _reap_stale: the one before a start, or the one in a stop.
AfterReap ==
    CASE radioOp.pc = "reap"      -> [radioOp EXCEPT !.pc = "spawn"]
      [] radioOp.kind = "retune"  -> [kind |-> "start", pc |-> "reap"]
      [] radioOp.kind = "seek"    -> [radioOp EXCEPT !.pc = "sweep"]
      [] OTHER                    -> NoOp

\* _reap_stale: the process on file is killed; or it lives on, when the file
\* cannot be read, ps does not name it (_process_command: ps missing or too
\* slow) or the kill fails.  The file goes either way, if it can be unlinked.
ReapStale ==
    /\ radioOp.pc \in {"clear", "reap"}
    /\ \/ /\ alive' = alive \ Stale
          /\ dongle' = Freed(Stale \cap alive)
          /\ UNCHANGED spared
       \/ /\ spared' = spared \cup (Stale \cap alive)
          /\ UNCHANGED <<alive, dongle>>
    /\ pidfile' \in IF Stale # {} THEN {Nobody, pidfile} ELSE {pidfile}
    /\ radioOp' = AfterReap
    /\ UNCHANGED <<spawned, tracked, pumps, sinkOpen, sinkGone, survey, restarts,
                   heard, started, orphans, inherited>>

\* seek: rtl_power claims the dongle, or cannot and seek raises.
SeekBegins ==
    /\ radioOp.pc = "sweep"
    /\ \/ /\ dongle = Nobody
          /\ dongle' = SeekSweep
          /\ radioOp' = [radioOp EXCEPT !.pc = "sweeping"]
       \/ radioOp' = NoOp /\ UNCHANGED dongle
    /\ UNCHANGED <<alive, spawned, tracked, pidfile, pumps, sinkOpen, sinkGone, survey,
                   restarts, heard, started, orphans, spared, inherited>>

\* The sweep is over: a start of the station found or of what was playing
\* follows, or seek raises.
SeekEnds ==
    /\ radioOp.pc = "sweeping"
    /\ dongle' = Nobody
    /\ radioOp' \in {[kind |-> "start", pc |-> "reap"], NoOp}
    /\ UNCHANGED <<alive, spawned, tracked, pidfile, pumps, sinkOpen, sinkGone, survey,
                   restarts, heard, started, orphans, spared, inherited>>

\* _start_locked up to Popen: refused while the child lives.
SpawnReceiver ==
    /\ radioOp.pc = "spawn"
    /\ \/ /\ Running
          /\ radioOp' = NoOp
          /\ UNCHANGED <<alive, spawned, tracked, sinkOpen, sinkGone>>
       \/ /\ ~Running
          /\ sinkOpen' = FALSE /\ sinkGone' = FALSE
          /\ \/ /\ spawned < MaxProcs
                /\ spawned' = spawned + 1
                /\ alive' = alive \cup {spawned'}
                /\ tracked' = spawned'
                /\ radioOp' = [radioOp EXCEPT !.pc = "record"]
             \/ /\ radioOp' = NoOp
                /\ UNCHANGED <<alive, spawned, tracked>>
    /\ UNCHANGED <<dongle, pidfile, pumps, survey, restarts, heard, started, orphans,
                   spared, inherited>>

\* Mutant: the pid is not written down.
RecordNothing ==
    /\ radioOp.pc = "record"
    /\ pumps' = [pumps EXCEPT ![tracked] = "opening"]
    /\ radioOp' = [radioOp EXCEPT !.pc = "settle"]
    /\ UNCHANGED <<alive, spawned, dongle, tracked, pidfile, sinkOpen, sinkGone, survey,
                   restarts, heard, started, orphans, spared, inherited>>

\* The pid is written, if the file can be (a failed write may leave it empty),
\* and the pump thread started.
RecordPid ==
    /\ radioOp.pc = "record"
    /\ \/ pidfile' = tracked /\ UNCHANGED orphans
       \/ orphans' = orphans \cup {tracked} /\ pidfile' \in {Nobody, pidfile}
    /\ pumps' = [pumps EXCEPT ![tracked] = "opening"]
    /\ radioOp' = [radioOp EXCEPT !.pc = "settle"]
    /\ UNCHANGED <<alive, spawned, dongle, tracked, sinkOpen, sinkGone, survey, restarts,
                   heard, started, spared, inherited>>

\* After a second: rtl_fm is gone (it found the dongle busy), or lives on; a
\* slow one may not have claimed the dongle yet.
Settle ==
    /\ radioOp.pc = "settle"
    /\ IF Running THEN radioOp' = [radioOp EXCEPT !.pc = "audio"] /\ UNCHANGED tracked
       ELSE radioOp' = NoOp /\ tracked' = Nobody
    /\ UNCHANGED <<alive, spawned, dongle, pidfile, pumps, sinkOpen, sinkGone, survey,
                   restarts, heard, started, orphans, spared, inherited>>

\* Mutant: the wait for the sink has no timeout.
AwaitForever ==
    /\ radioOp.pc = "audio" /\ sinkOpen
    /\ started' = started \cup {tracked}
    /\ radioOp' = NoOp
    /\ UNCHANGED <<alive, spawned, dongle, tracked, pidfile, pumps, sinkOpen, sinkGone,
                   survey, restarts, heard, orphans, spared, inherited>>

\* _sink_open.wait(2.0): set, and the start is a success; or not in time, and
\* the receiver is stopped again.
AwaitAudio ==
    /\ radioOp.pc = "audio"
    /\ \/ /\ sinkOpen
          /\ started' = started \cup {tracked}
          /\ radioOp' = NoOp
       \/ /\ ~sinkOpen
          /\ radioOp' = [radioOp EXCEPT !.pc = "silent"]
          /\ UNCHANGED started
    /\ UNCHANGED <<alive, spawned, dongle, tracked, pidfile, pumps, sinkOpen, sinkGone,
                   survey, restarts, heard, orphans, spared, inherited>>

-----------------------------------------------------------------------------
(* rtl_fm, and the thread that pumps its audio.                            *)

ClaimDongle(p) ==
    /\ p \in alive /\ dongle = Nobody
    /\ dongle' = p
    /\ UNCHANGED <<alive, spawned, tracked, pidfile, radioOp, pumps, sinkOpen, sinkGone,
                   survey, restarts, heard, started, orphans, spared, inherited>>

\* It finds the dongle busy, or dies for a reason of its own.
ReceiverDies(p) ==
    /\ p \in alive
    /\ alive' = alive \ {p}
    /\ dongle' = Freed({p})
    /\ UNCHANGED <<spawned, tracked, pidfile, radioOp, pumps, sinkOpen, sinkGone, survey,
                   restarts, heard, started, orphans, spared, inherited>>

SinkOpens(p) ==
    /\ pumps[p] = "opening"
    /\ pumps' = [pumps EXCEPT ![p] = "reading"]
    /\ sinkOpen' = TRUE
    /\ heard' = heard \cup {p}
    /\ UNCHANGED <<alive, spawned, dongle, tracked, pidfile, radioOp, sinkGone, survey,
                   restarts, started, orphans, spared, inherited>>

\* The sink does not open or breaks, or rtl_fm's output ends.
PumpEnds(p) ==
    /\ pumps[p] \in {"opening", "reading"}
    /\ pumps' = [pumps EXCEPT ![p] = "ended"]
    /\ sinkGone' = TRUE
    /\ UNCHANGED <<alive, spawned, dongle, tracked, pidfile, radioOp, sinkOpen, survey,
                   restarts, heard, started, orphans, spared, inherited>>

-----------------------------------------------------------------------------
(* bandscan.start and its worker.                                          *)

\* The check that the receiver is not playing, before the survey's own lock.
SurveyChecks ==
    /\ survey.pc = "off" /\ ~Running
    /\ survey' = [NoSurvey EXCEPT !.pc = "checked"]
    /\ UNCHANGED <<alive, spawned, dongle, tracked, pidfile, radioOp, pumps, sinkOpen,
                   sinkGone, restarts, heard, started, orphans, spared, inherited>>

SurveyBegins ==
    /\ survey.pc = "checked"
    /\ survey' = [pc |-> "next", left |-> SurveyBands]
    /\ UNCHANGED <<alive, spawned, dongle, tracked, pidfile, radioOp, pumps, sinkOpen,
                   sinkGone, restarts, heard, started, orphans, spared, inherited>>

\* The next band: rtl_power claims the dongle, or finds it busy and the
\* survey ends with an error.
SurveySweeps ==
    /\ survey.pc = "next" /\ survey.left > 0
    /\ IF dongle = Nobody
       THEN dongle' = SurveySweep /\ survey' = [survey EXCEPT !.pc = "sweeping"]
       ELSE survey' = NoSurvey /\ UNCHANGED dongle
    /\ UNCHANGED <<alive, spawned, tracked, pidfile, radioOp, pumps, sinkOpen, sinkGone,
                   restarts, heard, started, orphans, spared, inherited>>

SurveySwept ==
    /\ survey.pc = "sweeping"
    /\ dongle' = Nobody
    /\ \/ survey' = [survey EXCEPT !.pc = "next", !.left = @ - 1]
       \/ survey' = NoSurvey
    /\ UNCHANGED <<alive, spawned, tracked, pidfile, radioOp, pumps, sinkOpen, sinkGone,
                   restarts, heard, started, orphans, spared, inherited>>

SurveyEnds ==
    /\ survey.pc = "next" /\ survey.left = 0
    /\ survey' = NoSurvey
    /\ UNCHANGED <<alive, spawned, dongle, tracked, pidfile, radioOp, pumps, sinkOpen,
                   sinkGone, restarts, heard, started, orphans, spared, inherited>>

-----------------------------------------------------------------------------
\* The autoreloader restarts the server: its memory and threads are gone, the
\* processes it spawned and the pid file stay.
ServerRestarts ==
    /\ restarts < MaxRestarts
    /\ restarts' = restarts + 1
    /\ orphans' = IF radioOp.pc = "record" THEN orphans \cup {tracked} ELSE orphans
    /\ inherited' = alive
    /\ tracked' = Nobody /\ radioOp' = NoOp
    /\ pumps' = [p \in Procs |-> "none"]
    /\ sinkOpen' = FALSE /\ sinkGone' = FALSE
    /\ survey' = NoSurvey
    /\ UNCHANGED <<alive, spawned, dongle, pidfile, heard, started, spared>>

\* An rtl_power whose server is gone ends its one pass.
SweepOver ==
    /\ \/ dongle = SeekSweep /\ radioOp.pc # "sweeping"
       \/ dongle = SurveySweep /\ survey.pc # "sweeping"
    /\ dongle' = Nobody
    /\ UNCHANGED <<alive, spawned, tracked, pidfile, radioOp, pumps, sinkOpen, sinkGone,
                   survey, restarts, heard, started, orphans, spared, inherited>>

RadioStep ==
    \/ StopReceiver \/ ReapStale \/ SeekBegins \/ SeekEnds \/ SpawnReceiver
    \/ RecordPid \/ Settle \/ AwaitAudio

SurveyStep == SurveyBegins \/ SurveySweeps \/ SurveySwept \/ SurveyEnds

\* rtl_fm makes up its mind about the dongle.
Decide(p) == ClaimDongle(p) \/ (dongle \notin {Nobody, p} /\ ReceiverDies(p))

ReceiverNext ==
    \/ \E kind \in {"start", "stop", "retune", "seek"} : BeginOp(kind)
    \/ RadioStep \/ SurveyChecks \/ SurveyStep \/ ServerRestarts \/ SweepOver
    \/ \E p \in Procs : ClaimDongle(p) \/ ReceiverDies(p) \/ SinkOpens(p) \/ PumpEnds(p)

ReceiverSpec == ReceiverInit /\ [][ReceiverNext]_radioVars

\* Every wait of an operation has a timeout, rtl_fm claims or gives up, a
\* sweep is one pass.
ReceiverFairness ==
    /\ WF_radioVars(RadioStep) /\ WF_radioVars(SurveyStep)
    /\ \A p \in Procs : WF_radioVars(Decide(p))

ReceiverFairSpec == ReceiverSpec /\ ReceiverFairness

-----------------------------------------------------------------------------
(* Properties.                                                             *)

\* "two racing requests can never ... leave an untracked rtl_fm playing": of
\* the receivers this server process spawned only the supervised one is alive;
\* one from before a restart is on file, unless its pid never got there (the
\* server died before, or could not write it) or a _reap_stale found it and
\* could not kill it.
ReceiversAreKnown ==
    /\ alive \ inherited \subseteq {tracked}
    /\ alive \subseteq {tracked, pidfile} \cup orphans \cup spared

\* Stop is silence: the step that ends a stop leaves no rtl_fm of this server
\* process alive, and of those from before a restart only the ones that never
\* got on file or that could not be killed.
StopSilences ==
    [][radioOp.kind = "stop" /\ radioOp.pc = "clear" /\ radioOp'.pc = "idle"
           /\ restarts' = restarts
       => alive' \subseteq inherited \cap (orphans \cup spared')]_radioVars

\* _op_lock comes free and a survey ends: whatever processes and sinks do, no
\* operation waits for ever.
OperationsEnd ==
    /\ (radioOp.pc # "idle") ~> (radioOp.pc = "idle")
    /\ (survey.pc = "next") ~> (survey.pc = "off")

\* radiodaemon.py: "If the sink never opened, the receiver would sit there
\* 'playing' in silence ... Fail the start instead": a start reported as a
\* success has opened its own sink.
SilentStartFails == started \subseteq heard
=============================================================================

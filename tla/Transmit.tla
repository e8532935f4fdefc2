------------------------------ MODULE Transmit ------------------------------
(***************************************************************************)
(* transmit_session of apps/cw: a stored session goes on the air through   *)
(* the operator's rig.  Requests of one server process compete for the     *)
(* module lock; the winner renders the audio, and a thread keys the rig    *)
(* through rigctld, plays, unkeys and lets go.                             *)
(*                                                                         *)
(* rigctld is one TCP exchange per command.  A command may be refused, or  *)
(* carried out while its answer is lost (the client gives up after its     *)
(* timeout).  The operator may also key the rig by hand.                   *)
(***************************************************************************)
EXTENDS Naturals

CONSTANTS
    Requests,       \* POSTs to rig_tx, each with the thread it starts
    MaxLinkFaults,  \* bound: failed exchanges with rigctld
    MaxDeaths       \* bound: failures of the server: rendering, restart

ASSUME TransmitAssumption == MaxLinkFaults \in Nat /\ MaxDeaths \in Nat

VARIABLES
    lock,          \* _lock: held or not (it has no owner)
    transmitting,  \* _state["transmitting"]
    error,         \* _state["error"] is not empty
    keyed,         \* who keys the rig: "cat" for rigctld, "hand" for the operator
    pc,            \* where each request or its thread stands
    usePtt,        \* CWRig.use_ptt as each request read it
    linkFaults, deaths

vars == <<lock, transmitting, error, keyed, pc, usePtt, linkFaults, deaths>>

Labels == {"idle", "render", "begin", "connect", "probe", "key", "play", "unkey", "close", "release"}

TypeOK ==
    /\ lock \in BOOLEAN /\ transmitting \in BOOLEAN /\ error \in BOOLEAN
    /\ keyed \in SUBSET {"cat", "hand"}
    /\ pc \in [Requests -> Labels]
    /\ usePtt \in [Requests -> BOOLEAN]
    /\ linkFaults \in 0 .. MaxLinkFaults /\ deaths \in 0 .. MaxDeaths

Init ==
    /\ lock = FALSE /\ transmitting = FALSE /\ error = FALSE
    /\ keyed = {}
    /\ pc = [r \in Requests |-> "idle"]
    /\ usePtt \in [Requests -> BOOLEAN]
    /\ linkFaults = 0 /\ deaths = 0

Goto(r, label) == pc' = [pc EXCEPT ![r] = label]

\* The thread records an error; `label' is where its finally clauses take it.
Fail(r, label) == error' = TRUE /\ Goto(r, label)

-----------------------------------------------------------------------------

\* The request takes the lock, or is refused with a 409 and changes nothing.
Acquire(r) ==
    /\ pc[r] = "idle" /\ ~lock
    /\ lock' = TRUE
    /\ Goto(r, "render")
    /\ UNCHANGED <<transmitting, error, keyed, usePtt, linkFaults, deaths>>

\* The session's audio is synthesized and the thread started ...
Render(r) ==
    /\ pc[r] = "render"
    /\ Goto(r, "begin")
    /\ UNCHANGED <<lock, transmitting, error, keyed, usePtt, linkFaults, deaths>>

\* ... unless either fails: the exception leaves the request with the lock held.
RenderFails(r) ==
    /\ pc[r] = "render" /\ deaths < MaxDeaths
    /\ deaths' = deaths + 1
    /\ Goto(r, "idle")
    /\ UNCHANGED <<lock, transmitting, error, keyed, usePtt, linkFaults>>

\* run() announces itself.
Begin(r) ==
    /\ pc[r] = "begin"
    /\ transmitting' = TRUE /\ error' = FALSE
    /\ Goto(r, "connect")
    /\ UNCHANGED <<lock, keyed, usePtt, linkFaults, deaths>>

ConnectAsVox(r) ==
    /\ pc[r] = "connect"
    /\ Goto(r, "play")
    /\ UNCHANGED <<lock, transmitting, error, keyed, usePtt, linkFaults, deaths>>

\* client.connect(); VOX skips the keying.
Connect(r) ==
    /\ pc[r] = "connect"
    /\ Goto(r, IF usePtt[r] THEN "probe" ELSE "play")
    /\ UNCHANGED <<lock, transmitting, error, keyed, usePtt, linkFaults, deaths>>

\* get_ptt(): a rig that is keyed already is left alone.
Probe(r) ==
    /\ pc[r] = "probe"
    /\ IF keyed # {} THEN Fail(r, "close") ELSE Goto(r, "key") /\ UNCHANGED error
    /\ UNCHANGED <<lock, transmitting, keyed, usePtt, linkFaults, deaths>>

\* set_ptt(True), and the lead time.
Key(r) ==
    /\ pc[r] = "key"
    /\ keyed' = keyed \cup {"cat"}
    /\ Goto(r, "play")
    /\ UNCHANGED <<lock, transmitting, error, usePtt, linkFaults, deaths>>

\* Where playback leads, ended or broken off: to the inner finally.
AfterPlay(r) == IF usePtt[r] THEN "unkey" ELSE "close"

\* A playback error goes through the inner finally too.
AfterFailedPlay(r) == AfterPlay(r)

Play(r) ==
    /\ pc[r] = "play"
    /\ Goto(r, AfterPlay(r))
    /\ UNCHANGED <<lock, transmitting, error, keyed, usePtt, linkFaults, deaths>>

PlayFails(r) ==
    /\ pc[r] = "play"
    /\ Fail(r, AfterFailedPlay(r))
    /\ UNCHANGED <<lock, transmitting, keyed, usePtt, linkFaults, deaths>>

\* set_ptt(False).
Unkey(r) ==
    /\ pc[r] = "unkey"
    /\ keyed' = keyed \ {"cat"}
    /\ Goto(r, "close")
    /\ UNCHANGED <<lock, transmitting, error, usePtt, linkFaults, deaths>>

AfterErrorUnlocked == "idle"

\* A RigError goes to the outer finally.
AfterRigError == "close"

\* An exchange with rigctld fails: refused, or the connection is gone.
LinkFails(r) ==
    /\ pc[r] \in {"connect", "probe", "key", "unkey"} /\ linkFaults < MaxLinkFaults
    /\ linkFaults' = linkFaults + 1
    /\ Fail(r, AfterRigError)
    /\ UNCHANGED <<lock, transmitting, keyed, usePtt, deaths>>

\* set_ptt is carried out but its RPRT does not arrive in time.
AnswerLost(r) ==
    /\ pc[r] \in {"key", "unkey"} /\ linkFaults < MaxLinkFaults
    /\ linkFaults' = linkFaults + 1
    /\ keyed' = IF pc[r] = "key" THEN keyed \cup {"cat"} ELSE keyed \ {"cat"}
    /\ Fail(r, AfterRigError)
    /\ UNCHANGED <<lock, transmitting, usePtt, deaths>>

\* The outer finally: the connection is closed, the state reset ...
Close(r) ==
    /\ pc[r] = "close"
    /\ transmitting' = FALSE
    /\ Goto(r, "release")
    /\ UNCHANGED <<lock, error, keyed, usePtt, linkFaults, deaths>>

\* ... and the lock released.
Release(r) ==
    /\ pc[r] = "release"
    /\ lock' = FALSE
    /\ Goto(r, "idle")
    /\ UNCHANGED <<transmitting, error, keyed, usePtt, linkFaults, deaths>>

\* The server restarts; its daemon threads vanish where they stand.
Restart ==
    /\ deaths < MaxDeaths /\ \E r \in Requests : pc[r] # "idle"
    /\ deaths' = deaths + 1
    /\ lock' = FALSE /\ transmitting' = FALSE /\ error' = FALSE
    /\ pc' = [r \in Requests |-> "idle"]
    /\ UNCHANGED <<keyed, usePtt, linkFaults>>

\* The operator presses the key or the microphone button, or lets it go.
Hand ==
    /\ keyed' = IF "hand" \in keyed THEN keyed \ {"hand"} ELSE keyed \cup {"hand"}
    /\ UNCHANGED <<lock, transmitting, error, pc, usePtt, linkFaults, deaths>>

-----------------------------------------------------------------------------
\* The steps of a request that goes on.
Proceed(r) ==
    \/ Render(r) \/ Begin(r) \/ Connect(r) \/ Probe(r) \/ Key(r)
    \/ Play(r) \/ PlayFails(r) \/ Unkey(r) \/ Close(r) \/ Release(r)

Next ==
    \/ \E r \in Requests : Acquire(r) \/ RenderFails(r) \/ Proceed(r) \/ LinkFails(r) \/ AnswerLost(r)
    \/ Restart
    \/ Hand

Spec == Init /\ [][Next]_vars

\* Commands time out and sounds end; nobody has to transmit.
FairSpec == Spec /\ \A r \in Requests : WF_vars(Proceed(r))

-----------------------------------------------------------------------------
\* Safety: one message at a time; of all requests at most one is between
\* taking the lock and releasing it, and then the lock is held.
OneTransmission ==
    /\ \A r, q \in Requests : pc[r] # "idle" /\ pc[q] # "idle" => r = q
    /\ (\E r \in Requests : pc[r] # "idle") => lock

\* Safety: the rig is keyed through CAT while the audio plays, whatever the
\* operator's hand does, unless the rig relies on VOX.
KeyedWhilePlaying ==
    \A r \in Requests : pc[r] \in {"play", "unkey"} /\ usePtt[r] => "cat" \in keyed

\* Safety: as long as every exchange with rigctld went well and the server
\* stayed up, the rig is keyed through CAT by nobody but the transmission at
\* work, broken playback and refusals included.
KeyedOnlyInTransmission ==
    linkFaults = 0 /\ deaths = 0 /\ "cat" \in keyed
      => \E r \in Requests : pc[r] \in {"play", "unkey"}

\* Liveness: once its thread runs, a transmission lets go of the lock, whatever
\* rigctld and the sound device do.
LockComesFree ==
    \A r \in Requests : pc[r] \notin {"idle", "render"} ~> ~lock

\* Safety, as transmit.py has it: "PTT off (in a finally, always)".
NeverLeftKeyed ==
    (\A r \in Requests : pc[r] = "idle") => "cat" \notin keyed

\* Safety, as the refusal has it: "Already transmitting", so a held lock has
\* a transmission behind it.
RefusalIsTrue == lock => \E r \in Requests : pc[r] # "idle"
=============================================================================

------------------------------ MODULE MCRadio -------------------------------
(***************************************************************************)
(* An instance of the two halves of the radio, side by side: transmissions *)
(* over the rig and the SDR receiver.  They share no state, so a behaviour *)
(* is one of a single half: `part' says which, and the other stays as it   *)
(* was at the start.                                                       *)
(***************************************************************************)
EXTENDS Transmit, Receiver

VARIABLE part

stationVars == <<part, vars, radioVars>>

RadioInit ==
    /\ part \in {"transmit", "receive"}
    /\ Init /\ ReceiverInit
    /\ part = "receive" => usePtt = [r \in Requests |-> FALSE]

RadioNext ==
    \/ part = "transmit" /\ Next /\ UNCHANGED <<part, radioVars>>
    \/ part = "receive" /\ ReceiverNext /\ UNCHANGED <<part, vars>>

\* The fairness of each half, for the behaviours that are its own.
RadioFairness ==
    /\ \A r \in Requests : WF_vars(part = "transmit" /\ Proceed(r))
    /\ WF_radioVars(part = "receive" /\ RadioStep)
    /\ WF_radioVars(part = "receive" /\ SurveyStep)
    /\ \A p \in Procs : WF_radioVars(part = "receive" /\ Decide(p))

RadioSpec == RadioInit /\ [][RadioNext]_stationVars /\ RadioFairness
=============================================================================

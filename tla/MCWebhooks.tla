----------------------------- MODULE MCWebhooks -----------------------------
(***************************************************************************)
(* Instances of Webhooks for TLC.  Processes of one kind are               *)
(* interchangeable, and so are deliveries.                                 *)
(***************************************************************************)
EXTENDS Webhooks, TLC

Symmetric ==
    Permutations(Deliveries) \cup Permutations(Workers)
      \cup Permutations(Ticks) \cup Permutations(Requests)
=============================================================================

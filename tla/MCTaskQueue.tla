---------------------------- MODULE MCTaskQueue ----------------------------
(* Small instances of the task queue for TLC.                              *)
EXTENDS TaskOutcome, TLC

\* Retry ids are drawn at random and never compared: they are interchangeable.
RetryIds == Permutations(Results \ Roots)
=============================================================================

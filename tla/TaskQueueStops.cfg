\* An undeclared task whose caller may pin two attempts; a stoppable worker, the
\* reap_tasks command as the only sweeper, and windows that close.
SPECIFICATION FairSpec
CONSTANTS
    Workers = {w1}
    Commands = {c1}
    Roots = {r1}
    Results = {r1, r2}
    Raised = {err}
    RetryOn = {err}
    Declared = FALSE
    PolicyAttempts = 1
    RetryLost = TRUE
    Pins = {None, 2}
    MaxFaults = 1
    Mortal = {w1}
    Stoppable = {w1}
    Sweepers = {c1}
    WindowCloses = TRUE
    MaxChain = 2
    None = None
INVARIANT PinRepeatsOnlyRaised
PROPERTY LostTaskIsReaped
CHECK_DEADLOCK FALSE

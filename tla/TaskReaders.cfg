\* Two attempts and one fault: what readers of a chain take from it. With
\* -continue TLC reports both.
SPECIFICATION Spec
CONSTANTS
    Workers = {w1, w2}
    Commands = {}
    Roots = {r1}
    Results = {r1, r2}
    Raised = {err}
    RetryOn = {err}
    Declared = TRUE
    PolicyAttempts = 2
    RetryLost = TRUE
    Pins = {None}
    MaxFaults = 1
    Mortal = {w1}
    Stoppable = {}
    Sweepers = {w2}
    WindowCloses = FALSE
    MaxChain = 2
    None = None
INVARIANTS
    RetryingMeansRetryComing
    OutcomeIsNotBookkeeping
CHECK_DEADLOCK FALSE

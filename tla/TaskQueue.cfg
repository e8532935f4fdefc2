\* Two workers, one of which sweeps; one declared task with two attempts.
SPECIFICATION Spec
CONSTANTS
    Workers = {w1, w2}
    Commands = {}
    Roots = {r1}
    Results = {r1, r2, r3}
    Raised = {err}
    RetryOn = {err}
    Declared = TRUE
    PolicyAttempts = 2
    RetryLost = TRUE
    Pins = {None}
    MaxFaults = 1
    Mortal = {w1, w2}
    Stoppable = {}
    Sweepers = {w2}
    WindowCloses = FALSE
    MaxChain = 2
    None = None
SYMMETRY RetryIds
INVARIANTS
    ChainsAreLinear
    CancelledStaysCancelled
    ForkIsReported
PROPERTIES
    LedgerRefined
CHECK_DEADLOCK FALSE

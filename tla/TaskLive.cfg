\* Late completions are stamped and missed retries repaired in the end.
SPECIFICATION FairSpec
CONSTANTS
    Workers = {w1, w2}
    Commands = {}
    Roots = {r1}
    Results = {r1, r2}
    Raised = {err}
    RetryOn = {err}
    Declared = TRUE
    PolicyAttempts = 2
    RetryLost = TRUE
    Pins = {None}
    MaxFaults = 1
    Mortal = {w1}
    Stoppable = {}
    Sweepers = {w2}
    WindowCloses = FALSE
    MaxChain = 2
    None = None
PROPERTIES
    DoubleRunIsNoticed
    MissedRetryIsRepaired
CHECK_DEADLOCK FALSE

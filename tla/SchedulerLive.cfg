\* The deployment the documentation asks for: one trigger that keeps being called, one fault anywhere; workers may never finish a run.
SPECIFICATION LiveSpec
CONSTANTS
    None = None
    Ticks = {t1}
    Operators = {}
    Cadences <- MCEnding
    Edits = FALSE
    AllowOverlap = FALSE
    CatchUpSkip = FALSE
    StaleAfter = 1
    Horizon = 3
    MaxRequests = 0
    MaxFaults = 1
INVARIANT OneRunAtATime
PROPERTIES DueIsServed OutcomeReachesRun

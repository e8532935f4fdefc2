\* Two overlapping triggers, overlap allowed.
SPECIFICATION Spec
CONSTANTS
    None = None
    Ticks = {t1, t2}
    Operators = {}
    Cadences <- MCPlain
    Edits = FALSE
    AllowOverlap = TRUE
    CatchUpSkip = FALSE
    StaleAfter = 1
    Horizon = 2
    MaxRequests = 0
    MaxFaults = 0
PROPERTY StragglerNeverOverwrites

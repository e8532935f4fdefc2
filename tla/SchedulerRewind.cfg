\* Two ticks and one save of the edit form.
SPECIFICATION Spec
CONSTANTS
    None = None
    Ticks = {t1, t2}
    Operators = {o}
    Cadences <- MCPlain
    Edits = TRUE
    AllowOverlap = TRUE
    CatchUpSkip = FALSE
    StaleAfter = 1
    Horizon = 2
    MaxRequests = 1
    MaxFaults = 0
INVARIANT NeverDoubleFires

\* Two overlapping triggers and one staff request (Run now, or an edit that may
\* retune, pause or rewind the row), with one crash or failed statement.
SPECIFICATION Spec
CONSTANTS
    None = None
    Ticks = {t1, t2}
    Operators = {o}
    Cadences <- MCRetuned
    Edits = TRUE
    AllowOverlap = FALSE
    CatchUpSkip = TRUE
    StaleAfter = 1
    Horizon = 1
    MaxRequests = 1
    MaxFaults = 1
SYMMETRY Triggers
INVARIANTS
    OnlyRewindsReclaim
    ClaimLeavesRun
PROPERTY OutcomeFollowsChain

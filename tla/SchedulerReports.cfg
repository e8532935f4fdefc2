\* Two overlapping triggers of a job that must not overlap itself: what mails and
\* last_status say of its runs. With -continue TLC reports both.
SPECIFICATION Spec
CONSTANTS
    None = None
    Ticks = {t1, t2}
    Operators = {}
    Cadences <- MCPlain
    Edits = FALSE
    AllowOverlap = FALSE
    CatchUpSkip = FALSE
    StaleAfter = 1
    Horizon = 2
    MaxRequests = 0
    MaxFaults = 0
INVARIANTS
    OneFailureMail
    LastStatusSettles

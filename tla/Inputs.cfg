\* The preview of intervals up to 3, cron grids up to 4, a one-off and calendar
\* intervals, five fires each; two processes of different releases that sync and
\* serve; two paired sites with two web threads and a worker each.
SPECIFICATION InputsSpec
CONSTANTS
    None = None
    Cadences <- MCCadences
    Starts <- MCStarts
    Dates <- MCDates
    MonthDays <- MCMonthDays
    MaxSteps = 12
    PreviewRuns = 5
    Absent = Absent
    Jobs = {a, b}
    CodeCadences = {c1, c2}
    Servers = {p1, p2}
    MaxDeploys = 1
    MaxEdits = 2
    Sites = {s1, s2}
    Threads = {h1, h2}
    Workers = {w1}
    Cascades = FALSE
    Limit = 1
    MaxWrites = 2
    MaxEvents = 2
    MaxForged = 2
    MaxFaults = 1
CHECK_DEADLOCK FALSE
SYMMETRY Symmetric
INVARIANTS
    NoFireSkipped
    MissedAgreesWithNextRun
    MarkerExplainsOff
    OverrideSticks
    EventsAreOwnWrites

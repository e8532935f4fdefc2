SPECIFICATION Spec
CONSTANTS
    Sites = {s1, s2}
    Threads = {h1}
    Workers = {w1}
    Cascades = TRUE
    Limit = 1
    MaxWrites = 1
    MaxEvents = 3
    MaxForged = 0
    MaxFaults = 0
CHECK_DEADLOCK FALSE
INVARIANT EchoIsDropped

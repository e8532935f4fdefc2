SPECIFICATION FairSpec
CONSTANTS
    Deliveries = {d1, d2, d3}
    Workers = {w1, w2}
    Ticks = {t1}
    Requests = {r1}
    MaxAttempts = 1
    Threshold = 1
    MaxFaults = 0
    MaxEdits = 0

CHECK_DEADLOCK FALSE
PROPERTY DisabledForCause

SPECIFICATION FairSpec
CONSTANTS
    Deliveries = {d1}
    Workers = {w1}
    Ticks = {t1}
    Requests = {r1}
    MaxAttempts = 2
    Threshold = 0
    MaxFaults = 1
    MaxEdits = 0

CHECK_DEADLOCK FALSE
PROPERTY PendingIsPickedUp

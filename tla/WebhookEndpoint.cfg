\* Two deliveries failing on one endpoint together; every request, tick and worker
\* goes on.
SPECIFICATION FairSpec
CONSTANTS
    Deliveries = {d1, d2}
    Workers = {w1, w2}
    Ticks = {t1}
    Requests = {r1}
    MaxAttempts = 2
    Threshold = 2
    MaxFaults = 0
    MaxEdits = 0
CHECK_DEADLOCK FALSE
INVARIANTS
    FailingIsDisabled
PROPERTY DeliverySettles

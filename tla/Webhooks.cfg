\* One delivery with three attempts: two ticks, two workers and two requests, one
\* crash or refused enqueue, one save of the endpoint form.
SPECIFICATION Spec
CONSTANTS
    Deliveries = {d1}
    Workers = {w1, w2}
    Ticks = {t1, t2}
    Requests = {r1, r2}
    MaxAttempts = 3
    Threshold = 2
    MaxFaults = 1
    MaxEdits = 1
SYMMETRY Symmetric
CHECK_DEADLOCK FALSE
INVARIANTS
    OneSendAtATime
    AttemptsBounded
PROPERTY BackoffRespected

SPECIFICATION Spec
CONSTANTS
    Requests = {r1, r2}
    MaxLinkFaults = 0
    MaxDeaths = 1
INVARIANT RefusalIsTrue

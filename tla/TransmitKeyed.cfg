SPECIFICATION Spec
CONSTANTS
    Requests = {r1, r2}
    MaxLinkFaults = 1
    MaxDeaths = 0
INVARIANT NeverLeftKeyed

\* A code redeemed while the scrub of old codes is under way.
SPECIFICATION GrantsSpec
CONSTANTS
    Consents = {g1, g2}
    Handlers = {x, y}
    MaxLost = 0
INVARIANT OnlyUndeliveredExpire
CHECK_DEADLOCK FALSE

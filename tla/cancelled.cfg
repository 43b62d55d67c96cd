CONSTANTS
    N = 1
    World = "fresh"
    MaxRequests = 1
    MaxCancels = 1
    MaxCrashes = 0
    MaxFaults = 0
    MaxDrifts = 0
    MaxDamage = 0
SPECIFICATION RTSpec
INVARIANT CancelledIsReported
CHECK_DEADLOCK FALSE

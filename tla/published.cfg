CONSTANTS
    N = 2
    World = "fresh"
    MaxRequests = 2
    MaxCancels = 1
    MaxCrashes = 1
    MaxFaults = 0
    MaxDrifts = 0
    MaxDamage = 0
SPECIFICATION Spec
INVARIANT PublishedRollsForward
CHECK_DEADLOCK FALSE

CONSTANTS
    N = 2
    World = "fresh"
    MaxRequests = 2
    MaxCancels = 1
    MaxCrashes = 1
    MaxFaults = 1
    MaxDrifts = 1
    MaxDamage = 1
SPECIFICATION FairSpec
PROPERTIES
    LockReleased
    GateDecides
CHECK_DEADLOCK FALSE

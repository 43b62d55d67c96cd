CONSTANTS
    N = 2
    World = "found"
    MaxRequests = 2
    MaxCancels = 1
    MaxCrashes = 1
    MaxFaults = 0
    MaxDrifts = 0
    MaxDamage = 0
SPECIFICATION Spec
INVARIANTS
    StepsWithinLimit
PROPERTIES
    DeletesOnlyProven
    ReadyMeansResolved
CHECK_DEADLOCK FALSE

CONSTANTS
    N = 2
    World = "fresh"
    MaxRequests = 2
    MaxCancels = 0
    MaxCrashes = 0
    MaxFaults = 0
    MaxDrifts = 0
    MaxDamage = 0
SPECIFICATION RTSpec
INVARIANT TerminalMeansStopped
CHECK_DEADLOCK FALSE

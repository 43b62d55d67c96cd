CONSTANTS
    N = 2
    World = "fresh"
    MaxRequests = 2
    MaxCancels = 2
    MaxCrashes = 2
    MaxFaults = 1
    MaxDrifts = 0
    MaxDamage = 1
SPECIFICATION RTSpec
INVARIANTS
    ReportedSuccessIsReal
    WorkIsVisible
PROPERTIES
    RestartRepairsRows
    RestartClearsStale
CHECK_DEADLOCK FALSE

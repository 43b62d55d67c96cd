CONSTANTS
    N = 3
    World = "fresh"
    MaxRequests = 2
    MaxCancels = 1
    MaxCrashes = 2
    MaxFaults = 1
    MaxDrifts = 1
    MaxDamage = 0
SPECIFICATION Spec
INVARIANTS
    ActiveIsUsable
    AtMostOneNonterminal
    PathNamesExisting
    PredecessorRetained
    BlockedOnlyInWindow
PROPERTIES
    RecordsAreFinal
    ImplementsActivePointer
CHECK_DEADLOCK FALSE

SPECIFICATION Spec
CONSTANTS
    Ops = {o1, o2}
    Instances = {"default", "work"}
    Default = "default"
    Types <- MCTypes
    MaxCrashes = 1
SYMMETRY Keys
CHECK_DEADLOCK FALSE
INVARIANTS
    OperationsApart
    NoOrphanWhileServing
PROPERTIES
    ActsWhenAllowed
    RecordKept
    SuccessIsReal

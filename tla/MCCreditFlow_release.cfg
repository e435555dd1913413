SPECIFICATION Spec
CONSTANTS
    Flows = {f1}
    Items = {}
    ItemBytes = 2
    Maximum = 3
    Total = 2
    MaxGrant = 3
    U64 = 8
INVARIANT ReleaseCovered
CHECK_DEADLOCK FALSE

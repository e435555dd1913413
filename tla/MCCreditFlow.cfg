SPECIFICATION Spec
CONSTANTS
    Flows = {f1, f2}
    Items = {f2}
    ItemBytes = 2
    Maximum = 2
    Total = 2
    MaxGrant = 3
    U64 = 8
INVARIANTS CreditTypeOK WithinGrant SoundUnlessOverlapped
PROPERTY NotRevoked
CHECK_DEADLOCK FALSE

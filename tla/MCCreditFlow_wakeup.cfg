SPECIFICATION FairSpec
CONSTANTS
    Flows = {f1}
    Items = {}
    ItemBytes = 2
    Maximum = 3
    Total = 2
    MaxGrant = 3
    U64 = 8
PROPERTY GrantedIsSent
CHECK_DEADLOCK FALSE

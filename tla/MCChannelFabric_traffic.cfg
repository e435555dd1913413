SPECIFICATION Spec
CONSTANTS
    Endpoints = {e1, e2}
    Names = {n1}
    ChannelHandles = {h1, h2}
    Sizes = {1}
    Limits = {0}
    MaxListenerHandle = 2
    MaxConnectId = 2
    MaxRevision = 2
    InternalQueue = 2
    ListenersPerEndpoint = 1
    MaxListeners = 1
    HandlesPerEndpoint = 2
    ConnectedPairs = 2
    MaxPendingConnects = 1
    PairWindow = 2
    BufferBytes = 4
SYMMETRY Symmetry
INVARIANTS FabricInv LaneOrder
PROPERTY ImplementsLifecycle
CHECK_DEADLOCK FALSE

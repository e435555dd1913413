SPECIFICATION AdmissionSpec
CONSTANTS
    Endpoints = {e1, e2}
    Names = {n1}
    ChannelHandles = {h1, h2}
    Sizes = {1}
    Limits = {0}
    MaxListenerHandle = 3
    MaxConnectId = 3
    MaxRevision = 2
    InternalQueue = 1
    ListenersPerEndpoint = 1
    MaxListeners = 2
    HandlesPerEndpoint = 2
    ConnectedPairs = 2
    MaxPendingConnects = 1
    PairWindow = 2
    BufferBytes = 4
SYMMETRY Symmetry
INVARIANTS
    TypeOK LinkSymmetry DeadEndpointClean ListenersAreOwned TerminalIsFinal AdmissionExact
    AdmissionBounded
PROPERTY CatalogueVersioned
CHECK_DEADLOCK FALSE

SPECIFICATION SessionSpec
CONSTANTS
    Endpoints = {e1, e2}
    Names = {n1}
    ChannelHandles = {1, 2}
    Sizes = {1}
    Limits = {0, 1}
    MaxListenerHandle = 2
    MaxConnectId = 2
    MaxRevision = 2
    InternalQueue = 2
    ListenersPerEndpoint = 1
    MaxListeners = 1
    HandlesPerEndpoint = 2
    ConnectedPairs = 2
    MaxPendingConnects = 1
    PairWindow = 2
    BufferBytes = 4
    MaxChannels = 2
SYMMETRY Symmetry
INVARIANT EstablishedHasBothEnds
CHECK_DEADLOCK FALSE

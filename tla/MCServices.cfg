SPECIFICATION ServicesSpec
CONSTANTS
    c1 = c1
    c2 = c2
    Conns = {c1, c2}
    ShutdownRequests <- MCRequests
    Asks <- MCAsks
    k1 = k1
    k2 = k2
    v1 = v1
    v2 = v2
    o1 = o1
    o2 = o2
    w1 = w1
    Keys = {k1, k2}
    Values = {v1, v2}
    NoValue = NoValue
    Requests <- MCKvRequests
    Callers = {s1, s2}
    Subscribers = {w1}
    Namespace <- MCNamespace
    MaxEntries = 1
    MaxPendingWrites = 2
    MaxRecentReplays = 1
    ChangeQueue = 1
    MaxSequence = 3
    MaxRestarts = 1
    MaxCounter = 6
    WindowBits = 3
    RekeyInterval = 2
    RekeyEvery = 2
    MaxItems = 2
    NoStream = NoStream
    Streams = {a1, a2, a3}
    Tokens = {1, 2}
    Maxima = {1, 2}
    MaxPending = 2
    RecordSizes = {1, 2}
    Capacities = {1, 3}
    DefaultRing = 3
    LiveChannel = 2
    MaxEvents = 5
    Followers = {s1}
    InternalItems = 1
    Recordings = {r1}
INVARIANTS
    KvTypeOK WriteBehind LiveIsReplayable WaiterIsBacked DurableSurvives WatchExact
    NonceFresh DeliveredOnce
    StreamFaithful
    ShutdownTypeOK NoneSurvivesCleanup OneOwner
    IngressExact
    StreamExact RecordingExact
PROPERTY ServerStops
CHECK_DEADLOCK FALSE

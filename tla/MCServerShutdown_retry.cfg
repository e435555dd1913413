SPECIFICATION ShutdownSpec
CONSTANTS
    c1 = c1
    c2 = c2
    Conns = {c1, c2}
    ShutdownRequests <- MCRequests
    Asks <- MCAsks
INVARIANT RetryIsServed
CHECK_DEADLOCK FALSE

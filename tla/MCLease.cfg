CONSTANTS
    v1 = v1
    v2 = v2
    p1 = p1
    p2 = p2
    None = None
    Volume = {v1, v2}
    PodOf <- TwoPods
    MaxLeases = 1
    Blocking <- OneBlocks
    Duration <- Durations
    Skew <- Skews
    MaxLatency = 1
    MaxTime = 6
    Restarts = {v1}
SPECIFICATION Spec
INVARIANTS TypeOK FenceHolds MutualExclusion
PROPERTY ImplementsExpiringLock
CHECK_DEADLOCK FALSE

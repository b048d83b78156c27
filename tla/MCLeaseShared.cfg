CONSTANTS
    v1 = v1
    v2 = v2
    p1 = p1
    p2 = p2
    None = None
    Volume = {v1, v2}
    PodOf <- OnePod
    MaxLeases = 1
    Blocking <- AllBlock
    Duration <- Durations
    Skew <- Skews
    MaxLatency = 0
    MaxTime = 3
    Restarts = {v1}
SPECIFICATION Spec
INVARIANT MutualExclusion
CHECK_DEADLOCK FALSE

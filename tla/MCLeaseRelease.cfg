CONSTANTS
    v1 = v1
    v2 = v2
    p1 = p1
    p2 = p2
    None = None
    Volume = {v1}
    PodOf <- TwoPods
    MaxLeases = 1
    Blocking <- AllBlock
    Duration <- Durations
    Skew <- Skews
    MaxLatency = 1
    MaxTime = 4
    Restarts = {v1}
SPECIFICATION Spec
INVARIANT ReleaseFrees
CHECK_DEADLOCK FALSE

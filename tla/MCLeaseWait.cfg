CONSTANTS
    v1 = v1
    p1 = p1
    None = None
    Volume = {v1}
    PodOf <- MCPodOf
    MaxLeases = 2
    Blocking <- MCBlocking
    Duration <- MCDuration
    Skew <- MCSkew
    MaxLatency = 0
    MaxTime = 9
    Restarts = {v1}
SPECIFICATION WSpec
INVARIANTS ReclaimBound MutualExclusion
CHECK_DEADLOCK FALSE

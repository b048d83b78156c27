CONSTANTS
    a = a
    b = b
    c1 = c1
    c2 = c2
    c3 = c3
    other = other
    None = None
    Garbage = Garbage
    DefaultAudience = DefaultAudience
    MaxName = 6
    Prefix = 2
    Second = 4
    MaxInt64 = 127
    MaxInt32 = 15
    DefaultLeaseDuration = 20
    Target = {a}
    Call = {c1}
    Overlap = {}
    PersistMayFail = FALSE
    UnmountMayFail = FALSE
    MaxRestarts = 0
    MaxTokens = 1
    Attributes <- LongLeases
    Payloads <- GoodPayload
SPECIFICATION Spec
INVARIANT MountedIsLockable

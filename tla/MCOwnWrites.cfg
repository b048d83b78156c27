CONSTANTS
    v1 = v1
    v2 = v2
    h1 = h1
    h2 = h2
    t1 = t1
    t2 = t2
    None = None
    Volume = {v1}
    Handle = {h1}
    Thread = {t1}
    VolumeOf <- OneMount
    HandleOf <- OneThread
    Disciplined = TRUE
    Uses = {}
    Initial = 0
    PatchMayFail = FALSE
    LeaseMayFail = FALSE
    MayAge = TRUE
    MaxWrites = 1
    MaxVersions = 2
SPECIFICATION Spec
INVARIANTS OwnWritesVisible

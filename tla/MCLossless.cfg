CONSTANTS
    v1 = v1
    v2 = v2
    h1 = h1
    h2 = h2
    t1 = t1
    t2 = t2
    None = None
    Volume = {v1}
    Handle = {h1}
    Thread = {t1}
    VolumeOf <- OneMount
    HandleOf <- OneThread
    Disciplined = FALSE
    Uses = {"create", "trunc", "unlink", "modify", "edit"}
    Initial = 0
    PatchMayFail = TRUE
    LeaseMayFail = TRUE
    MayAge = TRUE
    MaxWrites = 2
    MaxVersions = 3
SPECIFICATION FairSpec
INVARIANTS NoSilentLoss NoLeakedLease
PROPERTY CacheConverges

CONSTANTS
    v1 = v1
    v2 = v2
    h1 = h1
    h2 = h2
    t1 = t1
    t2 = t2
    None = None
    Volume = {v1}
    Handle = {h1}
    Thread = {t1, t2}
    VolumeOf <- OneMount
    HandleOf <- SharedHandle
    Disciplined = FALSE
    Uses = {"create", "trunc", "unlink", "modify"}
    Initial = 0
    PatchMayFail = FALSE
    LeaseMayFail = FALSE
    MayAge = TRUE
    MaxWrites = 2
    MaxVersions = 3
SPECIFICATION Spec
INVARIANTS NoSilentLoss

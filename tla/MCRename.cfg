CONSTANTS
    v1 = v1
    v2 = v2
    h1 = h1
    h2 = h2
    t1 = t1
    t2 = t2
    None = None
    Volume = {v1, v2}
    Handle = {h1, h2}
    Thread = {t1, t2}
    VolumeOf <- TwoMounts
    HandleOf <- TwoHandles
    Disciplined = TRUE
    Uses = {"modify"}
    Initial = 0
    PatchMayFail = FALSE
    LeaseMayFail = FALSE
    MayAge = FALSE
    MaxWrites = 2
    MaxVersions = 3
SPECIFICATION Spec
PROPERTY NoLostUpdate

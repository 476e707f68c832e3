SPECIFICATION FairSpec
CONSTANTS
    Runner = {r1, r2}
    Phrase = {}
    StopDuringSync = TRUE
    MaxKill = 0
    MaxTimeout = 0
    MaxSuspend = 1
    MaxFail = 0
INVARIANTS
    LockHasHolder
PROPERTIES
    LockFreed
    OverlayOnlyDuringSync

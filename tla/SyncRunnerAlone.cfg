SPECIFICATION Spec
CONSTANTS
    Runner = {r1}
    Phrase = {p1, p2}
    StopDuringSync = TRUE
    MaxKill = 1
    MaxTimeout = 1
    MaxSuspend = 1
    MaxFail = 1
INVARIANTS
    LearntKept
    DoneMeansMerged
SYMMETRY
    MCSymmetry

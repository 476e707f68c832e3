SPECIFICATION MCSpec
CONSTANTS
    d1 = d1
    Device = {d1, d2}
    FreqMod = 1
    MaxTime = 9
    MaxEdit = 2
    MaxFail = 1
INVARIANTS
    StampIdentifiesWidth
    WidthsAgree
PROPERTIES
    StampsAdvance
    RemovedStaysRemoved
    AccessTimeKept
    FormsConverge

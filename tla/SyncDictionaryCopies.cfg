SPECIFICATION Spec
CONSTANTS
    Device <- MCDevice
    plain = plain
    other = other
    NoWord = NoWord
    Word <- MCPlain
    Imported <- MCSame
    NoTomb = NoTomb
    NoBundle = NoBundle
    Retention = 1
    MaxTime = 2
    MaxChange = 3
    Shared = FALSE
    Overlap = TRUE
INVARIANTS
    
    DeletedHereStaysDeleted

SPECIFICATION FairSpec
CONSTANTS
    Device <- MCDevice
    plain = plain
    other = other
    NoWord = NoWord
    Word <- MCWord
    Imported <- MCLocale
    NoTomb = NoTomb
    NoBundle = NoBundle
    Retention = 0
    MaxTime = 1
    MaxChange = 3
    Shared = TRUE
    Overlap = FALSE
PROPERTIES
    Converges

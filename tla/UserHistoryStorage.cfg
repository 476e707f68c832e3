SPECIFICATION Spec
CONSTANTS
    Entry = {e1, e2}
    Form = {f1}
    NoForm = NoForm
    Legacy = f2
    MaxFail = 1
    MaxCrash = 1
    MaxReload = 1
INVARIANTS
    
    
    ClearedGone
    FormsKept
PROPERTIES
    
    IncompleteEntriesNotSynced

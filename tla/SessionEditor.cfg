SPECIFICATION Spec
CONSTANTS
  MaxKeys = 3
  MaxText = 3
  MaxUndo = 2
  Related = FALSE
  TwoStep = TRUE
INVARIANTS TypeOK StatesAgree
PROPERTY KeepsItsPromise

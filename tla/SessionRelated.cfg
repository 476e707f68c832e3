SPECIFICATION Spec
CONSTANTS
  MaxKeys = 2
  MaxText = 3
  MaxUndo = 2
  Related = TRUE
  TwoStep = TRUE
PROPERTY RelatedEndsCleanly

SPECIFICATION Spec
CONSTANTS
  Key = {k1, k2, k3, k4}
  Value = {v}
  NoKey = NoKey
  NoValue = NoValue
  Size = 3
  MaxTime = 2
INVARIANT Indexed
PROPERTIES TornWriteHitsOneItem KeepsRecent

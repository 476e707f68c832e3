SPECIFICATION MCPollSpec
CONSTANTS
  d1 = d1
  Device = {d1, d2}
  Word = {w}
  Use = {u}
  MaxEvents = 1
  MaxFaults = 1
INVARIANTS SkipIsRight SettingsKept
PROPERTIES NothingDisappears Converges
CHECK_DEADLOCK FALSE

SPECIFICATION Spec
CONSTANTS
  App = {a}
  Other = other
  MaxSessions = 2
  MaxPlayBackSize = 3
  MaxKeys = 2
  MaxFaults = 2
  MaxLocks = 1
INVARIANTS ExactlyOnce NothingTwice OneSessionEach

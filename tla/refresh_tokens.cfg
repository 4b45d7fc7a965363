\* A login, two or three more requests on it, an expiry in the middle.
CONSTANTS
  Requests = {r1, r2, r3, r4}
  Selectors = {s1, s2}
  None = None
  TokenTTL = 1
  RefreshTTL = 2
  TicksPerSecond = 2
  MaxTime = 4
  MaxFailures = 1
SYMMETRY Symmetry
SPECIFICATION Spec
INVARIANTS TypeOK OneTokenPerSession LogoutEnds AccessLife
PROPERTIES UsedOnlyWhileStored ValidRowsKept ChainOfTokens
CHECK_DEADLOCK FALSE

\* Intervals shorter and longer than a cycle, three requests at once, a restart.
CONSTANTS
  Requests = {r1, r2, r3}
  Intervals = {1, 3}
  None = None
  MaxFailures = 1
  DefaultInterval = 10
  CycleTime = 4
  MaxRestarts = 1
SYMMETRY Symmetry
SPECIFICATION Spec
INVARIANTS PeriodPositive OrphansComeFromRaces ToldOfServed
PROPERTIES Punctual PutNotUndone
CHECK_DEADLOCK FALSE

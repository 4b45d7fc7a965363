\* Two requests; an interval shorter than the default, a process that dies once.
CONSTANTS
  r1 = r1
  Requests = {r1, r2}
  Intervals = {1}
  None = None
  MaxFailures = 0
  DefaultInterval = 2
  CycleTime = 1
  MaxRestarts = 1
  Settings <- RequestSettings
  V4 = {a1, a2}
  V6 = {}
  Hosts = {h1}
  MaxAttempts = 1
  MaxChanges = 1
  MaxFaults = 1
SPECIFICATION DyndnsFairSpec
INVARIANTS GracefulExit Fresh
PROPERTY EndToEnd
CHECK_DEADLOCK FALSE

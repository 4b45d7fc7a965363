\* Liveness of the loop with two requests.
CONSTANTS
  Requests = {r1, r2}
  Intervals = {1, 3}
  None = None
  MaxFailures = 1
  DefaultInterval = 10
  CycleTime = 2
  MaxRestarts = 1
SPECIFICATION FairSpec
PROPERTIES FollowsTable ShutsDown KeepsCycling
CHECK_DEADLOCK FALSE

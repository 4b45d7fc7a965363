\* Units of 200 ms; the pause is capped so low that it happens.
CONSTANTS
  Attempts = {0, 1, 2, 3, 4}
  Delays = {0, 1, 2}
  ConnectTimeout = 25
  MaxDelay = 6
SPECIFICATION Spec
INVARIANTS BacksOff EveryAttemptMade
PROPERTY OnlySilenceHolds
CHECK_DEADLOCK FALSE

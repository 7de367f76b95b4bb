SPECIFICATION Spec
CONSTANTS
  Backoff <- ShortTable
  HARD_LOCKOUT_THRESHOLD = 5
  HARD_LOCKOUT_DURATION = 3
  MaxTime = 8
  MaxChecks = 5
  MaxFaults = 0
  MaxRecoveries = 0
PROPERTY RetryIsServed
CHECK_DEADLOCK FALSE

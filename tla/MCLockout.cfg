SPECIFICATION Spec
CONSTANTS
  Backoff <- ShortTable
  HARD_LOCKOUT_THRESHOLD = 5
  HARD_LOCKOUT_DURATION = 3
  MaxTime = 9
  MaxChecks = 6
  MaxFaults = 1
  MaxRecoveries = 1
PROPERTY ScheduleRespected
INVARIANT NoFailureForgotten

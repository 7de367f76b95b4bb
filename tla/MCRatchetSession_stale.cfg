SPECIFICATION Spec
CONSTANTS
  MAX_SKIPPED_KEYS = 3
  MAX_SKIP_DISTANCE = 3
  MaxSends = 3
INVARIANT OutOfOrderDelivery
CHECK_DEADLOCK FALSE

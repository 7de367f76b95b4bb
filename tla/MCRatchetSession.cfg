SPECIFICATION Spec
CONSTANTS
  MAX_SKIPPED_KEYS = 2
  MAX_SKIP_DISTANCE = 2
  MaxSends = 4
INVARIANTS TypeOK NoKeyReuse NoHeaderReuse NoReplay ForwardSecrecy SkippedKeysBounded InFlightDecryptable

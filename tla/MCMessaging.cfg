SPECIFICATION Spec
CONSTANTS
  alice = alice
  bob = bob
  User <- MCUser
  Instance <- MCInstance
  Window = 1
  SyncPeriod = 2
INVARIANTS
  LossHasACause
  AdvertisedRatchetExists
  LateReading
  RoundTrip
  RefusedOnlyByCache
CHECK_DEADLOCK FALSE

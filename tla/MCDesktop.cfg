SPECIFICATION Spec
CONSTANTS
  w1 = w1
  w2 = w2
  alice = alice
  bob = bob
  None = None
  Workers = {w1, w2}
  MaxTasks = 3
  Friend = {alice, bob}
  pqc = pqc
  legacy = legacy
  Message = {pqc, legacy}
  Instance <- MCInstance
INVARIANTS
  RightRecipient
  EncryptedOnce
  LabelIsTrue
PROPERTIES
  Answered
  PlaintextIsCleared
CHECK_DEADLOCK FALSE

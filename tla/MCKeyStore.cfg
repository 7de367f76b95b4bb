SPECIFICATION Spec
CONSTANTS
  p1 = p1
  p2 = p2
  alice = alice
  w1 = w1
  Passwords = {p1, p2}
  NoPassword = NoPassword
  Friends = {alice}
  Workers = {w1}
  HybridAvailable = TRUE
  MaxSecrets = 4
SYMMETRY Alike
INVARIANTS TypeOK OneMasterKey EcdhHasSecret MemoryIsStored LockScreenAgrees BlobsReadable
CHECK_DEADLOCK FALSE

SPECIFICATION FairSpec
CONSTANTS
  alice = alice
  t1 = t1
  t2 = t2
  m1 = m1
  k1 = k1
  k2 = k2
  Friends = {alice}
  Threads = {t1, t2}
  Flushers = {k1, k2}
  Incoming = {m1}
  MaxSessions = 2
  MaxSends = 1
  MaxReads = 2
  MaxFailures = 1
  MaxRestarts = 1
INVARIANTS TypeOK DirtyHasTimer PositionsAreReal EndedStaysEnded
PROPERTY BufferDrains
CHECK_DEADLOCK FALSE

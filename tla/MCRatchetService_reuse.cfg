SPECIFICATION Spec
CONSTANTS
  alice = alice
  t1 = t1
  t2 = t2
  m1 = m1
  k1 = k1
  k2 = k2
  Friends = {alice}
  Threads = {t1}
  Flushers = {k1}
  Incoming = {m1}
  MaxSessions = 1
  MaxSends = 2
  MaxReads = 0
  MaxFailures = 0
  MaxRestarts = 0
INVARIANT NoNumberReuse
CHECK_DEADLOCK FALSE

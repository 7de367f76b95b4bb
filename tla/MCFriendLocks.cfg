SPECIFICATION FairSpec
CONSTANTS
  t1 = t1
  t2 = t2
  t3 = t3
  Threads = {t1, t2, t3}
  Friends = {1, 2}
  ActiveLists <- OneRemoved
  MaxLocks = 3
PROPERTY EveryRequestEnds
INVARIANTS
  TypeOK
  ListedFriendsExclusive
  NoWaitCycle
  WaitsUpward
  NoLockLeft

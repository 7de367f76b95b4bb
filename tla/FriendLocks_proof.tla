-------------------------- MODULE FriendLocks_proof --------------------------
(***************************************************************************)
(* Proofs about FriendLocks for any number of threads and friends, any     *)
(* sets of friends locked together and any lists passed to the cleanup.    *)
(***************************************************************************)
EXTENDS FriendLocks, FiniteSetTheorems, TLAPS

\* What the threads hold or wait for, and what the table files.
Taken(t) == held[t] \cup fetched[t]
Filed == {<<f, friend_locks[f]>> : f \in {g \in Friends : friend_locks[g] # NoLock}}
InUse == Filed \cup UNION {Taken(t) : t \in Threads}

\* Lock objects in use were created.
LocksCreated == \A h \in InUse : h[2] # NoLock /\ h[2] <= created

\* A lock object belongs to one friend, filed or not.
OneFriend == \A h, k \in InUse : h[2] = k[2] => h = k

\* The lock of a listed friend that somebody uses is the one in the table.
ListedFiled ==
  \A t \in Threads : \A h \in Taken(t) : h[1] \in Listed => friend_locks[h[1]] = h[2]

\* Progress of a thread: what it waits for it still wants, what it holds comes
\* before what it wants.
InOrder ==
  \A t \in Threads :
    /\ \A h \in fetched[t] : h[1] \in want[t] /\ \A f \in want[t] : h[1] <= f
    /\ \A h \in held[t] : \A f \in want[t] : h[1] < f
    /\ \A h, k \in fetched[t] : h = k
    /\ pc[t] # "acquiring" => want[t] = {} /\ fetched[t] = {}
    /\ pc[t] = "idle" => held[t] = {}

\* The inductive invariant.
IInv == TypeOK /\ OneHolder /\ LocksCreated /\ OneFriend /\ ListedFiled /\ InOrder

LEMMA InitIInv == Init => IInv
  BY LocksConstants
  DEF Init, IInv, TypeOK, OneHolder, LocksCreated, OneFriend, ListedFiled, InOrder,
      InUse, Filed, Taken, NoLock

\* Asking for locks changes nothing about the locks.
LEMMA RequestPreserves ==
  ASSUME IInv, NEW t \in Threads, NEW names \in SUBSET Friends, Request(t, names)
  PROVE  IInv'
<1>1. TypeOK'
  BY DEF IInv, TypeOK, Request
<1>2. OneHolder' /\ LocksCreated' /\ OneFriend' /\ ListedFiled'
  BY DEF IInv, Request, OneHolder, LocksCreated, OneFriend, ListedFiled, InUse, Filed, Taken, Listed
<1>3. InOrder'
  BY DEF IInv, TypeOK, Request, InOrder
<1> QED
  BY <1>1, <1>2, <1>3 DEF IInv

\* Looking a lock up, creating it if need be.
LEMMA GetFriendLockPreserves ==
  ASSUME IInv, NEW t \in Threads, NEW f \in Friends, GetFriendLock(t, f)
  PROVE  IInv'
<1> DEFINE l == IF friend_locks[f] = NoLock THEN created + 1 ELSE friend_locks[f]
<1>1. /\ friend_locks' = [friend_locks EXCEPT ![f] = l]
      /\ fetched' = [fetched EXCEPT ![t] = {<<f, l>>}]
      /\ created' = IF friend_locks[f] = NoLock THEN created + 1 ELSE created
      /\ want' = want /\ held' = held /\ pc' = pc
      /\ f \in want[t] /\ \A g \in want[t] : f <= g
      /\ pc[t] = "acquiring" /\ fetched[t] = {}
  BY DEF GetFriendLock, IInv, TypeOK
<1>2. l \in Nat /\ l # NoLock /\ l <= created' /\ created <= created' /\ created' \in Nat
  <2>1. CASE friend_locks[f] = NoLock
    BY <2>1, <1>1 DEF IInv, TypeOK, NoLock
  <2>2. CASE friend_locks[f] # NoLock
    <3>1. <<f, friend_locks[f]>> \in InUse
      BY <2>2 DEF InUse, Filed
    <3> QED
      BY <2>2, <3>1, <1>1 DEF IInv, TypeOK, LocksCreated
  <2> QED
    BY <2>1, <2>2
<1>3. \A h \in InUse : h[2] = l => h = <<f, l>>
  <2>1. CASE friend_locks[f] = NoLock
    BY <2>1 DEF IInv, TypeOK, LocksCreated, InUse, Filed, Taken
  <2>2. CASE friend_locks[f] # NoLock
    <3>1. <<f, friend_locks[f]>> \in InUse
      BY <2>2 DEF InUse, Filed
    <3> QED
      BY <2>2, <3>1 DEF IInv, OneFriend
  <2> QED
    BY <2>1, <2>2
<1>4. InUse' \subseteq InUse \cup {<<f, l>>}
  BY <1>1 DEF InUse, Filed, Taken, IInv, TypeOK
<1> HIDE DEF l
<1>5. TypeOK'
  BY <1>1, <1>2 DEF IInv, TypeOK
<1>6. OneHolder'
  BY <1>1 DEF IInv, OneHolder
<1>7. LocksCreated'
  <2>1. \A h \in InUse : h[2] \in Nat /\ h[2] # NoLock /\ h[2] <= created
    BY DEF IInv, LocksCreated, InUse, Filed, Taken, TypeOK
  <2> QED
    BY <1>2, <1>4, <2>1 DEF LocksCreated, IInv, TypeOK
<1>8. OneFriend'
  BY <1>3, <1>4 DEF IInv, OneFriend
<1>9. ListedFiled'
  <2>1. Listed' = Listed
    BY DEF Listed
  <2>2. \A u \in Threads : \A h \in Taken(u) :
          h[1] \in Listed => friend_locks'[h[1]] = h[2]
    <3> SUFFICES ASSUME NEW u \in Threads, NEW h \in Taken(u), h[1] \in Listed
                 PROVE  friend_locks'[h[1]] = h[2]
      OBVIOUS
    <3>1. friend_locks[h[1]] = h[2] /\ h \in InUse /\ h[1] \in Friends
      BY DEF IInv, ListedFiled, InUse, Taken, TypeOK
    <3>2. friend_locks[h[1]] # NoLock
      BY <3>1 DEF IInv, LocksCreated
    <3> QED
      BY <1>1, <3>1, <3>2 DEF l, IInv, TypeOK
  <2> QED
    BY <1>1, <2>1, <2>2 DEF ListedFiled, Taken, IInv, TypeOK
<1>10. InOrder'
  BY <1>1 DEF IInv, InOrder, TypeOK
<1> QED
  BY <1>5, <1>6, <1>7, <1>8, <1>9, <1>10 DEF IInv

\* A step that creates no lock and lets no thread use more locks keeps what is known
\* of the lock objects.
LEMMA FewerInUse ==
  ASSUME IInv, friend_locks' = friend_locks, created' = created,
         \A t \in Threads : Taken(t)' \subseteq Taken(t)
  PROVE  LocksCreated' /\ OneFriend' /\ ListedFiled'
<1>1. InUse' \subseteq InUse
  BY DEF InUse, Filed
<1> QED
  BY <1>1 DEF IInv, LocksCreated, OneFriend, ListedFiled, Listed

\* Taking a free lock.
LEMMA AcquirePreserves ==
  ASSUME IInv, NEW t \in Threads, NEW h \in fetched[t], Acquire(t, h)
  PROVE  IInv'
<1>1. TypeOK'
  BY DEF IInv, TypeOK, Acquire
<1>2. LocksCreated' /\ OneFriend' /\ ListedFiled'
  BY FewerInUse DEF Acquire, Taken, IInv, TypeOK
<1>3. OneHolder'
  BY DEF IInv, OneHolder, Acquire, Free, TypeOK
<1>4. InOrder'
  <2>1. /\ h \in Friends \X Nat /\ want[t] \subseteq Friends
        /\ h[1] \in want[t] /\ \A f \in want[t] : h[1] <= f
    BY DEF IInv, TypeOK, InOrder
  <2>2. ASSUME NEW f \in want[t], f # h[1] PROVE h[1] < f
    <3>1. f \in Nat /\ h[1] \in Nat
      BY <2>1, LocksConstants
    <3> QED
      BY <2>1, <2>2, <3>1
  <2>3. ASSUME NEW u \in Threads, u # t PROVE
          /\ held'[u] = held[u] /\ fetched'[u] = fetched[u] /\ want'[u] = want[u]
          /\ pc'[u] = pc[u]
    BY <2>3 DEF Acquire, IInv, TypeOK
  <2>4. /\ held'[t] = held[t] \cup {h} /\ fetched'[t] = {}
        /\ want'[t] = want[t] \ {h[1]}
        /\ pc'[t] # "acquiring" => want'[t] = {}
        /\ pc'[t] # "idle"
    BY DEF Acquire, IInv, TypeOK
  <2>5. \A k \in held'[t] : \A f \in want'[t] : k[1] < f
    BY <2>2, <2>4 DEF IInv, InOrder
  <2> QED
    BY <2>3, <2>4, <2>5 DEF IInv, InOrder
<1> QED
  BY <1>1, <1>2, <1>3, <1>4 DEF IInv

\* Giving up after the timeout.
LEMMA TimeoutPreserves ==
  ASSUME IInv, NEW t \in Threads, NEW h \in fetched[t], AcquireTimeout(t, h)
  PROVE  IInv'
<1>1. TypeOK'
  BY DEF IInv, TypeOK, AcquireTimeout
<1>2. LocksCreated' /\ OneFriend' /\ ListedFiled'
  BY FewerInUse DEF AcquireTimeout, Taken, IInv, TypeOK
<1>3. OneHolder'
  BY DEF IInv, OneHolder, AcquireTimeout
<1>4. InOrder'
  BY DEF IInv, InOrder, AcquireTimeout, TypeOK
<1> QED
  BY <1>1, <1>2, <1>3, <1>4 DEF IInv

\* The end of the protected operation.
LEMMA LeavePreserves ==
  ASSUME IInv, NEW t \in Threads, Leave(t)
  PROVE  IInv'
<1>1. TypeOK'
  BY DEF IInv, TypeOK, Leave
<1>2. LocksCreated' /\ OneFriend' /\ ListedFiled'
  BY FewerInUse DEF Leave, Taken
<1>3. OneHolder'
  BY DEF IInv, OneHolder, Leave
<1>4. InOrder'
  BY DEF IInv, InOrder, Leave, TypeOK
<1> QED
  BY <1>1, <1>2, <1>3, <1>4 DEF IInv

\* Releasing the lock taken last.
LEMMA ReleasePreserves ==
  ASSUME IInv, NEW t \in Threads, NEW h \in held[t], Release(t, h)
  PROVE  IInv'
<1>1. TypeOK'
  BY DEF IInv, TypeOK, Release
<1>2. LocksCreated' /\ OneFriend' /\ ListedFiled'
  BY FewerInUse DEF Release, Taken, IInv, TypeOK
<1>3. OneHolder'
  BY DEF IInv, OneHolder, Release, TypeOK
<1>4. InOrder'
  BY DEF IInv, InOrder, Release, TypeOK
<1> QED
  BY <1>1, <1>2, <1>3, <1>4 DEF IInv

\* Dropping the table entries of friends who are not listed.
LEMMA CleanupPreserves ==
  ASSUME IInv, NEW active \in ActiveLists, CleanupFriendLocks(active)
  PROVE  IInv'
<1>1. TypeOK'
  BY DEF IInv, TypeOK, CleanupFriendLocks, NoLock
<1>2. InUse' \subseteq InUse
  BY DEF CleanupFriendLocks, InUse, Filed, Taken, NoLock
<1>3. LocksCreated' /\ OneFriend'
  BY <1>2 DEF IInv, LocksCreated, OneFriend, CleanupFriendLocks
<1>4. ListedFiled'
  <2>1. Listed' = Listed /\ \A t \in Threads : Taken(t)' = Taken(t)
    BY DEF Listed, Taken, CleanupFriendLocks
  <2>2. \A f \in Listed : friend_locks'[f] = friend_locks[f]
    BY DEF Listed, CleanupFriendLocks
  <2> QED
    BY <2>1, <2>2 DEF IInv, ListedFiled
<1>5. OneHolder' /\ InOrder'
  BY DEF IInv, OneHolder, InOrder, CleanupFriendLocks
<1> QED
  BY <1>1, <1>3, <1>4, <1>5 DEF IInv

-----------------------------------------------------------------------------
\* The invariant holds in every reachable state.
THEOREM InvariantHolds == Spec => []IInv
<1>1. IInv /\ [Next]_vars => IInv'
  <2> SUFFICES ASSUME IInv, [Next]_vars PROVE IInv'
    OBVIOUS
  <2>1. CASE UNCHANGED vars
    BY <2>1 DEF vars, IInv, TypeOK, OneHolder, LocksCreated, OneFriend, ListedFiled,
       InOrder, InUse, Filed, Taken, Listed
  <2>2. CASE \E t \in Threads, names \in (SUBSET Friends) \ {{}} : Request(t, names)
    BY <2>2, RequestPreserves
  <2>3. CASE \E t \in Threads : Proceed(t)
    BY <2>3, GetFriendLockPreserves, AcquirePreserves, TimeoutPreserves, LeavePreserves,
       ReleasePreserves DEF Proceed
  <2>4. CASE \E active \in ActiveLists : CleanupFriendLocks(active)
    BY <2>4, CleanupPreserves
  <2> QED
    BY <2>1, <2>2, <2>3, <2>4 DEF Next
<1> QED
  BY <1>1, InitIInv, PTL DEF Spec

\* The type invariant.
THEOREM TypeCorrect == Spec => []TypeOK
<1>1. IInv => TypeOK
  BY DEF IInv
<1> QED
  BY <1>1, InvariantHolds, PTL

\* Two threads never work on the ratchet of one listed friend at the same time.
THEOREM MutualExclusion == Spec => []ListedFriendsExclusive
<1>1. IInv => ListedFriendsExclusive
  <2> SUFFICES ASSUME IInv, NEW t \in Threads, NEW u \in Threads, NEW f \in Listed,
                      NEW h \in held[t], NEW k \in held[u], h[1] = f, k[1] = f
               PROVE  t = u
    BY DEF ListedFriendsExclusive, Inside
  <2>1. friend_locks[f] = h[2] /\ friend_locks[f] = k[2]
    BY DEF IInv, ListedFiled, Taken
  <2> QED
    BY <2>1 DEF IInv, OneHolder
<1> QED
  BY <1>1, InvariantHolds, PTL

\* Waiting goes up the canonical order, so threads never wait in a circle.
THEOREM WaitingIsOrdered == Spec => []WaitsUpward
<1>1. IInv => WaitsUpward
  <2> SUFFICES ASSUME IInv, NEW t \in Threads, NEW u \in Threads, NEW h \in fetched[t],
                      NEW k \in held[u], NEW g \in fetched[u], h[2] = k[2]
               PROVE  h[1] < g[1]
    BY DEF WaitsUpward
  <2>1. h = k
    BY DEF IInv, OneFriend, InUse, Taken
  <2> QED
    BY <2>1 DEF IInv, InOrder
<1> QED
  BY <1>1, InvariantHolds, PTL

\* An operation that ended or failed, also by a timeout halfway through several locks,
\* has released every lock it took.
THEOREM LocksAreReturned == Spec => []NoLockLeft
<1>1. IInv => NoLockLeft
  BY DEF IInv, InOrder, NoLockLeft
<1> QED
  BY <1>1, InvariantHolds, PTL

-----------------------------------------------------------------------------
\* Induction over the natural numbers, for a set.
LEMMA SetInduction ==
  ASSUME NEW S, 0 \in S, \A n \in Nat : n \in S => n + 1 \in S
  PROVE  Nat \subseteq S
<1> DEFINE T == Nat \ S
           R == OpToRel(<, Nat)
<1>1. IsWellFoundedOn(R, Nat)
  BY NatLessThanWellFounded
<1>2. \A x, y \in Nat : y < x => <<y, x>> \in R
  BY DEF OpToRel
<1> SUFFICES ASSUME T # {} PROVE FALSE
  OBVIOUS
<1> HIDE DEF R
<1>3. PICK x \in T : \A y \in T : ~ (<<y, x>> \in R)
  BY <1>1, WFMin
<1>4. x \in Nat /\ x # 0 /\ x \notin S
  OBVIOUS
<1>5. x - 1 \in Nat /\ x - 1 < x /\ x = (x - 1) + 1
  BY <1>4
<1>6. x - 1 \notin T
  BY <1>2, <1>3, <1>4, <1>5
<1>7. x - 1 \in S
  BY <1>5, <1>6
<1>8. (x - 1) + 1 \in S
  BY <1>5, <1>7
<1> QED
  BY <1>4, <1>5, <1>8

\* A finite set of ranks that is not empty has a last one.
LEMMA LastRank ==
  ASSUME NEW X \in SUBSET Nat, IsFiniteSet(X), X # {}
  PROVE  \E m \in X : \A y \in X : y <= m
<1> DEFINE HasLast(Y) == \E m \in Y : \A y \in Y : y <= m
           Sized(n) == {Y \in SUBSET Nat : IsFiniteSet(Y) /\ Cardinality(Y) = n}
           S == {n \in Nat : \A Y \in Sized(n) : Y # {} => HasLast(Y)}
<1>1. 0 \in S
  BY FS_EmptySet
<1>2. ASSUME NEW n \in Nat, n \in S PROVE n + 1 \in S
  <2> SUFFICES ASSUME NEW Y \in Sized(n + 1), Y # {} PROVE HasLast(Y)
    OBVIOUS
  <2>1. PICK a : a \in Y
    OBVIOUS
  <2> DEFINE Z == Y \ {a}
  <2>2. a \in Nat /\ Y \in SUBSET Nat /\ IsFiniteSet(Y) /\ Cardinality(Y) = n + 1
    BY <2>1
  <2>3. IsFiniteSet(Z) /\ Cardinality(Z) = Cardinality(Y) - 1
    BY <2>1, <2>2, FS_RemoveElement
  <2>4. Z \in Sized(n)
    BY <2>2, <2>3
  <2>5. CASE Z = {}
    BY <2>1, <2>2, <2>5
  <2>6. CASE Z # {}
    <3>1. PICK b \in Z : \A y \in Z : y <= b
      BY <1>2, <2>4, <2>6
    <3>2. b \in Nat /\ b \in Y /\ \A y \in Y : y = a \/ y <= b
      BY <2>2, <3>1
    <3>3. CASE a <= b
      BY <3>2, <3>3
    <3>4. CASE ~(a <= b)
      <4>1. \A y \in Y : y \in Nat /\ y <= a
        BY <2>2, <3>2, <3>4
      <4> QED
        BY <2>1, <4>1
    <3> QED
      BY <3>3, <3>4
  <2> QED
    BY <2>5, <2>6
<1> HIDE DEF S
<1>3. Nat \subseteq S
  BY <1>1, <1>2, SetInduction
<1>4. Cardinality(X) \in S
  BY <1>3, FS_CardinalityType
<1> QED
  BY <1>4 DEF S

\* No group of threads waits in a circle: of the threads of the group that wait, the one
\* that waits for the last friend of all in canonical order waits for nobody of the group.
THEOREM NobodyWaitsInCircles == Spec => []NoWaitCycle
<1>1. IInv /\ WaitsUpward => NoWaitCycle
  <2> SUFFICES ASSUME IInv, WaitsUpward, NEW group \in (SUBSET Threads) \ {{}}
               PROVE  \E t \in group : \A u \in group : ~WaitsFor(t, u)
    BY DEF NoWaitCycle
  <2> SUFFICES ASSUME \A t \in group : \E u \in group : WaitsFor(t, u) PROVE FALSE
    OBVIOUS
  <2> DEFINE X == {h[1] : h \in UNION {fetched[t] : t \in group}}
  <2>1. \A t \in group : fetched[t] \subseteq Friends \X Nat
    BY DEF IInv, TypeOK
  <2>2. X \subseteq Friends
    BY <2>1
  <2>3. X \in SUBSET Nat /\ IsFiniteSet(X)
    BY <2>2, FS_Subset, LocksConstants
  <2>4. \A t \in group : \E h \in fetched[t] : TRUE
    BY DEF WaitsFor
  <2>5. X # {}
    <3>1. PICK t \in group : TRUE
      OBVIOUS
    <3>2. PICK h \in fetched[t] : TRUE
      BY <2>4
    <3>3. h[1] \in X
      BY <3>1, <3>2
    <3> QED
      BY <3>3
  <2>6. PICK m \in X : \A y \in X : y <= m
    BY <2>3, <2>5, LastRank
  <2>7. PICK t \in group : \E h \in fetched[t] : h[1] = m
    BY <2>6
  <2>a. PICK h \in fetched[t] : h[1] = m
    BY <2>7
  <2>8. PICK u \in group : WaitsFor(t, u)
    OBVIOUS
  <2>9. PICK g \in fetched[t], k \in held[u] : g[2] = k[2]
    BY <2>8 DEF WaitsFor
  <2>10. g = h
    BY <2>9, <2>a DEF IInv, InOrder
  <2>11. PICK w \in fetched[u] : TRUE
    BY <2>4
  <2>12. h[1] < w[1]
    BY <2>9, <2>10 DEF WaitsUpward
  <2>13. w[1] \in X
    BY <2>11
  <2>14. w[1] <= m /\ w[1] \in Nat /\ m \in Nat
    BY <2>3, <2>6, <2>13
  <2> QED
    BY <2>12, <2>14, <2>a
<1> QED
  BY <1>1, InvariantHolds, WaitingIsOrdered, PTL
=============================================================================

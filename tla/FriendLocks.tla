----------------------------- MODULE FriendLocks -----------------------------
(***************************************************************************)
(* The per-friend locks of services/ratchet_service.py: the table          *)
(* _friend_locks, the lock objects in it, the threads that take one lock   *)
(* (_acquire_friend_lock) or several (acquire_friend_locks_ordered), and   *)
(* the maintenance agent that drops entries (cleanup_friend_locks).        *)
(*                                                                         *)
(* A thread looks the lock object up under _locks_guard and acquires it    *)
(* afterwards, without the guard: between the two steps the agent may      *)
(* remove the table entry and another thread may create a new lock object  *)
(* for the same friend.                                                    *)
(*                                                                         *)
(* A friend is its rank in the canonical order (case-insensitive, then     *)
(* case-sensitive name), a lock object the how-manieth one created.        *)
(***************************************************************************)
EXTENDS Integers, FiniteSets

CONSTANTS
  Friends,       \* ranks of the friends
  Threads,       \* the worker threads
  ActiveLists,   \* the name lists the maintenance agent may pass to the cleanup
  MaxLocks       \* bound: the agent rests once this many locks were created

ASSUME LocksConstants ==
  /\ Friends \subseteq Nat
  /\ IsFiniteSet(Friends)
  /\ ActiveLists \subseteq SUBSET Friends
  /\ MaxLocks \in Nat

NoLock == 0

VARIABLES
  friend_locks,  \* the lock object filed for each friend, or NoLock
  created,       \* how many lock objects exist
  want,          \* the friends whose locks a thread still has to take
  fetched,       \* the <<friend, lock>> a thread looked up and waits for, if any
  held,          \* the <<friend, lock>> pairs a thread holds
  pc             \* "idle", "acquiring", "inside" or "releasing"

vars == <<friend_locks, created, want, fetched, held, pc>>

\* The lock object l is held by nobody.
Free(l) == \A t \in Threads : \A h \in held[t] : h[2] # l

\* The operation of thread t holds the locks it asked for.
Inside(t, f) == pc[t] = "inside" /\ \E h \in held[t] : h[1] = f

Init ==
  /\ friend_locks = [f \in Friends |-> NoLock]
  /\ created = 0
  /\ want = [t \in Threads |-> {}]
  /\ fetched = [t \in Threads |-> {}]
  /\ held = [t \in Threads |-> {}]
  /\ pc = [t \in Threads |-> "idle"]

\* encrypt_message and decrypt_message want one lock, a batch operation several.
Request(t, names) ==
  /\ pc[t] = "idle"
  /\ pc' = [pc EXCEPT ![t] = "acquiring"]
  /\ want' = [want EXCEPT ![t] = names]
  /\ UNCHANGED <<friend_locks, created, fetched, held>>

\* Mutant of GetFriendLock: the names are taken in any order.
GetFriendLockUnordered(t, f) ==
  /\ pc[t] = "acquiring" /\ fetched[t] = {}
  /\ f \in want[t]
  /\ IF friend_locks[f] = NoLock
     THEN /\ created' = created + 1
          /\ friend_locks' = [friend_locks EXCEPT ![f] = created + 1]
          /\ fetched' = [fetched EXCEPT ![t] = {<<f, created + 1>>}]
     ELSE /\ fetched' = [fetched EXCEPT ![t] = {<<f, friend_locks[f]>>}]
          /\ UNCHANGED <<friend_locks, created>>
  /\ UNCHANGED <<want, held, pc>>

\* _get_friend_lock for the next name in canonical order.
GetFriendLock(t, f) ==
  /\ pc[t] = "acquiring" /\ fetched[t] = {}
  /\ f \in want[t] /\ \A g \in want[t] : f <= g
  /\ IF friend_locks[f] = NoLock
     THEN /\ created' = created + 1
          /\ friend_locks' = [friend_locks EXCEPT ![f] = created + 1]
          /\ fetched' = [fetched EXCEPT ![t] = {<<f, created + 1>>}]
     ELSE /\ fetched' = [fetched EXCEPT ![t] = {<<f, friend_locks[f]>>}]
          /\ UNCHANGED <<friend_locks, created>>
  /\ UNCHANGED <<want, held, pc>>

\* lock.acquire succeeds; the last lock ends the acquisition.
Acquire(t, h) ==
  /\ pc[t] = "acquiring" /\ h \in fetched[t]
  /\ Free(h[2])
  /\ held' = [held EXCEPT ![t] = @ \cup {h}]
  /\ fetched' = [fetched EXCEPT ![t] = {}]
  /\ want' = [want EXCEPT ![t] = @ \ {h[1]}]
  /\ pc' = [pc EXCEPT ![t] = IF want[t] = {h[1]} THEN "inside" ELSE "acquiring"]
  /\ UNCHANGED <<friend_locks, created>>

\* Mutants of AcquireTimeout: the operation fails without releasing the locks it has,
\* or it tries again for ever.
AcquireTimeoutLeaks(t, h) ==
  /\ pc[t] = "acquiring" /\ h \in fetched[t]
  /\ ~Free(h[2])
  /\ fetched' = [fetched EXCEPT ![t] = {}]
  /\ want' = [want EXCEPT ![t] = {}]
  /\ pc' = [pc EXCEPT ![t] = "idle"]
  /\ UNCHANGED <<friend_locks, created, held>>

AcquireTimeoutRetries(t, h) ==
  /\ pc[t] = "acquiring" /\ h \in fetched[t]
  /\ ~Free(h[2])
  /\ fetched' = [fetched EXCEPT ![t] = {}]
  /\ UNCHANGED <<friend_locks, created, want, held, pc>>

\* lock.acquire times out: ConcurrencyError, the locks taken so far are released.
AcquireTimeout(t, h) ==
  /\ pc[t] = "acquiring" /\ h \in fetched[t]
  /\ ~Free(h[2])
  /\ fetched' = [fetched EXCEPT ![t] = {}]
  /\ want' = [want EXCEPT ![t] = {}]
  /\ pc' = [pc EXCEPT ![t] = IF held[t] = {} THEN "idle" ELSE "releasing"]
  /\ UNCHANGED <<friend_locks, created, held>>

\* The protected operation ends, normally or by an exception.
Leave(t) ==
  /\ pc[t] = "inside"
  /\ pc' = [pc EXCEPT ![t] = "releasing"]
  /\ UNCHANGED <<friend_locks, created, want, fetched, held>>

\* lock.release(), in reverse order of acquisition: after a timeout, or in the finally of the
\* operation.
Release(t, h) ==
  /\ pc[t] = "releasing"
  /\ h \in held[t] /\ \A g \in held[t] : g[1] <= h[1]
  /\ held' = [held EXCEPT ![t] = @ \ {h}]
  /\ pc' = [pc EXCEPT ![t] = IF held[t] = {h} THEN "idle" ELSE "releasing"]
  /\ UNCHANGED <<friend_locks, created, want, fetched>>

\* Mutants of CleanupFriendLocks: the list of active friends is not consulted, or the
\* table is rebuilt from it.
CleanupFriendLocksAll(active) ==
  /\ created < MaxLocks
  /\ friend_locks' = [f \in Friends |-> IF Free(friend_locks[f]) THEN NoLock
                                        ELSE friend_locks[f]]
  /\ UNCHANGED <<created, want, fetched, held, pc>>

CleanupFriendLocksRebuilt(active) ==
  /\ created < MaxLocks
  /\ friend_locks' = [f \in active |-> friend_locks[f]]
  /\ UNCHANGED <<created, want, fetched, held, pc>>

\* cleanup_friend_locks(active): an entry of a friend who is not listed goes if its
\* lock can be acquired at once.  The program only calls it from the agent, which always passes
\* a list: the branch without one, which goes by the age of the locks (LOCK_MAX_AGE), is left out.
CleanupFriendLocks(active) ==
  /\ created < MaxLocks
  /\ friend_locks' =
       [f \in Friends |-> IF f \notin active /\ Free(friend_locks[f]) THEN NoLock
                          ELSE friend_locks[f]]
  /\ UNCHANGED <<created, want, fetched, held, pc>>

\* What thread t does once it has asked for locks.
Proceed(t) ==
  \/ \E f \in Friends : GetFriendLock(t, f)
  \/ \E h \in fetched[t] : Acquire(t, h)
  \/ \E h \in fetched[t] : AcquireTimeout(t, h)
  \/ Leave(t)
  \/ \E h \in held[t] : Release(t, h)

Next ==
  \/ \E t \in Threads, names \in (SUBSET Friends) \ {{}} : Request(t, names)
  \/ \E t \in Threads : Proceed(t)
  \/ \E active \in ActiveLists : CleanupFriendLocks(active)

\* A thread that has asked for locks keeps running: the operating system schedules
\* it and lock.acquire returns, with or without the lock, after the timeout.
Fairness == \A t \in Threads : WF_vars(Proceed(t))

Spec == Init /\ [][Next]_vars
FairSpec == Spec /\ Fairness

-----------------------------------------------------------------------------
(* Correctness.                                                            *)

\* Friends whom no cleanup can take for removed ones.
Listed == {f \in Friends : \A active \in ActiveLists : f \in active}

\* Type invariant.
TypeOK ==
  /\ friend_locks \in [Friends -> Nat]
  /\ created \in Nat
  /\ want \in [Threads -> SUBSET Friends]
  /\ fetched \in [Threads -> SUBSET (Friends \X Nat)]
  /\ held \in [Threads -> SUBSET (Friends \X Nat)]
  /\ pc \in [Threads -> {"idle", "acquiring", "inside", "releasing"}]

\* Two threads never work on the ratchet of one friend at once, while every cleanup
\* lists that friend (the critical sections of encrypt_message / decrypt_message).
ListedFriendsExclusive ==
  \A t, u \in Threads : \A f \in Listed : Inside(t, f) /\ Inside(u, f) => t = u

\* A lock object has one holder, also when its table entry was dropped meanwhile.
OneHolder ==
  \A t, u \in Threads : \A h \in held[t], k \in held[u] :
    h[2] = k[2] => t = u /\ h = k

\* t waits for a lock that u holds.
WaitsFor(t, u) == \E h \in fetched[t], k \in held[u] : h[2] = k[2]

\* No group of threads waits in a circle, whatever sets of friends they lock and in
\* whatever order they named them (acquire_friend_locks_ordered).
NoWaitCycle ==
  \A group \in (SUBSET Threads) \ {{}} :
    \E t \in group : \A u \in group : ~WaitsFor(t, u)

\* A thread only ever waits for one that waits, if at all, for a friend further on in
\* the canonical order: why no circle can close.
WaitsUpward ==
  \A t, u \in Threads : \A h \in fetched[t], k \in held[u], g \in fetched[u] :
    h[2] = k[2] => h[1] < g[1]

\* No lock stays behind: an operation that failed or ended holds none, and a thread
\* that holds locks is still to release them.
NoLockLeft == \A t \in Threads : pc[t] = "idle" => held[t] = {} /\ fetched[t] = {}

\* Every operation that asks for locks ends, having done its work or failed.
EveryRequestEnds == \A t \in Threads : pc[t] = "acquiring" ~> pc[t] = "idle"
=============================================================================

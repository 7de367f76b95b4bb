---------------------------- MODULE Lockout_proof ----------------------------
(***************************************************************************)
(* For every backoff table, threshold and duration: while the database     *)
(* works no failure is forgotten, and no password is checked earlier than  *)
(* the schedule allows.                                                    *)
(*                                                                         *)
(* The schedule is kept because the entry determines when the next check   *)
(* may come: a call that sleeps wakes late enough (CallWaits), and below   *)
(* the threshold no hard lockout is set (EntryShape), so the table delay   *)
(* is the one that is slept.                                               *)
(***************************************************************************)
EXTENDS Lockout, TLAPS

\* The hard lockout set by the last failure, or none.
EntryShape ==
  faults = 0 =>
    mem.locked_until =
      IF streak >= HARD_LOCKOUT_THRESHOLD THEN lastFail + HARD_LOCKOUT_DURATION ELSE 0

\* A sleeping verification wakes no earlier than the schedule allows.
CallWaits ==
  faults = 0 /\ call # NoCall => call.wake >= lastFail + Required(streak)

\* The inductive invariant.
IInv == TypeOK /\ lastFail <= now /\ NoFailureForgotten /\ EntryShape /\ CallWaits

-----------------------------------------------------------------------------
\* The delays of the table are natural numbers.
LEMMA TableDelayType == \A n \in Nat : TableDelay(n) \in Nat
  BY LockoutConstants DEF TableDelay

\* A check of a password keeps the invariant, if the entry in memory is the checked one.
LEMMA CheckPreserves ==
  ASSUME IInv, NEW pw \in Passwords, Check(pw), mem' = AfterCheck(mem, pw),
         call' = NoCall, now' = now, recoveries' = recoveries,
         screen' \in {"login", "open", "locked", "exited"}, logins' \in Nat,
         decoy' \in BOOLEAN
  PROVE  IInv'
<1>1. TypeOK'
  <2>1. AfterFailure(mem) \in Entry
    BY LockoutConstants DEF IInv, TypeOK, AfterFailure, Entry
  <2>2. mem' \in Entry /\ disk' \in Entry
    BY <2>1 DEF IInv, TypeOK, Check, AfterCheck, Entry, NoFailures
  <2>3. /\ now' \in Nat /\ lastFail' \in Nat /\ streak' \in Nat /\ checks' \in Nat
        /\ faults' \in Nat /\ recoveries' \in Nat
    BY DEF IInv, TypeOK, Check
  <2> QED
    BY <2>2, <2>3 DEF TypeOK, Check
<1>2. (lastFail <= now)'
  BY DEF IInv, TypeOK, Check
<1>3. NoFailureForgotten'
  BY DEF IInv, TypeOK, NoFailureForgotten, Check, AfterCheck, AfterFailure, Entry, NoFailures
<1>4. EntryShape'
  BY LockoutConstants
  DEF IInv, TypeOK, EntryShape, NoFailureForgotten, Check, AfterCheck, AfterFailure, Entry,
      NoFailures
<1>5. CallWaits'
  BY DEF CallWaits
<1> QED
  BY <1>1, <1>2, <1>3, <1>4, <1>5 DEF IInv

\* A new KeyStore that reads the stored entry keeps the invariant.
LEMMA NewKeyStorePreserves ==
  ASSUME IInv, NewKeyStore(disk), disk' = disk, streak' = streak, lastFail' = lastFail,
         checks' = checks, call' = NoCall, now' = now, recoveries' \in Nat,
         screen' \in {"login", "open", "locked", "exited"}, logins' \in Nat,
         decoy' \in BOOLEAN, refused' \in Nat \cup {Never}
  PROVE  IInv'
<1>1. faults' = 0 => faults = 0 /\ mem' = mem
  BY DEF IInv, TypeOK, NewKeyStore, NoFailureForgotten
<1>2. TypeOK'
  BY DEF IInv, TypeOK, NewKeyStore, Entry, NoFailures, NoCall
<1> QED
  BY <1>1, <1>2 DEF IInv, TypeOK, NoFailureForgotten, EntryShape, CallWaits

\* The initial state.
LEMMA InitIInv == Init => IInv
<1> SUFFICES ASSUME Init PROVE IInv
  OBVIOUS
<1>1. TypeOK
  BY DEF Init, TypeOK, Entry, NoFailures, Never
<1>2. NoFailureForgotten /\ EntryShape /\ CallWaits
  BY LockoutConstants DEF Init, NoFailureForgotten, EntryShape, CallWaits, NoFailures
<1> QED
  BY <1>1, <1>2 DEF Init, IInv

\* Every step.
LEMMA NextIInv == IInv /\ [Next]_vars => IInv'
<1> SUFFICES ASSUME IInv, [Next]_vars PROVE IInv'
  OBVIOUS
<1> USE DEF lockout
<1>1. ASSUME NEW pw \in Passwords, VerifyPassword(pw) PROVE IInv'
  <2>1. Delay(mem) \in Nat
    BY TableDelayType DEF IInv, TypeOK, Delay, Entry
  <2>2. call' = [pw |-> pw, wake |-> now + Delay(mem)] /\ now + Delay(mem) \in Nat
    BY <1>1, <2>1 DEF VerifyPassword, IInv, TypeOK
  <2>3. TypeOK'
    BY <1>1, <2>2 DEF VerifyPassword, IInv, TypeOK
  <2>4. ASSUME faults = 0 PROVE now + Delay(mem) >= lastFail + Required(streak)
    <3>1. mem.failures = streak /\ TableDelay(streak) \in Nat
      BY <2>4, TableDelayType DEF IInv, TypeOK, NoFailureForgotten
    <3>2. CASE streak >= HARD_LOCKOUT_THRESHOLD
      <4>1. /\ mem.locked_until = lastFail + HARD_LOCKOUT_DURATION
            /\ Required(streak) = HARD_LOCKOUT_DURATION
        BY <2>4, <3>2 DEF IInv, EntryShape, Required
      <4>2. CASE mem.locked_until > now
        BY <4>1, <4>2, LockoutConstants DEF IInv, TypeOK, Delay
      <4>3. CASE ~(mem.locked_until > now)
        BY <2>1, <4>1, <4>3, LockoutConstants DEF IInv, TypeOK
      <4> QED
        BY <4>2, <4>3
    <3>3. CASE ~(streak >= HARD_LOCKOUT_THRESHOLD)
      <4>1. mem.locked_until = 0 /\ ~(mem.locked_until > now)
        BY <2>4, <3>3 DEF IInv, TypeOK, EntryShape
      <4>2. Delay(mem) = TableDelay(streak) /\ Required(streak) = TableDelay(streak)
        BY <3>1, <3>3, <4>1 DEF Delay, Required
      <4> QED
        BY <3>1, <4>2 DEF IInv, TypeOK
    <3> QED
      BY <3>2, <3>3
  <2>5. UNCHANGED <<now, disk, mem, streak, lastFail, faults>>
    BY <1>1 DEF VerifyPassword
  <2> QED
    BY <2>2, <2>3, <2>4, <2>5
    DEF IInv, NoFailureForgotten, EntryShape, CallWaits, Required, TableDelay
<1>2. ASSUME Woken, call # NoCall PROVE call.pw \in Passwords /\ call' = NoCall
  BY <1>2 DEF Woken, IInv, TypeOK
<1>3. CASE LoginAnswer
  <2>1. call.pw \in Passwords /\ call' = NoCall
    BY <1>2, <1>3 DEF LoginAnswer, Woken
  <2>2. /\ screen' \in {"login", "open", "locked", "exited"}
        /\ logins' \in Nat
    BY <1>3 DEF LoginAnswer, IInv, TypeOK
  <2>3. decoy' \in BOOLEAN
    BY <1>3, Zenon DEF LoginAnswer, IInv, TypeOK
  <2> QED
    BY <1>3, <2>1, <2>2, <2>3, CheckPreserves DEF LoginAnswer
<1>4. CASE SettingsAnswer
  BY <1>2, <1>4, CheckPreserves DEF SettingsAnswer, IInv, TypeOK, Woken
<1>5. CASE UnlockAnswer
  <2>1. call.pw \in Passwords /\ call' = NoCall
    BY <1>2, <1>5 DEF UnlockAnswer, Woken
  <2>2. CASE call.pw # "duress"
    BY <1>5, <2>1, <2>2, CheckPreserves DEF UnlockAnswer, IInv, TypeOK
  <2>3. CASE call.pw = "duress"
    <3>1. TypeOK'
      BY <1>5, <2>1, <2>3
      DEF UnlockAnswer, IInv, TypeOK, Check, AfterCheck, NoFailures, Entry, Never
    <3>2. faults' = 0 => faults = 0 /\ disk' = NoFailures /\ mem' = NoFailures /\ streak' = 0
      BY <1>5, <2>3 DEF UnlockAnswer, IInv, TypeOK, Check, AfterCheck
    <3>3. (lastFail <= now)'
      BY <1>5, <2>3 DEF UnlockAnswer, IInv, TypeOK, Check
    <3> QED
      BY <3>1, <3>2, <3>3, <2>1, LockoutConstants
      DEF IInv, NoFailureForgotten, EntryShape, CallWaits, NoFailures
  <2> QED
    BY <2>2, <2>3
<1>6. CASE RefuseAttempt
  <2>1. now + Delay(mem) \in Nat
    BY TableDelayType DEF IInv, TypeOK, Delay, Entry
  <2> QED
    BY <1>6, <2>1
    DEF RefuseAttempt, IInv, TypeOK, NoFailureForgotten, EntryShape, CallWaits
<1>7. ASSUME NEW pw \in Passwords, CheckAttempt(pw) PROVE IInv'
  BY <1>7, CheckPreserves DEF CheckAttempt, IInv, TypeOK
<1>8. CASE EmergencyLock
  BY <1>8
  DEF EmergencyLock, IInv, TypeOK, NoFailureForgotten, EntryShape, CallWaits, Required, TableDelay
<1>9. CASE UnlockByHash
  BY <1>9, NewKeyStorePreserves DEF UnlockByHash, IInv, TypeOK
<1>10. CASE RecoveryUnlock
  <2>1. recoveries' \in Nat
    BY <1>10 DEF RecoveryUnlock, IInv, TypeOK
  <2> QED
    BY <1>10, <2>1, NewKeyStorePreserves DEF RecoveryUnlock, IInv, TypeOK
<1>11. CASE RecoveryAbandoned
  BY <1>11
  DEF RecoveryAbandoned, IInv, TypeOK, NoFailureForgotten, EntryShape, CallWaits, Required,
      TableDelay, MaxLogins
<1>12. CASE Restart
  BY <1>12, NewKeyStorePreserves DEF Restart, IInv, TypeOK, MaxLogins, Never
<1>13. CASE Tick
  BY <1>13
  DEF Tick, IInv, TypeOK, NoFailureForgotten, EntryShape, CallWaits, Required, TableDelay
<1>14. CASE UNCHANGED vars
  BY <1>14
  DEF vars, IInv, TypeOK, NoFailureForgotten, EntryShape, CallWaits, Required, TableDelay
<1> QED
  BY <1>1, <1>3, <1>4, <1>5, <1>6, <1>7, <1>8, <1>9, <1>10, <1>11, <1>12, <1>13, <1>14
  DEF Next

\* The invariant holds in every reachable state.
THEOREM InvariantHolds == Spec => []IInv
  BY InitIInv, NextIInv, PTL DEF Spec

\* No failed attempt is forgotten across restarts, unlocks, recoveries and changes of
\* KeyStore, whatever the backoff table (LockoutManager, AuthManager, KeyStore).
THEOREM FailuresSurvive == Spec => []NoFailureForgotten
<1>1. IInv => NoFailureForgotten
  BY DEF IInv
<1> QED
  BY <1>1, InvariantHolds, PTL

\* No verifier checks a password earlier than the schedule allows, whatever the backoff
\* table, the threshold and the duration.
THEOREM ScheduleIsKept == Spec => ScheduleRespected
<1>1. IInv /\ [Next]_vars =>
        [checks' # checks /\ faults = 0 => now >= lastFail + Required(streak)]_vars
  <2> SUFFICES ASSUME IInv, Next, checks' # checks, faults = 0
               PROVE  now >= lastFail + Required(streak)
    OBVIOUS
  <2>1. CASE Woken
    <3>1. Required(streak) \in Nat
      BY TableDelayType, LockoutConstants DEF IInv, TypeOK, Required
    <3>2. call.wake \in Nat /\ call.wake >= lastFail + Required(streak) /\ now >= call.wake
      BY <2>1 DEF Woken, IInv, TypeOK, CallWaits
    <3> QED
      BY <3>1, <3>2 DEF IInv, TypeOK
  <2>2. ASSUME NEW pw \in Passwords, CheckAttempt(pw)
        PROVE  now >= lastFail + Required(streak)
    <3>1. Delay(mem) = 0 /\ mem.failures = streak /\ TableDelay(streak) \in Nat
      BY <2>2, TableDelayType DEF CheckAttempt, IInv, TypeOK, NoFailureForgotten
    <3>2. ~(mem.locked_until > now) /\ TableDelay(streak) = 0
      BY <3>1 DEF Delay, IInv, TypeOK, Entry
    <3> QED
      BY <3>1, <3>2, LockoutConstants DEF IInv, TypeOK, EntryShape, Required
  <2>3. Woken \/ \E pw \in Passwords : CheckAttempt(pw)
    BY DEF Next, VerifyPassword, LoginAnswer, SettingsAnswer, UnlockAnswer, RefuseAttempt,
       EmergencyLock, UnlockByHash, RecoveryUnlock, RecoveryAbandoned, Restart, Tick, lockout
  <2> QED
    BY <2>1, <2>2, <2>3
<1> QED
  BY <1>1, InvariantHolds, PTL DEF Spec, ScheduleRespected
=============================================================================

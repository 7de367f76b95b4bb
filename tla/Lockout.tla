------------------------------- MODULE Lockout -------------------------------
(***************************************************************************)
(* Password attempts and the lockout they cause: security/lockout.py       *)
(* (LockoutManager, one per KeyStore, kept in the settings table), the two *)
(* verifiers that share it (services/auth_manager.py sleeps the delay away *)
(* on the GUI thread, key_manager.py refuses with LockoutError) and the    *)
(* screens of controllers/auth_controller.py that call them.               *)
(*                                                                         *)
(* Everything here runs on the GUI thread, so a sleeping verification      *)
(* keeps every other action waiting, except that the process may be killed *)
(* and started again.  A password is what it turns out to be: "real",      *)
(* "duress" or "wrong".                                                    *)
(***************************************************************************)
EXTENDS Integers, Sequences

CONSTANTS
  Backoff,                  \* backoff_table
  HARD_LOCKOUT_THRESHOLD,
  HARD_LOCKOUT_DURATION,
  MaxTime,                  \* bound: the clock stops here
  MaxChecks,                \* bound: passwords checked against the database
  MaxFaults,                \* bound: failed reads and writes of lockout_data
  MaxRecoveries             \* bound: recoveries with Shamir shares

ASSUME LockoutConstants ==
  /\ Backoff \in Seq(Nat) /\ Len(Backoff) > 0
  /\ HARD_LOCKOUT_THRESHOLD \in Nat \ {0}
  /\ HARD_LOCKOUT_DURATION \in Nat
  /\ {MaxTime, MaxChecks, MaxFaults, MaxRecoveries} \subseteq Nat

MaxLogins == 3    \* range(3) of _existing_user_login

VARIABLES
  now,        \* time.time()
  disk,       \* settings.lockout_data
  mem,        \* the LockoutManager of the current KeyStore
  screen,     \* "login", "open", "locked" or "exited"
  logins,     \* passwords refused on the login screen
  decoy,      \* the decoy is loaded and _master_password_hash is a placeholder
  call,       \* the AuthManager.verify_password under way, if any
  refused,    \* until when the last LockoutError told the caller to wait
  streak,     \* failed checks since the last one that succeeded
  lastFail,   \* when the last failed check was made
  checks,     \* how many passwords were checked against the database
  faults,     \* how many reads or writes of lockout_data failed
  recoveries

lockout == <<disk, mem, streak, lastFail, checks, faults>>
vars == <<now, disk, mem, screen, logins, decoy, call, refused, streak, lastFail, checks,
          faults, recoveries>>

Passwords == {"real", "duress", "wrong"}
Entry == [failures : Nat, locked_until : Nat]
NoFailures == [failures |-> 0, locked_until |-> 0]
NoCall == [pw |-> "none", wake |-> 0]
Never == -1

Init ==
  /\ now = 0
  /\ disk = NoFailures /\ mem = NoFailures
  /\ screen = "login" /\ logins = 0
  /\ decoy = FALSE
  /\ call = NoCall
  /\ refused = Never
  /\ streak = 0 /\ lastFail = 0 /\ checks = 0
  /\ faults = 0 /\ recoveries = 0

\* BACKOFF_TABLE[min(failed_attempts, len(BACKOFF_TABLE) - 1)]
TableDelay(n) == IF n < Len(Backoff) THEN Backoff[n + 1] ELSE Backoff[Len(Backoff)]

\* Mutant of Delay: only the hard lockout delays.
DelayHardOnly(l) == IF l.locked_until > now THEN l.locked_until - now ELSE 0

\* get_delay
Delay(l) == IF l.locked_until > now THEN l.locked_until - now ELSE TableDelay(l.failures)

\* record_failure, on the entry
AfterFailure(l) ==
  [failures |-> l.failures + 1,
   locked_until |-> IF l.failures + 1 >= HARD_LOCKOUT_THRESHOLD
                    THEN now + HARD_LOCKOUT_DURATION ELSE l.locked_until]

\* The entry after a password was checked: reset() or record_failure().
AfterCheck(l, pw) == IF pw = "wrong" THEN AfterFailure(l) ELSE NoFailures

\* A check of pw: the entry changes in memory and is saved; save_state only logs
\* an error of the database.
Check(pw) ==
  /\ checks < MaxChecks
  /\ checks' = checks + 1
  /\ streak' = IF pw = "wrong" THEN streak + 1 ELSE 0
  /\ lastFail' = IF pw = "wrong" THEN now ELSE lastFail
  /\ refused' = Never
  /\ \/ disk' = AfterCheck(mem, pw) /\ UNCHANGED faults
     \/ faults < MaxFaults /\ faults' = faults + 1 /\ UNCHANGED disk

\* Mutant of NewKeyStore: the entry is not read.
NewKeyStoreBlank(d) == mem' = NoFailures /\ UNCHANGED faults

\* A new KeyStore() reads entry d; on an error it starts from nothing.
NewKeyStore(d) ==
  \/ mem' = d /\ UNCHANGED faults
  \/ faults < MaxFaults /\ faults' = faults + 1 /\ mem' = NoFailures

-----------------------------------------------------------------------------
(* AuthManager.verify_password.                                            *)

\* It is called from the login screen, from the password settings, and from the lock
\* screen when the password does not match _master_password_hash; it sleeps the delay.
VerifyPassword(pw) ==
  /\ call = NoCall
  /\ screen # "exited"
  /\ screen = "locked" /\ ~decoy => pw # "real"
  /\ call' = [pw |-> pw, wake |-> now + Delay(mem)]
  /\ UNCHANGED <<now, disk, mem, screen, logins, decoy, refused, streak, lastFail, checks,
                 faults, recoveries>>

\* The call wakes up.
Woken == call # NoCall /\ now >= call.wake /\ call' = NoCall

\* _existing_user_login: the decoy or the keys are loaded, or one of three tries is used.
LoginAnswer ==
  /\ Woken /\ screen = "login"
  /\ Check(call.pw)
  /\ mem' = AfterCheck(mem, call.pw)
  /\ \/ /\ call.pw # "wrong"
        /\ screen' = "open" /\ decoy' = (call.pw = "duress")
        /\ UNCHANGED logins
     \/ /\ call.pw = "real"                     \* ks.load fails
        /\ screen' = "exited" /\ UNCHANGED <<decoy, logins>>
     \/ /\ call.pw = "wrong"
        /\ logins' = logins + 1
        /\ screen' = IF logins + 1 < MaxLogins THEN "login" ELSE "exited"
        /\ UNCHANGED decoy
  /\ UNCHANGED <<now, recoveries>>

\* change_password and set_duress_password verify the master password first; what
\* they do afterwards does not concern the lockout.
SettingsAnswer ==
  /\ Woken /\ screen = "open"
  /\ Check(call.pw)
  /\ mem' = AfterCheck(mem, call.pw)
  /\ UNCHANGED <<now, screen, logins, decoy, recoveries>>

\* request_unlock after a mismatch: only the duress password unlocks, with a new
\* KeyStore that reads the entry just saved.
UnlockAnswer ==
  /\ Woken /\ screen = "locked"
  /\ Check(call.pw)
  /\ IF call.pw = "duress"
     THEN screen' = "open" /\ decoy' = TRUE /\ mem' = disk'
     ELSE mem' = AfterCheck(mem, call.pw) /\ UNCHANGED <<screen, decoy>>
  /\ UNCHANGED <<now, logins, recoveries>>

-----------------------------------------------------------------------------
(* KeyStore.verify_password, called by the dialogs of the open application. *)

\* LockoutError, carrying the delay.
RefuseAttempt ==
  /\ call = NoCall /\ screen = "open"
  /\ Delay(mem) > 0
  /\ refused' = now + Delay(mem)
  /\ UNCHANGED <<now, disk, mem, screen, logins, decoy, call, streak, lastFail, checks,
                 faults, recoveries>>

\* The password is checked at once.
CheckAttempt(pw) ==
  /\ call = NoCall /\ screen = "open"
  /\ Delay(mem) = 0
  /\ Check(pw)
  /\ mem' = AfterCheck(mem, pw)
  /\ UNCHANGED <<now, screen, logins, decoy, call, recoveries>>

-----------------------------------------------------------------------------
(* The lock screen, recovery, and the life of the process.                 *)

\* _emergency_lock: keys are wiped, the lockout and the hash are not.
EmergencyLock ==
  /\ call = NoCall /\ screen = "open"
  /\ screen' = "locked"
  /\ UNCHANGED <<now, lockout, logins, decoy, call, refused, recoveries>>

\* request_unlock with the password that matches the hash: the lockout is not asked,
\* and a new KeyStore is loaded.
UnlockByHash ==
  /\ call = NoCall /\ screen = "locked" /\ ~decoy
  /\ NewKeyStore(disk)
  /\ screen' = "open"
  /\ UNCHANGED <<now, disk, logins, decoy, call, refused, streak, lastFail, checks,
                 recoveries>>

\* request_recovery_unlock: reset_with_recovery_key on a new KeyStore; the entry stays.
RecoveryUnlock ==
  /\ call = NoCall /\ screen \in {"login", "locked"}
  /\ recoveries < MaxRecoveries
  /\ recoveries' = recoveries + 1
  /\ NewKeyStore(disk)
  /\ screen' = "open" /\ decoy' = FALSE
  /\ UNCHANGED <<now, disk, logins, call, refused, streak, lastFail, checks>>

\* A recovery that is given up uses one of the three tries of the login screen.
RecoveryAbandoned ==
  /\ call = NoCall /\ screen = "login"
  /\ logins' = logins + 1
  /\ screen' = IF logins + 1 < MaxLogins THEN "login" ELSE "exited"
  /\ UNCHANGED <<now, lockout, decoy, call, refused, recoveries>>

\* The process ends or is killed, in the middle of a sleep too, and is started again.
Restart ==
  /\ NewKeyStore(disk)
  /\ screen' = "login" /\ logins' = 0
  /\ decoy' = FALSE
  /\ call' = NoCall
  /\ refused' = Never
  /\ UNCHANGED <<now, disk, streak, lastFail, checks, recoveries>>

Tick ==
  /\ now < MaxTime
  /\ now' = now + 1
  /\ UNCHANGED <<lockout, screen, logins, decoy, call, refused, recoveries>>

Next ==
  \/ \E pw \in Passwords : VerifyPassword(pw)
  \/ LoginAnswer \/ SettingsAnswer \/ UnlockAnswer
  \/ RefuseAttempt
  \/ \E pw \in Passwords : CheckAttempt(pw)
  \/ EmergencyLock \/ UnlockByHash
  \/ RecoveryUnlock \/ RecoveryAbandoned
  \/ Restart
  \/ Tick

Spec == Init /\ [][Next]_vars

-----------------------------------------------------------------------------
(* Correctness.                                                            *)

\* How long after a failed check the schedule keeps the next one off, after n failures.
Required(n) ==
  IF n >= HARD_LOCKOUT_THRESHOLD THEN HARD_LOCKOUT_DURATION ELSE TableDelay(n)

\* Type invariant.
TypeOK ==
  /\ now \in Nat /\ lastFail \in Nat /\ streak \in Nat /\ checks \in Nat
  /\ disk \in Entry /\ mem \in Entry
  /\ screen \in {"login", "open", "locked", "exited"}
  /\ logins \in Nat
  /\ decoy \in BOOLEAN
  /\ call = NoCall \/ call \in [pw : Passwords, wake : Nat]
  /\ refused \in Nat \cup {Never}
  /\ faults \in Nat /\ recoveries \in Nat

\* "Lockout state survives application restarts via the database": while the database
\* works, the entry of the current KeyStore and the stored one count exactly the failures
\* since the last success, through kills, unlocks, recoveries and changes of KeyStore.
NoFailureForgotten == faults = 0 => mem = disk /\ disk.failures = streak

\* Whichever verifier checks a password, and whether or not the process was killed
\* meanwhile, it does so no earlier after the last failure than the schedule says.
ScheduleRespected ==
  [][checks' # checks /\ faults = 0 => now >= lastFail + Required(streak)]_vars

\* "carries remaining_seconds so callers can schedule a non-blocking retry": an attempt
\* made when that time has passed, with no failure in between, is not refused again.
RetryIsServed ==
  [][refused # Never /\ now >= refused => refused' \in {refused, Never}]_vars
=============================================================================

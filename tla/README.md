# TLA+ specifications of Ultimate Enigma

Ultimate Enigma is a desktop messenger: a Tkinter application that keeps keys and
contacts in an encrypted SQLite database, encrypts messages with several schemes
(among them a Double Ratchet), and locks itself with a master password. This directory
holds TLA+ modules of its core logic, the TLC runs that check them on small instances
and the TLAPS proofs that hold for every instance. `PROJECT.json` lists components,
runs, mutants, the mapping to source lines, findings, hazards and theorems.

## The system

| Component | State | Operations | What makes it correct |
|---|---|---|---|
| Double Ratchet (`services/double_ratchet.py`) | keys, chain counters, skipped keys | initialise, encrypt, decrypt, DH step, serialize | no key or header reused, no replay, forward secrecy, late messages readable, bounded store |
| Ratchet service (`services/ratchet_service.py`) | database column, `_dirty_states`, flush timer | load, buffer, flush, start and delete sessions | numbers are not reused, ended sessions stay ended, nothing buffered is lost |
| Friend locks (same file, `services/background_agents.py`) | `_friend_locks`, lock objects | look up, acquire one or several, time out, clean up | one thread per friend, no circular wait, no lock left behind |
| Lockout (`security/lockout.py`, `services/auth_manager.py`, `key_manager.py`, `controllers/auth_controller.py`) | failures and `locked_until` in memory and in `settings` | verify (sleeping or refusing), reset, reload | failures survive restarts, no early check, refused callers are served later |
| KeyStore (`key_manager.py`) | private keys, secrets, friends, in memory and encrypted in the database | load, save, change password, recover, decoy, wipe | every stored secret opens with the current password; wiped means wiped |
| Application lifecycle (`app.py`, `controllers/`, `builders/`) | locked flag, service references, TOTP state | start, lock, unlock, recover, close | keys only when unlocked, second factor asked, services see the current KeyStore |
| Crypto task queue (`services/crypto_task_queue.py`, `src/timeout.py`) | executors, counters | submit, time out, drain, shut down | callbacks once, counters consistent, a timed-out task has no late effect |
| Event bus (`services/event_bus.py`) | subscriber lists | subscribe, unsubscribe, publish | one delivery per subscription, none after unsubscription |
| Background agents (`services/background_agents.py`) | thread, stop event | start, stop, loop | one loop per agent |
| Trust chain (`services/trust_chain_service.py`, `components/certificate_dialog.py`, `views/trust_tab.py`) | `trust_certificates`, pinned signing keys | issue, verify, revoke, export, import, act as a delegate | what a store holds was signed; trust and delegation are earned; what is revoked everywhere stays so |
| Recovery shares (`services/shamir_service.py`, `components/key_recovery_dialog.py`, `recovery_unlock_dialog.py`) | `recovery_shares`, `held_shares`, share files, dialog entries | split, export, hold, return, enter, reconstruct, apply | enough shares give the key back |
| Friends (`services/friends/`, `services/friend_repository.py`, dialogs) | a record per friend, in a row and in memory; the user's own keys | add, remove, exchange, encapsulate, update and import keys, start and reset a ratchet | no update loses what another stored |
| Messages (`crypto.py`, `services/encryption/`, `models/envelope.py`, `ntp_client.py`) | clock, name, records | choose a mode, encrypt, decrypt, verify, synchronise | the friend can read what the tab proposes to send, and not for longer than he should |
| Files (`services/file_service.py`, `services/file_ops.py`) | cached secrets | encrypt, recognise, decrypt | a file opens for whoever holds its secret |
| Encrypt and decrypt tabs, clipboard (`views/`, `services/clipboard_service.py`) | friend, box, drafts, busy flag, plaintext, timers | type, change friend, send, receive, show, copy, clear | the right recipient, once; plaintext is cleared |
| Backup, database layer, primitives, guarded memory, anti-tamper, anomaly detection | see `PROJECT.json` | | |

The components meet in a few places. Worker threads of the task queue call the ratchet
service, which takes the friend's lock, loads the state from the database, runs the
Double Ratchet on it and buffers the result. A timer thread writes the buffer; the GUI
thread writes it once more on closing. The maintenance agent removes lock objects by the
friend list it gets from the friends service. Unlocking replaces the KeyStore and, with
it, the lockout record held in memory, and gives the tabs new services. Users meet
through what they send each other: messages, keys read out or pasted, certificate and
share files.

What is hard here: messages arrive late, twice or never; the state used for one message
may be older than the state produced by the previous one; a timer, workers, the GUI
thread and an agent interleave; the process is closed or killed at any point; a lock is
looked up and acquired in two steps; delays are measured against a clock that a restart
does not stop; a long dialog works on a record another one is changing; a result arrives
when the tab has moved on; files are old or altered. `PROJECT.json` lists these hazards line by line.

## Modules

### DoubleRatchet, RatchetSession

`DoubleRatchet` states what each method of `RatchetState` does to a state, as operators
on a record with the attributes of the class. Cryptography is symbolic: a key pair is a
number, a Diffie-Hellman output the set of two numbers, a root key the sequence of
outputs mixed into it, a chain key its root key and step count, a message key the chain
key it came from. A call that raises is a result with `ok = FALSE`. `Reload` is the
serialize/deserialize round trip, which forgets the eviction order.

`RatchetSession` is two users with a stored state each, and a set of messages sent. A
message may be handed over at any time and any number of times, so loss, repetition and
reordering are all behaviours. `EncryptMessage`, `DecryptMessage` and `RejectMessage` are
the service calls with an immediate save.

### FriendLocks

A thread asks for a set of friends, and for each one in canonical order looks up or
creates the lock object (`GetFriendLock`, under `_locks_guard`), then acquires it
(`Acquire`) or times out (`AcquireTimeout`) and releases what it has. The agent's
`CleanupFriendLocks` may run between any two of these steps. A single-friend operation is
a request for a one-element set. `RLock` reentrancy needs no state: a thread that holds a
lock already never waits for it. `ActiveLists` are the lists the agent may pass; the branch
of `cleanup_friend_locks` for no list, by age, is left out, since the agent always has one.

### RatchetService

The deferred persistence. A worker begins (`Begin`), loads (`Load`), encrypts or decrypts
and buffers (`Encrypt`, `Decrypt`, with `_mark_dirty`), and starts a timer if none is
alive (`EnsureFlushTimer`). A timer thread takes the buffer (`TimerFires`), saves state
by state (`Save`, `SaveFails`), and puts failures back (`FlushEnds`). `InitRatchet` and
`DeleteRatchet` write to the database directly. `Shutdown` is the flush on closing,
`ExitAndRestart` and `Crash` end the process. A ratchet state is reduced to its session,
its next number and the messages it decrypted: the properties here are about which state
is stored, not about keys.

### Lockout

One lockout record in the database and one in the current KeyStore. `VerifyPassword`
starts a sleeping verification of `AuthManager`; `LoginAnswer`, `SettingsAnswer` and
`UnlockAnswer` are what its caller does when it wakes. `RefuseAttempt` and `CheckAttempt`
are `KeyStore.verify_password`. `UnlockByHash` is the lock screen with the password that
matches the hash in memory, `RecoveryUnlock` the Shamir recovery. Everything runs on the
GUI thread, so only `Tick` and `Restart` can come between the start and the end of a
sleep. Reading and writing the record may fail (`faults`). The clock never goes back.
`_recover_password_hash` is left out: the hash is set on every path that leads to the
lock screen.

### KeyStore

Which secret is stored under which password, and what the process holds of it. A secret
is a number, a sealed row the number and the password that opens it (`Seal`, `Sealed`);
`decrypt_secret` raises on the wrong password, so "it opens" is a guard (`LoadOpens`,
`Changeable`). `settings` and `friends` are the two tables; `ks` the KeyStore object,
`hash` the one of the lock screen, `storageKey` that of `RatchetService`, `totp` the
secret of `TOTPService`.

`session` is `closed`, `setup` (the mandatory TOTP setup, which no one leaves without a
code except by closing), `open` or `locked`. The screens (`FirstRun`, `Login`,
`LoginDecoy`, `ShowTotpSetup`, `Lock`, `Unlock`, `UnlockDecoy`, `Recover`, `Close`) and
the settings dialogs (`ChangePassword`, `SetDuressPassword`, `UpdateGlobalSecret`,
`DialogCancelled`) run on the GUI thread, one at a time; so do `AddFriend`, `EditFriend`,
`RemoveFriend` and `DelegatedSave`, the four callers of the friends table.

What `run_busy` starts is a job on a thread of its own: it begins with the password the
dialog verified (`StartFriendJob`, `StartKeyJob`), reads (`JobReads`), and saves later
(`JobSaves`) or generates keys (`GenerateKeys`); it may raise (`JobFails`) or be refused
half way (`JobRefused`). `gone` marks a job whose KeyStore object was replaced by an
unlock. Locking, changing the password or recovering while a job runs, or editing a friend
a job has read, can leave an inconsistent record behind: the job then writes back a wiped
secret, or saves under the old password. The ghost variable `overlap` records that this
happened, and the properties about friends are stated for histories without it. Whether
the private key, the lock screen and the ratchet sessions agree does not depend on it.

Decisions: the commit of `save_friend` and its update of memory are one step, so the
moment in which another thread does not find the friend in the list is not modelled; codes
are typed correctly, since nothing but `setup` depends on them; secrets generated by one
operation share a number, as no property compares them with each other.

### The device of instances

The modules below have many operations, of which a small state space holds only a few at a
time. Their variable `bound` is chosen at the start from the constant `Instance`, a set of
records that name the users, operations and numbers that one instance explores; it never
changes and is read only in guards. One run thus checks one specification on several
instances, and the guards name every bound.

### CertLedger, TrustChain

`TrustChain` is the certificate table of each user (`certs`), the signing keys a user has
generated (`sigKey`) and has stored of others (`pinned`), the files written (`files`) and
the day. A key is its owner and generation, a signature the key and the data it covers
(`SignedData`: subject key, type and dates, neither the names nor the identifier). Issuing,
revoking, exporting and importing are one action per button of the certificate dialog, the
trust tab and the signing-key dialog; `VerifyCertObject` and `ExpectedIssuerPub` are what
`import_received_certs` and `verify_certificate` check. A file may be imported at any time,
by anyone, any number of times, so delay, repetition and reordering are all behaviours. Its
rows may be altered (`Damage`) in the fields that the instance names: the dates, which stand
for all that is signed; the issuer, which the pinned key fixes; and the identifier, the
subject and the revocation, which nothing fixes. Signatures cannot be made by others, and the
key in an exchange file is not altered, since pinning it is a decision of the user, who is to
compare fingerprints. Rows of one file with the same identifier are saved one after the
other, in any order (`LastOfEach`). `ledger`, a history variable, has every certificate as it
was issued.

`CertLedger` is the abstract specification: users sign facts and learn facts that others
have signed, and forget none, unless the ledger is `lossy`. `LedgerRefined` is `Ledger!Spec`
under the mapping that takes a row to what its signature says (`FactOf`: who, of which key,
which type, which period); an import is `Learn`, a revocation or an export a stuttering step.
The identifier, the subject and the revocation are not part of a fact, because the signature
does not cover them. The mapping makes the ledger lossy in the instances that alter
identifiers: there INSERT OR REPLACE may put one certificate in the place of another.
`TrustWasEarned` is layered in the same way: what it says of every row holds whatever was
altered, what it says of delegation and signers where subjects were not, what it says of
counts where identifiers were not either. `RevokedForGood` is about the signatures that some row,
in a table or a file, shows as not revoked (`LiveSignatures`): only issuing adds one.

### Shamir, RecoveryShares

`Shamir` is the field arithmetic: the tables of powers and logarithms as functions built
from `Doubled`, multiplication and inversion through them, `EvalPoly`, `ShareOf`,
`LagrangeCoefficient` and `ReconstructSecret`, for one byte of a secret (the code treats
the 32 bytes alike and independently). The assumption `ShamirRecovers` of `MCTrust` checks
it against the definition of a threshold scheme: any subset of at least k of 4 shares, with
each share first, gives the secret, for k = 2 and 3 and corner values of secret and
coefficients.

`RecoveryShares` extends `TrustChain` with one owner who splits a key. Shares are files
encrypted to the RSA key that the sender has stored of the recipient; they are exported
while the split dialog is open, imported and kept by friends, sent back, entered in the
recovery dialog or on the lock screen, and reconstructed, whether or not they are enough.
RSA keys may be rotated, friends removed, rows deleted by a delegate. Removing the last entry of a
dialog is left out.

### FriendBook, Messaging

`FriendBook` has, for two users, the record each keeps of the other: `row` (the database)
and `rec` (the attributes of the KeyStore), seven fields, each a number for the key or
secret in it, 0 for none. An update reads the record when it begins (`Begin`) and replaces
the whole of it when it ends (`Commit`), or its write fails (`Fail`); the three of `run_busy`
leave the window free in between, so updates overlap. `Dropped` has the fields an update
does not hand on. `stored`, `excused` and `advert` are history: what the user last put into
a field, and for which fields one of the named causes of a loss has occurred.

`Messaging` extends it with clocks, messages and files. A message is a record of what its
envelope lets a reader check. `Encrypt` is the choice `EncryptionService.encrypt` makes,
`CanRead` what `decrypt` does with the keys of the moment, `Refused` an exception. The
clock a user goes by is `Clock`: the time of the last synchronisation, which stands still
until the next, or the system's, which may be behind by `bound.lag`. The loop synchronises
every `SyncPeriod`, with or without an answer; the tab's button may do so in between, and an
answer that comes late leaves the button dead. An unlock makes a new service, which the loop
does not know (`fed`). Files know their secret by its fingerprint; `cache` is what
`FileService` collected first.

`rotate_rsa_key` is offered by no screen (docs/DATABASE.md:211 describes it); it is
included as an operation like the others.

### CryptoTaskQueue, Desktop

`CryptoTaskQueue` follows a task from `submit` to its callback. A worker takes it, looks
for the inner executor (`CheckInner`), makes one if it saw none (`CreateInner`: two workers
may both do so, and the second replaces the first), submits the function to that executor's only thread, and
waits for its result (`OnDone`, `Deliver`) or the timeout (`TimeOut`). A function may end in
either way or never; one that timed out goes on. Callbacks queue in `after`.

`Desktop` is the window on top of it: the encrypt tab with its drafts and its busy state,
the decrypt tab with its timer and label, the clipboard with its timer thread, refreshes of
the friend list, lock, unlock and the steps of closing. Callbacks and the user's actions
are steps of one thread; while the queue drains that thread runs no callbacks. The nested
event loop of an error box is not modelled. Clearing the clipboard may fail (`Clear`): the
text is then `kept`, since nothing tries again unless a timer is still to come.

## Runs

| Run | Result | Bounds |
|---|---|---|
| `ratchet_session` | passes | 4 messages each way, cap and skip distance 2: gaps in the current chain, in an abandoned one and in a new one, a store at its cap, repeated DH steps |
| `ratchet_stale_chain` | `OutOfOrderDelivery` violated | 3 messages each |
| `friend_locks` | passes | 3 threads, 2 friends, one of them removed and added again; the agent rests after 3 lock objects |
| `ratchet_service` | passes | 2 workers, 2 timer threads, 2 sessions, 1 send, 2 reads, 1 failed write, 1 restart, under fairness |
| `service_number_reuse` | `NoNumberReuse` violated | 1 timer thread, 2 sends, nothing fails |
| `lockout` | passes | a table of four entries, threshold 5, 9 time units, 6 checks, one database error, one recovery |
| `lockout_retry` | `RetryIsServed` violated | the same table |
| `keystore` | passes | 2 passwords (symmetric), 1 friend, 1 worker, 4 secrets generated: a first run and three of login as decoy, exchange, key generation, recovery, new TOTP secret, in any order with changes of the password |
| `keystore_change` | `Unlockable` violated | the same, 1 secret generated |
| `trust` | passes | eight instances: two certificates in one file whose dates are altered; two, with issuer and revocation altered; two, with identifiers altered; one, with identifier and subject altered; two signing keys each, one certificate, 2 days; a key split 2 of 2 with a rotation and two entries; a split with a delegate; three certificates about one friend, which makes him trusted |
| `messaging` | passes | five instances: five updates of one user, two at a time; 3 and 2 updates of two users with sessions and rotations; the same with encapsulation and a file; the same with a delegate; 4 time units with a lagging clock, a message with or without a lifetime and an unlock |
| `desktop` | passes | four instances: one text, 2 friends, 2 attempts, 2 changes, a lock; two overlapping decryptions and a lock; copies with lock and close; three files, two workers, and closing |

The bounds are named constants in the guards. Two friends suffice for a circular wait,
three threads for a cycle among more than two; two overlapping flushes are the
shortest way in which a newer state can be overtaken; the lockout table has the shape of
the real one (no delay, growing delays, hard lockout one failure past the table).

In the trust chain two users are enough for everything but shares, since a certificate
has one issuer and one subject and a store checks each row alone; three certificates are
the threshold of "trusted". Five steps let one user add a friend, exchange, start a ratchet
and overlap two more updates. Two workers are the race for the inner executor, and with
three tasks one waits behind a hanging function. The window is 1 time unit and the period
of the loop 2 in the run's configuration: a clock can be ahead, behind and outside.

What the violations show is recorded under `findings`, each with the sentence of the
repository it contradicts: a late message of an old chain breaks a session; two messages
within one flush interval share a number; from the fifth failure on
`KeyStore.verify_password` refuses for ever; after a change of the master password the
hybrid signing keys (and the Kyber and X25519 keys, once generated) still need the old
one, so the store cannot be opened at the next login. Other things met while modelling
have no run of their own: a full skipped-key store raises instead of evicting after a
reload (`_skipped_order` is empty); a session initialised again from the same ECDH keys
repeats its first chain; an empty friend list makes the agent remove every free lock; the
lock screen opens with the right password during a hard lockout; `on_close` flushes before
it waits for the tasks of the queue, so a task that ends after the flush loses its state.
`EndedStaysEnded` of `RatchetService` speaks of sessions ended at rest (`Quiet`): one deleted
while a state of it is buffered, being flushed or in use comes back with the next flush,
although the docstring of `delete_ratchet` says that it terminates the session. `BufferDrains`
asks for a timer once a write has failed, because the flush that failed starts none.

Met in the KeyStore, without a run: a stored TOTP secret sealed with the global secret is
replaced at the login after that secret was updated, and, once regenerated, makes
`change_password` raise; the master password may be changed to the duress password; a
change from a decoy session leaves the ratchet storage key under the old password;
recovery leaves the Kyber and X25519 keys under the old one, and the list of friends
empty until the next login; `RatchetService` keeps its key when the application is locked
and in decoy sessions; `import_friend_hybrid_sig_pub` and the trust chain's
`_delegated_save` drop our ECDH key, `init_ratchet` and `reset_ratchet` the friend's PQC
and signing keys; a restored backup generates a new ratchet key while `RatchetService`
goes on with the old one.

Several properties name exceptions. They are behaviours of the code, each reachable in its
run, without which the property is violated. The hazards of `PROJECT.json` do not list a
property for what it excepts, and say so in their notes.

* `TrustWasEarned`, `LedgerRefined`: what was altered in the files decides how much holds. A
  certificate with an altered subject gives that user the delegation and the trust, and a copy
  with another identifier counts as a second certificate, although the comment in
  `import_received_certs` (trust_chain_service.py:547-550) says that the verification prevents
  an inflated trust level: `_verify_cert_object` covers neither field.
* `RevokedForGood`: it speaks of all copies of a certificate together. In one table, importing a
  copy that was exported before makes a revoked certificate valid again, although the dialog
  says "This action cannot be reversed" (certificate_dialog.py:296) and "irreversible" (:475).
* `LossHasACause`: `init_ratchet` and `reset_ratchet` drop the friend's PQC and signing keys,
  `import_friend_hybrid_sig_pub` and `_delegated_save` our X25519 private key; of two
  overlapping updates the later one writes back what it read; a text that is no PEM key is
  written to the row before it is parsed, and the next unlock then fails.
* `AdvertisedRatchetExists`: a capability ticked by hand, a reset whose write failed, and
  overlapping updates leave a capability without a session, and every message raises.
* `LateReading`: the clock stands still between synchronisations, and for good when the
  button was used after an unlock.
* `RefusedOnlyByCache`: nothing calls `invalidate_fingerprint_cache`, so a secret stored
  after the first file was opened is not tried until the next unlock.
* `RightRecipient`, `EncryptedOnce`: `friend_combo` and Control-Return stay active during an
  encryption; a text whose encryption fails after the friend changed is offered to the new
  friend; a timed-out encryption happens all the
  same; and the answer to a text sent twice enables the tab while the other task still runs, so that
  it may be sent a third time (the proof of `EncryptedOnce` turned this one up).
* `PlaintextIsCleared`: `receive_message` cancels the timer, and if it fails the plaintext
  shown before stays, and a text stays in the clipboard when the last
  attempt to clear it fails. `LabelIsTrue`: overlapping decryptions share `last_decrypt_mode`.

Met in the same code, without a run: `get_trust_level` counts certificates, where its comment
(trust_chain_service.py:350-351, and 44-45) speaks of unique issuers, so three of one issuer make a
friend trusted; `CertificateDialog.do_import` rejects
the bundles that the same dialog exports; the signing-key dialog imports the certificates
that come with a key before it stores the key, so they are refused the first time; the
context menu of the trust tab revokes without the master password; the threshold of a split
is not stored in a way that reconstruction could check, and fewer shares give a wrong key
without an error; a share encrypted to a rotated RSA key is lost; the lock screen takes
plain share files only; PQC and ratchet envelopes ignore the signature and lifetime asked
for; `as_completed(timeout=3)` in views/ntp_tab.py:231 raises out of its thread.

`Desktop` ends when the window is closed and `Messaging` and `RecoveryShares` when their
bounds are used up, so these runs do not check for deadlock. `KeyStore` may come to a halt for the reason `keystore_change` shows, when no password
opens the store, and also when its bound is used up; its runs do not check for deadlock
either. `RatchetService` stops when its bounds are used up, so its runs do not check for
deadlock; `friend_locks`, `ratchet_session` and `lockout` do.

## Fairness

`FriendLocks`: weak fairness of each thread that has asked for locks. The operating
system schedules it, and `lock.acquire` returns within its timeout with or without the
lock. `RatchetService`: weak fairness of running workers, of live timers and of flushes
under way. `Desktop`: weak fairness of each worker (the operating system schedules it, and
`future.result` returns within its timeout), of the callbacks given to `root.after` while
the main loop runs, and of the timers of the auto-clear and the clipboard. The functions a
task runs may hang: nothing is assumed of them. Nothing is assumed of users, of the agent,
or of crashes.

## Proofs

All proofs are for arbitrary values of the constants. Each module's invariant (`IInv`, or the
parts named below) was checked by TLC on the component's run before it was proved.

* `RatchetSession_proof`: no message key and no header is reused (`KeysAreNeverReused`,
  `HeadersAreNeverReused`). Neither is inductive: the invariant `IInv` adds that every
  key pair belongs to one user and is older than `nextKey` (`KeysOwned`), that the next
  key of an open sending chain is unused (`SendChainFresh`), and that the messages of a
  chain carry the numbers its key was stepped to (`SentNumbered`). Decryption can only
  replace the whole sending side by one with a fresh pair; encryption moves it one step.

  The receiving side has a second invariant, `RecvInv`, from which types, `NothingIsReplayed`,
  `UsedKeysAreGone` and `StoreIsCapped` follow. `Forgets` says that no key that was used is
  filed or can still be stepped to: filed keys differ from each other, those of the current
  chain lie behind its step, and every chain so far was derived with a root key no longer
  than the present one, so a chain opened later shares no key with any before. `StoreFits`
  says what the eviction order may name. A gap files a number of keys that the state decides;
  that each of them keeps both facts is an induction over that number, carried out with the
  set of the numbers for which the claim fails (`SetInduction`).

  That a message in flight can be decrypted (`MessagesInFlightDecrypt`) is about both sides
  at once. The third invariant, `SyncInv`, says that until a message of an abandoned chain is
  decrypted, the two `Agree`: one of them has the other's newest key, and the root key of a
  side that has not lacks exactly the output mixed in with that key (`RootsAgree`); the
  receiving chain is the peer's sending chain, as far as it was stepped (`ChainsAgree`); the
  messages of a chain are numbered without a gap, up to the length its sender announces
  (`NumbersAgree`); and what the receiver moved past was decrypted, or is filed, or the peer
  has sent more than the store holds (`KeysKept`), for which the headers have to be counted
  (`FewHeaders`). A decryption then either takes a filed key (`Took`) or steps a chain past
  the message (`Stepped`), and after a ratchet step the receiver is the one ahead
  (`RatchetAgree`). Without its premise `SyncInv` is false: the run `ratchet_stale_chain`
  shows a late message of an abandoned chain after which one in flight cannot be decrypted.
* `FriendLocks_proof`: type correctness, mutual exclusion for listed friends, that
  waiting goes upward in the canonical order (`WaitingIsOrdered`), that therefore no group of
  threads waits in a circle (`NobodyWaitsInCircles`: of a finite group the one that waits for
  the friend furthest on waits for nobody in it, `LastRank`), and that every lock is returned.
  The invariant adds that lock numbers in use were created, that a lock object belongs to
  one friend, that the lock of a listed friend is the filed one, and that a thread asks
  for friends above those it holds.
* `RatchetService_proof`: types, that a buffer has a timer (`BufferedHasTimer`), that every
  state about to be stored has a position that was reached (`StoredPositionsReal`), and that
  a session ended at rest stays ended. `DirtyHasTimer` becomes inductive with `Timers`: a
  timer that is referred to has not fired, and without a failed write no flush has anything
  to put back. The other two need their claim for every place a state can be in
  (`StatesGood`): the database, the buffer, both halves of each flush, and the hands of a worker.
* `Lockout_proof`: failures are not forgotten and no check comes early, for every backoff
  table. The invariant adds what `locked_until` is (`EntryShape`) and when a sleeping
  call wakes (`CallWaits`).
* `KeyStore_proof`: all six invariants of `keystore`, for any passwords, friends, workers
  and number of secrets. None but the type invariant is inductive. `PasswordInv` ties the
  private key and the hash to the password that opens the global secret. `BlobInv` says
  that the ratchet storage key in memory, in `RatchetService` and under the sessions is
  the stored one or none, that a closed process holds nothing, and that nothing is stored
  before the first run. `FriendInv` says that, as long as no job was overtaken, each job
  has the current password and KeyStore and remembers the current secret, rows open with
  the master password, an ECDH key comes with a secret, and memory agrees with the
  table: exactly what the later half of a job relies on. `IdentityInv` adds that the
  decoy's key differs from the user's, so that a KeyStore with the user's private key
  holds the stored global secret. Each is preserved by every action, given the ones before.
* `RecoveryShares_proof`: `TrustInv` says that certificates are numbered as they are issued and
  that their signatures cover what they state (`LedgerSigned`); that each row of a table or a
  file carries the signature of a certificate of the ledger, and its identifier and subject
  where files are not altered in these (`CopyOf`), and that the rows of a table were verified
  (`RowsIssued`); that a pinned key was generated by its owner (`KeysGenerated`); and that no
  table has two rows with one identifier (`RowsUnique`). A row altered in what is signed does
  not verify; one altered elsewhere is accepted, and `CopyOf` says how far it can be from what
  was issued. From it follow `TrustEarned`, for any files, and step by step the refinement
  `TrustImplementsLedger`: issuing maps to `Sign`, an import to `Learn`, the rest to stuttering.
  `RevocationStays` needs only that an import saves rows of the file and that an altered row
  keeps its signature (`DamagedRow`), step by step (`LiveComesFromLive`).
  `ShareInv` says that every share, wherever it travels, is the one split_secret computed
  (`SharesGenuine`) and that what is shown was computed from the entries; with
  `ThresholdAssumption`, that the arithmetic recovers the keys of the instance, it gives
  `SharesRecover`.
* `Desktop_proof`: `QueueInv` is the discipline of the task queue: a task is in one place on
  the way to its answer and in one on the way to its result, so its function runs once, it is
  answered once, and an answer other than a timeout is its result. It holds although two workers may
  each make an inner executor. `SendInv` follows a text through box, drafts and
  tasks: it is in one of them (`OnePlace`), the tab is busy with a text that is being
  encrypted (`BusyWithIt`), and of two tasks with one text one failed (`OneTryLeft`); from
  these `TextsReachTheirFriend` and `TextsEncryptedOnce`. `ModeNoted` ties `last_decrypt_mode`
  to decryptions that were not overtaken, for `LabelsAreTrue`.
* `Messaging_proof`: `BookInv` is about the friends' records. `Kept` holds of the row and of
  every update that is not stale: what it read is what was stored, but for what is excused, so
  writing everything back loses only what the update leaves out. `Backed` says
  the same for a capability that is stored or about to be; `Mirrored` says how row and
  memory can differ; `OwnOK` that the legacy RSA key is the one before. `LossesHaveCauses` and
  `RatchetsAreBacked` are consequences. `ClockInv` bounds how old the clock of a loop that
  is fed can be, `SentInv` that stamps are not ahead, whence `ReadingEnds`; `FileInv` that the
  secrets collected and those stored since are all the user holds, whence `FilesOpen`.
  `ProposedModeWorks` follows from `BookInv` and the definitions, one lemma per mode. Types
  of `Instance` are `InstanceAssumption`.

Assumptions are those of the modules on their constants (`SkipLimits`, `SendsAssumption`,
`LocksConstants`, `LockoutConstants`, `KeyStoreConstants`, `ClockAssumption` and so on), which
every run evaluates. They say what a constant is; `LocksConstants` adds that there are finitely
many friends, without which a lock order need not have a last one. The one with content is
`ThresholdAssumption`, about `Shamir` on the keys and coefficients of an instance: TLC
evaluates it in `trust`, and the assumption `ShamirRecovers` of `MCTrust` checks the
arithmetic on more of them.

Only model-checked:

* liveness (`EveryRequestEnds`, `BufferDrains`, `Answered`, `PlaintextIsCleared`), which needs
  fairness and is out of the prover's reach;
* what `Shamir` computes for every input. The tables of GF(256) are 255 values that the
  provers would have to evaluate. Induction over data by an operator is also closed to the
  installed provers; by a set, as above, it is possible.

The four properties that runs find violated are, of course, not theorems.

## Plan

Done: the Double Ratchet, the friend locks, the ratchet service, the lockout, the KeyStore
secrets, the trust chain and its refinement of a ledger, recovery shares, friends, messages
and files, the task queue and the window, and proofs of every safety property of the passing
runs. Next: `RatchetService` composed with `FriendLocks`; the background agents.

## Not modelled

Layout of views and dialogs, lists and filters; ciphers, signatures and key encapsulation
(symbolic where they matter); SQL text, the schema and its migration; operating-system
calls of the anti-tamper and memory modules; anomaly scores and the code-analysis tool;
TOTP codes and hotkeys; backups; start and stop of the background agents; the signatures of
files, which are reported and decide nothing. Database transactions are atomic steps.

------------------------------ MODULE KeyStore ------------------------------
(***************************************************************************)
(* The secrets of the user and the passwords that open them: KeyStore      *)
(* (key_manager.py) with the tables behind it, driven by the screens of    *)
(* controllers/auth_controller.py and by the friends services.             *)
(*                                                                         *)
(* A secret is a number; 0 is "none".  The database holds secrets sealed   *)
(* with a password (database.encrypt_secret), except that the TOTP secret  *)
(* may be sealed with the global secret.  decrypt_secret raises for a      *)
(* wrong password, so an operation that opens a secret has "it opens" as a *)
(* guard, and one that raises half way leaves the database as it was.      *)
(*                                                                         *)
(* Screens run on the GUI thread.  What run_busy starts is a job: it works *)
(* with the password it was started with and with the KeyStore object of   *)
(* that time, and locking, unlocking or changing the password may come     *)
(* between its steps.  Lockout delays are in Lockout, codes are assumed to *)
(* be typed correctly.                                                     *)
(***************************************************************************)
EXTENDS Integers, FiniteSets

CONSTANTS
  Passwords,
  NoPassword,       \* stands for None and for _DURESS_PLACEHOLDER
  Friends,
  Workers,          \* threads of run_busy
  HybridAvailable,  \* liboqs is installed: _HYBRID_SIG_AVAILABLE, is_pqc_available
  MaxSecrets        \* bound: how many times secrets are generated or agreed on

ASSUME KeyStoreConstants ==
  /\ NoPassword \notin Passwords
  /\ (Passwords \cup {NoPassword}) \cap Nat = {}
  /\ HybridAvailable \in BOOLEAN
  /\ MaxSecrets \in Nat

VARIABLES
  settings,    \* the sealed rows of the settings table
  setup,       \* settings.totp_setup_complete
  friends,     \* the friends table
  session,     \* "closed", "setup" (the mandatory TOTP setup), "open" or "locked"
  ks,          \* the current KeyStore object
  hash,        \* the password _master_password_hash is a hash of
  storageKey,  \* RatchetService._storage_key
  totp,        \* the secret of the TOTPService
  jobs,        \* what each worker thread is doing
  fresh,       \* the secret generated last
  overlap      \* a job was overtaken: see Overtaken

memory == <<session, ks, hash, storageKey, totp>>
vars == <<settings, setup, friends, session, ks, hash, storageKey, totp, jobs, fresh, overlap>>

Slots == {"private_key", "global_secret", "ratchet_storage_key", "hybrid_sig", "pqc",
          "totp_secret", "duress_verifier"}
Keys == Passwords \cup Nat
Absent == [key |-> NoPassword, val |-> 0]
Sealed == [key : Keys, val : Nat \ {0}] \cup {Absent}
\* Mutant of Seal: what is not there is sealed too.
SealAlways(k, v) == [key |-> k, val |-> v]
Seal(k, v) == IF v = 0 THEN Absent ELSE [key |-> k, val |-> v]
Stored(s) == s.val # 0

NoFriend == [listed |-> FALSE, secret |-> Absent, ecdh |-> Absent, blob |-> 0]
Nothing == [f \in Friends |-> 0]
EmptyKs == [private |-> 0, global |-> 0, ratchet |-> 0, hybrid |-> 0, pqc |-> 0,
            names |-> {}, secret |-> Nothing, ecdh |-> Nothing, duress |-> FALSE]
NoJob == [kind |-> "none", friend |-> NoPassword, pw |-> NoPassword, read |-> FALSE,
          secret |-> 0, gone |-> FALSE]

FriendJobs == {"ecdh", "ratchet"}
KeyJobs == {"pqc", "hybrid"}

Init ==
  /\ settings = [s \in Slots |-> Absent]
  /\ setup = FALSE
  /\ friends = [f \in Friends |-> NoFriend]
  /\ session = "closed" /\ ks = EmptyKs /\ hash = NoPassword
  /\ storageKey = 0 /\ totp = 0
  /\ jobs = [w \in Workers |-> NoJob]
  /\ fresh = 0
  /\ overlap = FALSE

-----------------------------------------------------------------------------
Master == settings["global_secret"].key
IsMaster(p) == p = Master                  \* master_ok of both verifiers
IsDuress(p) == p # Master /\ p = settings["duress_verifier"].key

Generate == fresh < MaxSecrets /\ fresh' = fresh + 1
New == fresh + 1

(* The secrets load() must open, or it fails. *)
Required == {"private_key", "global_secret", "pqc", "ratchet_storage_key"}
              \cup (IF HybridAvailable THEN {"hybrid_sig"} ELSE {})
LoadOpens(p) ==
  /\ \A s \in Required : Stored(settings[s]) => settings[s].key = p
  /\ \A f \in Friends :
       /\ Stored(friends[f].secret) => friends[f].secret.key = p
       /\ Stored(friends[f].ecdh) => friends[f].ecdh.key = p

(* What load() leaves in a new KeyStore. *)
Loaded ==
  [private |-> settings["private_key"].val,
   global  |-> settings["global_secret"].val,
   ratchet |-> settings["ratchet_storage_key"].val,
   hybrid  |-> IF HybridAvailable THEN settings["hybrid_sig"].val ELSE 0,
   pqc     |-> settings["pqc"].val,
   names   |-> {f \in Friends : friends[f].listed},
   secret  |-> [f \in Friends |-> friends[f].secret.val],
   ecdh    |-> [f \in Friends |-> friends[f].ecdh.val],
   duress  |-> FALSE]

(* load_totp_secret: the password, then the global secret; without a row   *)
(* the secret is derived from the global secret.                           *)
TotpOpens(p) == settings["totp_secret"].key \in {p, settings["global_secret"].val}
TotpIn(rows) == IF Stored(rows["totp_secret"]) THEN rows["totp_secret"].val
                ELSE rows["global_secret"].val

Wiped(k) == [EmptyKs EXCEPT !.names = k.names, !.duress = k.duress]
Decoy == [EmptyKs EXCEPT !.private = settings["duress_verifier"].val, !.global = New,
                         !.duress = TRUE]

(* A new KeyStore replaces the one running jobs refer to. *)
Abandoned == [w \in Workers |-> IF jobs[w] = NoJob THEN NoJob ELSE [jobs[w] EXCEPT !.gone = TRUE]]

(* Overtaken: keys are wiped or re-encrypted while a job runs.             *)
(* OvertakenAt(f): a friend is edited after a job has read it.             *)
Overtaken == \E w \in Workers : jobs[w] # NoJob
OvertakenAt(f, others) == \E w \in others : jobs[w].friend = f /\ jobs[w].read

-----------------------------------------------------------------------------
(* _first_run_setup: init_db, load (which generates the ratchet storage    *)
(* key) and init_totp, which derives the TOTP secret.  Here and below, who *)
(* gives up in the dialogs that follow closes the application.             *)
FirstRun(p) ==
  /\ session = "closed" /\ ~ Stored(settings["private_key"])
  /\ Generate
  /\ settings' = [s \in Slots |->
       IF s \in {"private_key", "global_secret", "ratchet_storage_key"}
                  \cup (IF HybridAvailable THEN {"hybrid_sig"} ELSE {})
       THEN Seal(p, New) ELSE Absent]
  /\ session' = "setup"
  /\ ks' = [EmptyKs EXCEPT !.private = New, !.global = New, !.ratchet = New,
                           !.hybrid = IF HybridAvailable THEN New ELSE 0]
  /\ hash' = p /\ storageKey' = New /\ totp' = New
  /\ UNCHANGED <<setup, friends, jobs, overlap>>

(* init_totp: a stored secret that neither the password nor the global     *)
(* secret opens is replaced by a new one.                                  *)
InitTotp(p) ==
  \/ /\ ~ Stored(settings["totp_secret"]) \/ TotpOpens(p)
     /\ UNCHANGED <<settings, fresh>>
  \/ /\ Stored(settings["totp_secret"]) /\ ~ TotpOpens(p)
     /\ Generate
     /\ settings' = [settings EXCEPT !["totp_secret"] = Seal(p, New)]

(* enforce_mandatory_totp_setup and verify_startup_totp. *)
Entered == IF setup THEN "open" ELSE "setup"

(* _existing_user_login with the master password. *)
Login(p) ==
  /\ session = "closed" /\ Stored(settings["private_key"])
  /\ IsMaster(p) /\ LoadOpens(p)
  /\ InitTotp(p)
  /\ session' = Entered /\ ks' = Loaded /\ hash' = p
  /\ storageKey' = settings["ratchet_storage_key"].val
  /\ totp' = TotpIn(settings')
  /\ UNCHANGED <<setup, friends, jobs, overlap>>

(* _existing_user_login with the duress password: the decoy has no TOTP    *)
(* secret; if setup is still due, one is generated and stored sealed with  *)
(* the decoy's global secret.                                              *)
LoginDecoy(p) ==
  /\ session = "closed" /\ IsDuress(p)
  /\ Generate
  /\ IF setup THEN /\ totp' = 0 /\ UNCHANGED settings
              ELSE /\ totp' = New
                   /\ settings' = [settings EXCEPT !["totp_secret"] = Seal(New, New)]
  /\ session' = Entered /\ ks' = Decoy /\ hash' = NoPassword
  /\ UNCHANGED <<setup, friends, storageKey, jobs, overlap>>

(* The TOTP setup dialog, the mandatory one or that of the settings, with  *)
(* the secret there is or with a new one (persist_totp_secret seals it     *)
(* with the global secret in memory), confirmed by a code or not.          *)
ShowTotpSetup ==
  /\ session \in {"setup", "open"}
  /\ \/ totp # 0 /\ UNCHANGED <<settings, totp, fresh>>
     \/ /\ Generate
        /\ settings' = [settings EXCEPT !["totp_secret"] = Seal(ks.global, New)]
        /\ totp' = New
  /\ \/ setup' = TRUE /\ session' = "open"
     \/ UNCHANGED <<setup, session>>
  /\ UNCHANGED <<friends, ks, hash, storageKey, jobs, overlap>>

(* EnigmaApp._emergency_lock.  RatchetService keeps its key. *)
Lock ==
  /\ session = "open"
  /\ session' = "locked" /\ ks' = Wiped(ks) /\ totp' = 0
  /\ overlap' = (overlap \/ Overtaken)
  /\ UNCHANGED <<settings, setup, friends, hash, storageKey, jobs, fresh>>

(* request_unlock with the password that matches the hash. *)
Unlock(p) ==
  /\ session = "locked" /\ hash = p /\ LoadOpens(p)
  /\ Stored(settings["totp_secret"]) => (TotpOpens(p) \/ ~ setup)
  /\ session' = "open" /\ ks' = Loaded
  /\ storageKey' = settings["ratchet_storage_key"].val
  /\ totp' = IF Stored(settings["totp_secret"]) /\ ~ TotpOpens(p) THEN 0 ELSE TotpIn(settings)
  /\ jobs' = Abandoned
  /\ UNCHANGED <<settings, setup, friends, hash, fresh, overlap>>

(* request_unlock with the duress password.  rebuild_services finds no     *)
(* ratchet key in the decoy and leaves the previous one in place.          *)
UnlockDecoy(p) ==
  /\ session = "locked" /\ hash # p /\ IsDuress(p)
  /\ Generate
  /\ session' = "open" /\ ks' = Decoy /\ hash' = NoPassword /\ totp' = 0
  /\ jobs' = Abandoned
  /\ UNCHANGED <<settings, setup, friends, storageKey, overlap>>

(* Recovery keeps the public keys of a friend and nothing else. *)
\* Mutant of RecoveredFriend: the ratchet sessions are kept.
RecoveredFriendWithBlob(fr) ==
  [fr EXCEPT !.secret = Absent, !.ecdh = Absent]
RecoveredFriend(fr) == [NoFriend EXCEPT !.listed = fr.listed]

(* reset_with_recovery_key, offered on the login and on the lock screen.   *)
(* The Kyber and X25519 keys stay sealed with the old password.  At login  *)
(* the mandatory setup follows, with a new secret; the lock screen opens.  *)
Recover(p) ==
  /\ session \in {"closed", "locked"} /\ Stored(settings["private_key"])
  /\ Generate
  /\ settings' = [s \in Slots |->
       CASE s \in {"private_key", "global_secret", "ratchet_storage_key"} -> Seal(p, New)
         [] s = "hybrid_sig" /\ HybridAvailable -> Seal(p, New)
         [] s = "totp_secret" /\ session = "closed" -> Seal(New, New)
         [] s = "totp_secret" /\ session = "locked" -> Absent
         [] s = "duress_verifier" -> Absent
         [] OTHER -> settings[s]]
  /\ setup' = FALSE
  /\ totp' = IF session = "closed" THEN New ELSE 0
  /\ friends' = [f \in Friends |-> RecoveredFriend(friends[f])]
  /\ session' = IF session = "closed" THEN "setup" ELSE "open"
  /\ ks' = [EmptyKs EXCEPT !.private = New, !.global = New, !.ratchet = New,
                           !.hybrid = IF HybridAvailable THEN New ELSE 0]
  /\ hash' = p /\ storageKey' = New
  /\ jobs' = Abandoned
  /\ overlap' = (overlap \/ Overtaken)

(* The process ends, by on_close or otherwise, and its threads with it. *)
Close ==
  /\ session # "closed"
  /\ session' = "closed" /\ ks' = EmptyKs /\ hash' = NoPassword
  /\ storageKey' = 0 /\ totp' = 0
  /\ jobs' = [w \in Workers |-> NoJob]
  /\ UNCHANGED <<settings, setup, friends, fresh, overlap>>

-----------------------------------------------------------------------------
(* A settings dialog given up after AuthManager.verify_password: all that  *)
(* remains is the _duress_mode it set.                                     *)
DialogCancelled(p) ==
  /\ session = "open" /\ (IsMaster(p) \/ IsDuress(p))
  /\ ks' = [ks EXCEPT !.duress = IsDuress(p)]
  /\ UNCHANGED <<settings, setup, friends, session, hash, storageKey, totp, jobs, fresh, overlap>>

(* The secrets change_password must open. *)
Changeable(p) ==
  /\ settings["private_key"].key = p
  /\ Stored(settings["totp_secret"]) => settings["totp_secret"].key = p
  /\ \A f \in Friends : Stored(friends[f].secret) =>
       /\ friends[f].secret.key = p
       /\ Stored(friends[f].ecdh) => friends[f].ecdh.key = p

Resealed(q) ==
  [s \in Slots |->
     CASE s \in {"private_key", "global_secret"} -> Seal(q, settings[s].val)
       [] s = "ratchet_storage_key" /\ ks.ratchet # 0 -> Seal(q, ks.ratchet)
       [] s = "totp_secret" -> Seal(q, IF totp # 0 THEN totp ELSE settings[s].val)
       [] OTHER -> settings[s]]

\* Mutant of ResealedFriend: the ECDH key is forgotten.
ResealedFriendNoEcdh(fr, q) ==
  IF Stored(fr.secret) THEN [fr EXCEPT !.secret = Seal(q, fr.secret.val)] ELSE fr
ResealedFriend(fr, q) ==
  IF Stored(fr.secret)
  THEN [fr EXCEPT !.secret = Seal(q, fr.secret.val), !.ecdh = Seal(q, fr.ecdh.val)]
  ELSE fr

RefreshedKs ==
  [ks EXCEPT !.private = settings["private_key"].val, !.global = settings["global_secret"].val,
             !.secret = [f \in Friends |-> IF f \in ks.names /\ Stored(friends[f].secret)
                                          THEN friends[f].secret.val ELSE ks.secret[f]],
             !.duress = FALSE]
\* Mutant of Refresh: the hash is not replaced.
RefreshKeepsHash(q) == ks' = RefreshedKs /\ UNCHANGED hash
Refresh(q) == ks' = RefreshedKs /\ hash' = q

(* AuthController.change_password and KeyStore.change_password. *)
ChangePassword(p, q) ==
  /\ session = "open" /\ IsMaster(p) /\ q # p /\ Changeable(p)
  /\ settings' = Resealed(q)
  /\ friends' = [f \in Friends |-> ResealedFriend(friends[f], q)]
  /\ Refresh(q)
  /\ overlap' = (overlap \/ Overtaken)
  /\ UNCHANGED <<setup, session, storageKey, totp, jobs, fresh>>

SetDuressPassword(p, d) ==
  /\ session = "open" /\ IsMaster(p) /\ d # p
  /\ Generate
  /\ settings' = [settings EXCEPT !["duress_verifier"] = Seal(d, New)]
  /\ ks' = [ks EXCEPT !.duress = FALSE]
  /\ UNCHANGED <<setup, friends, session, hash, storageKey, totp, jobs, overlap>>

UpdateGlobalSecret(p) ==
  /\ session = "open" /\ IsMaster(p) /\ ~ ks.duress
  /\ Generate
  /\ settings' = [settings EXCEPT !["global_secret"] = Seal(p, New)]
  /\ ks' = [ks EXCEPT !.global = New]
  /\ UNCHANGED <<setup, friends, session, hash, storageKey, totp, jobs, overlap>>

-----------------------------------------------------------------------------
(* KeyStore.save_friend: the row is replaced, its ratchet state kept. *)
\* Mutant of Row: an ECDH key that is not passed is carried over.
RowKeepsEcdh(f, p, s, e) ==
  [listed |-> TRUE, secret |-> Seal(p, s), blob |-> friends[f].blob,
   ecdh |-> IF e = 0 THEN friends[f].ecdh ELSE Seal(p, e)]
Row(f, p, s, e) ==
  [listed |-> TRUE, secret |-> Seal(p, s), ecdh |-> Seal(p, e), blob |-> friends[f].blob]
\* Mutant of Remembered: an ECDH key that is not passed stays in memory.
RememberedKeepsEcdh(f, s, e) ==
  [ks EXCEPT !.names = @ \cup {f}, !.secret[f] = s, !.ecdh[f] = IF e = 0 THEN @ ELSE e]
Remembered(f, s, e) ==
  [ks EXCEPT !.names = @ \cup {f}, !.secret[f] = s, !.ecdh[f] = e]

SaveFriend(f, p, s, e) ==
  /\ friends' = [friends EXCEPT ![f] = Row(f, p, s, e)]
  /\ ks' = Remembered(f, s, e)

(* Friends as the GUI thread edits them: added with or without a secret;   *)
(* with other public keys; with a PQC secret; with a signing key.          *)
AddFriend(f, p) ==
  /\ session = "open" /\ IsMaster(p)
  /\ \/ SaveFriend(f, p, 0, 0) /\ UNCHANGED fresh
     \/ SaveFriend(f, p, New, 0) /\ Generate
  /\ overlap' = (overlap \/ OvertakenAt(f, Workers))
  /\ UNCHANGED <<settings, setup, session, hash, storageKey, totp, jobs>>

EditFriend(f, p) ==
  /\ session = "open" /\ f \in ks.names /\ IsMaster(p)
  /\ \/ /\ ks.ecdh[f] # 0 => ks.secret[f] # 0
        /\ SaveFriend(f, p, ks.secret[f], ks.ecdh[f]) /\ UNCHANGED fresh
     \/ SaveFriend(f, p, New, ks.ecdh[f]) /\ Generate
     \/ SaveFriend(f, p, ks.secret[f], 0) /\ UNCHANGED fresh
  /\ overlap' = (overlap \/ OvertakenAt(f, Workers))
  /\ UNCHANGED <<settings, setup, session, hash, storageKey, totp, jobs>>

(* A delegator's public keys, replaced from the certificate dialog: the    *)
(* friend is looked up in the table, its secret in memory.                 *)
DelegatedSave(f, p) ==
  /\ session = "open" /\ friends[f].listed /\ IsMaster(p)
  /\ SaveFriend(f, p, IF f \in ks.names THEN ks.secret[f] ELSE 0, 0)
  /\ overlap' = (overlap \/ OvertakenAt(f, Workers))
  /\ UNCHANGED <<settings, setup, session, hash, storageKey, totp, jobs, fresh>>

RemoveFriend(f) ==
  /\ session = "open" /\ f \in ks.names
  /\ friends' = [friends EXCEPT ![f] = NoFriend]
  /\ ks' = [ks EXCEPT !.names = @ \ {f}, !.secret[f] = 0, !.ecdh[f] = 0]
  /\ overlap' = (overlap \/ OvertakenAt(f, Workers))
  /\ UNCHANGED <<settings, setup, session, hash, storageKey, totp, jobs, fresh>>

-----------------------------------------------------------------------------
(* run_busy, after the dialog has verified the password: an ECDH exchange, *)
(* a ratchet session started or reset, or keys of the user generated.      *)
StartFriendJob(w, kind, f, p) ==
  /\ session = "open" /\ jobs[w] = NoJob /\ IsMaster(p) /\ f \in ks.names
  /\ kind \in FriendJobs
  /\ jobs' = [jobs EXCEPT ![w] = [NoJob EXCEPT !.kind = kind, !.friend = f, !.pw = p]]
  /\ UNCHANGED <<settings, setup, friends, memory, fresh, overlap>>

StartKeyJob(w, kind, p) ==
  /\ session = "open" /\ jobs[w] = NoJob /\ IsMaster(p)
  /\ HybridAvailable /\ kind \in KeyJobs
  /\ jobs' = [jobs EXCEPT ![w] = [NoJob EXCEPT !.kind = kind, !.pw = p]]
  /\ UNCHANGED <<settings, setup, friends, memory, fresh, overlap>>

SecretSeen(w) == IF jobs[w].gone THEN 0 ELSE ks.secret[jobs[w].friend]
EcdhSeen(w) == IF jobs[w].gone THEN 0 ELSE ks.ecdh[jobs[w].friend]

Reads(w, s) == jobs' = [jobs EXCEPT ![w].read = TRUE, ![w].secret = s]

(* friend_exists: a KeyStore that was replaced keeps its list of names. *)
FriendFound(w) == jobs[w].gone \/ jobs[w].friend \in ks.names

(* init_ratchet and reset_ratchet store or delete the session, and verify  *)
(* the password again before they save the friend.                         *)
JobReads(w) ==
  LET j == jobs[w] IN
  /\ j.kind \in FriendJobs /\ ~ j.read /\ FriendFound(w)
  /\ \/ /\ j.kind = "ecdh" /\ Generate /\ Reads(w, New)
        /\ UNCHANGED friends
     \/ /\ j.kind = "ratchet" /\ IsMaster(j.pw) /\ Reads(w, SecretSeen(w))
        /\ \/ /\ SecretSeen(w) # 0 /\ storageKey # 0
              /\ friends' = IF friends[j.friend].listed
                            THEN [friends EXCEPT ![j.friend].blob = storageKey] ELSE friends
           \/ friends' = [friends EXCEPT ![j.friend].blob = 0]
        /\ UNCHANGED fresh
  /\ UNCHANGED <<settings, setup, memory, overlap>>

(* A job that raises before it has changed anything. *)
JobFails(w) ==
  LET j == jobs[w] IN
  /\ j.kind \in FriendJobs /\ ~ j.read
  /\ \/ ~ FriendFound(w)
     \/ j.kind = "ratchet" /\ (SecretSeen(w) = 0 \/ storageKey = 0)
  /\ jobs' = [jobs EXCEPT ![w] = NoJob]
  /\ UNCHANGED <<settings, setup, friends, memory, fresh, overlap>>

(* The password was changed after the dialog: the session is stored or     *)
(* deleted already, the friend is not saved.                               *)
JobRefused(w) ==
  LET j == jobs[w] IN
  /\ j.kind = "ratchet" /\ ~ j.read /\ FriendFound(w) /\ ~ IsMaster(j.pw)
  /\ \/ /\ SecretSeen(w) # 0 /\ storageKey # 0 /\ friends[j.friend].listed
        /\ friends' = [friends EXCEPT ![j.friend].blob = storageKey]
     \/ friends' = [friends EXCEPT ![j.friend].blob = 0]
  /\ jobs' = [jobs EXCEPT ![w] = NoJob]
  /\ UNCHANGED <<settings, setup, memory, fresh, overlap>>

JobEcdh(w) == IF jobs[w].kind = "ecdh" THEN jobs[w].secret ELSE EcdhSeen(w)

JobSaves(w) ==
  LET j == jobs[w]  e == JobEcdh(w) IN
  /\ j.read
  /\ friends' = [friends EXCEPT ![j.friend] = Row(j.friend, j.pw, j.secret, e)]
  /\ ks' = IF j.gone THEN ks ELSE Remembered(j.friend, j.secret, e)
  /\ jobs' = [jobs EXCEPT ![w] = NoJob]
  /\ overlap' = (overlap \/ OvertakenAt(j.friend, Workers \ {w}))
  /\ UNCHANGED <<settings, setup, session, hash, storageKey, totp, fresh>>

(* ensure_pqc_keys_full (which generates only what is not in memory) and   *)
(* generate_hybrid_sig_keys.                                               *)
GenerateKeys(w) ==
  LET j == jobs[w]  known == ~ j.gone /\ ks.pqc # 0 IN
  /\ \/ /\ j.kind = "pqc" /\ known
        /\ UNCHANGED <<settings, ks, fresh>>
     \/ /\ j.kind = "pqc" /\ ~ known /\ Generate
        /\ settings' = [settings EXCEPT !["pqc"] = Seal(j.pw, New)]
        /\ ks' = IF j.gone THEN ks ELSE [ks EXCEPT !.pqc = New]
     \/ /\ j.kind = "hybrid" /\ Generate
        /\ settings' = [settings EXCEPT !["hybrid_sig"] = Seal(j.pw, New)]
        /\ ks' = IF j.gone THEN ks ELSE [ks EXCEPT !.hybrid = New]
  /\ jobs' = [jobs EXCEPT ![w] = NoJob]
  /\ UNCHANGED <<setup, friends, session, hash, storageKey, totp, overlap>>

-----------------------------------------------------------------------------
Screens ==
  \/ Lock \/ Close \/ ShowTotpSetup
  \/ \E p \in Passwords :
       \/ FirstRun(p) \/ Login(p) \/ LoginDecoy(p)
       \/ Unlock(p) \/ UnlockDecoy(p) \/ Recover(p)
       \/ DialogCancelled(p) \/ UpdateGlobalSecret(p)
       \/ \E q \in Passwords : ChangePassword(p, q) \/ SetDuressPassword(p, q)

Editing ==
  \E f \in Friends :
    \/ RemoveFriend(f)
    \/ \E p \in Passwords : AddFriend(f, p) \/ EditFriend(f, p) \/ DelegatedSave(f, p)

Working ==
  \E w \in Workers :
    \/ \E p \in Passwords :
         \/ \E f \in Friends, k \in FriendJobs : StartFriendJob(w, k, f, p)
         \/ \E k \in KeyJobs : StartKeyJob(w, k, p)
    \/ JobReads(w) \/ JobFails(w) \/ JobRefused(w) \/ JobSaves(w) \/ GenerateKeys(w)

Next == Screens \/ Editing \/ Working
Spec == Init /\ [][Next]_vars

-----------------------------------------------------------------------------
FriendRow == [listed : BOOLEAN, secret : Sealed, ecdh : Sealed, blob : Nat]
KeyStoreObject ==
  [private : Nat, global : Nat, ratchet : Nat, hybrid : Nat, pqc : Nat,
   names : SUBSET Friends, secret : [Friends -> Nat], ecdh : [Friends -> Nat],
   duress : BOOLEAN]
Job == [kind : {"none"} \cup FriendJobs \cup KeyJobs, friend : Friends \cup {NoPassword},
        pw : Passwords \cup {NoPassword}, read : BOOLEAN, secret : Nat, gone : BOOLEAN]

(* Every row, every field of the KeyStore and every job has its type, and  *)
(* what is not there is not sealed with anything.                          *)
TypeOK ==
  /\ settings \in [Slots -> Sealed]
  /\ setup \in BOOLEAN
  /\ friends \in [Friends -> FriendRow]
  /\ session \in {"closed", "setup", "open", "locked"}
  /\ ks \in KeyStoreObject
  /\ hash \in Passwords \cup {NoPassword}
  /\ storageKey \in Nat /\ totp \in Nat /\ fresh \in Nat
  /\ jobs \in [Workers -> Job]
  /\ overlap \in BOOLEAN

(* One password opens what the user cannot do without: the private key is  *)
(* sealed like the global secret the verifiers test, and, unless a job was *)
(* overtaken, so is every secret shared with a friend.                     *)
OneMasterKey ==
  /\ settings["private_key"].key = Master
  /\ ~ overlap => \A f \in Friends :
       /\ Stored(friends[f].secret) => friends[f].secret.key = Master
       /\ Stored(friends[f].ecdh) => friends[f].ecdh.key = Master

(* change_password re-encrypts the ECDH key of a friend only in rows that  *)
(* have a shared secret, so there must be no other rows with one.          *)
EcdhHasSecret ==
  ~ overlap => \A f \in Friends : Stored(friends[f].ecdh) => Stored(friends[f].secret)

(* What the session works with is what the next login will load: the       *)
(* KeyStore never runs ahead of the database or behind it.                 *)
MemoryIsStored ==
  session = "open" =>
    /\ ks.private = settings["private_key"].val => ks.global = settings["global_secret"].val
    /\ ks.ratchet \in {0, settings["ratchet_storage_key"].val}
    /\ ~ overlap => \A f \in ks.names :
         /\ friends[f].listed
         /\ ks.secret[f] = friends[f].secret.val
         /\ ks.ecdh[f] = friends[f].ecdh.val

(* The lock screen compares with a hash in memory, the login with the      *)
(* global secret: they accept the same master password.                    *)
LockScreenAgrees == hash # NoPassword => hash = Master

(* "persisted ratchet blobs survive restarts and password changes"         *)
(* (KeyStore.load): every stored session is encrypted with the stored      *)
(* ratchet storage key, through changes, recoveries and decoy sessions.    *)
BlobsReadable ==
  \A f \in Friends : friends[f].blob # 0 => friends[f].blob = settings["ratchet_storage_key"].val

(* "Re-encrypt all stored secrets with a new master password"              *)
(* (change_password): the password the verifiers accept opens the store.   *)
Unlockable == Stored(settings["private_key"]) => LoadOpens(Master)
=============================================================================

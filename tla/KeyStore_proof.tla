---------------------------- MODULE KeyStore_proof ----------------------------
(***************************************************************************)
(* Proofs about KeyStore for any passwords, friends and workers.           *)
(***************************************************************************)
EXTENDS KeyStore, TLAPS

(* A job has a password, a job for a friend has a friend, and only such a  *)
(* job has read one.                                                       *)
JobShape ==
  \A w \in Workers :
    /\ jobs[w].kind = "none" => jobs[w] = NoJob
    /\ jobs[w].kind # "none" => jobs[w].pw \in Passwords
    /\ jobs[w].kind \in FriendJobs => jobs[w].friend \in Friends
    /\ jobs[w].read => jobs[w].kind \in FriendJobs

TypeInv == TypeOK /\ JobShape

(* What encrypt_secret returns opens with the password it was given. *)
LEMMA SealFacts ==
  ASSUME NEW k \in Keys, NEW v \in Nat
  PROVE  /\ Seal(k, v) \in Sealed
         /\ Seal(k, v).val = v
         /\ v # 0 => Seal(k, v).key = k
         /\ v = 0 => Seal(k, v) = Absent
BY DEF Seal, Sealed, Absent

(* A row or an absent row is recognised by its value. *)
LEMMA SealedFacts ==
  ASSUME NEW r \in Sealed
  PROVE  /\ r.val \in Nat
         /\ r.key \in Keys \cup {NoPassword}
         /\ ~ Stored(r) => r = Absent
         /\ r.key \in Passwords => Stored(r)
BY KeyStoreConstants DEF Sealed, Absent, Stored, Keys

(* save_friend writes a well-formed row and a well-formed KeyStore. *)
LEMMA SaveTypes ==
  ASSUME TypeOK, NEW f \in Friends, NEW p \in Passwords, NEW s \in Nat, NEW e \in Nat
  PROVE  Row(f, p, s, e) \in FriendRow /\ Remembered(f, s, e) \in KeyStoreObject
<1>1. Seal(p, s) \in Sealed /\ Seal(p, e) \in Sealed
  BY SealFacts DEF Keys
<1>2. Row(f, p, s, e) \in FriendRow
  BY <1>1 DEF Row, FriendRow, TypeOK
<1>3. Remembered(f, s, e) \in KeyStoreObject
  BY DEF Remembered, KeyStoreObject, TypeOK
<1> QED BY <1>2, <1>3

(* A generated secret is a secret, and may seal another. *)
LEMMA NewType == TypeOK => New \in Nat /\ New # 0 /\ New \in Keys
BY DEF TypeOK, New, Keys

(* A settings table stays well formed when one of its rows is sealed. *)
LEMMA RowTypes ==
  ASSUME TypeOK, NEW s \in Slots, NEW k \in Keys, NEW v \in Nat
  PROVE  [settings EXCEPT ![s] = Seal(k, v)] \in [Slots -> Sealed]
BY SealFacts DEF TypeOK

(* "None" is a value of a sealed column. *)
LEMMA AbsentType == Absent \in Sealed
BY DEF Sealed

(* The KeyStore objects that screens create or wipe are well formed. *)
LEMMA ObjectTypes ==
  ASSUME TypeOK
  PROVE  /\ EmptyKs \in KeyStoreObject /\ Wiped(ks) \in KeyStoreObject
         /\ Decoy \in KeyStoreObject /\ Loaded \in KeyStoreObject
         /\ RefreshedKs \in KeyStoreObject
<1>1. Nothing \in [Friends -> Nat] BY DEF Nothing
<1>2. EmptyKs \in KeyStoreObject BY <1>1 DEF EmptyKs, KeyStoreObject
<1>3. Wiped(ks) \in KeyStoreObject BY <1>2 DEF Wiped, KeyStoreObject, TypeOK
<1>4. \A s \in Slots : settings[s].val \in Nat BY SealedFacts DEF TypeOK
<1>5. \A f \in Friends : /\ friends[f].listed \in BOOLEAN
                         /\ friends[f].secret.val \in Nat /\ friends[f].ecdh.val \in Nat
  BY SealedFacts DEF TypeOK, FriendRow
<1>6. Decoy \in KeyStoreObject
  BY <1>2, <1>4, NewType DEF Decoy, KeyStoreObject, Slots
<1>7. Loaded \in KeyStoreObject
  BY <1>4, <1>5, KeyStoreConstants DEF Loaded, KeyStoreObject, Slots
<1>8. RefreshedKs \in KeyStoreObject
  BY <1>4, <1>5 DEF RefreshedKs, KeyStoreObject, Slots, TypeOK
<1> QED BY <1>2, <1>3, <1>6, <1>7, <1>8

(* What a new KeyStore does to the jobs of the old one. *)
LEMMA AbandonedTypes ==
  ASSUME TypeInv, jobs' = Abandoned
  PROVE  jobs' \in [Workers -> Job] /\ JobShape'
<1>1. \A w \in Workers : jobs[w] \in Job /\ [jobs[w] EXCEPT !.gone = TRUE] \in Job
  BY DEF TypeInv, TypeOK, Job
<1>2. \A w \in Workers :
        \/ jobs'[w] = NoJob /\ jobs[w] = NoJob
        \/ jobs'[w] = [jobs[w] EXCEPT !.gone = TRUE] /\ jobs[w] # NoJob
  BY DEF Abandoned
<1>3. jobs' \in [Workers -> Job] BY <1>1, <1>2 DEF Abandoned
<1>4. \A w \in Workers : jobs[w] # NoJob =>
        /\ jobs'[w].kind = jobs[w].kind /\ jobs'[w].pw = jobs[w].pw
        /\ jobs'[w].friend = jobs[w].friend /\ jobs'[w].read = jobs[w].read
  BY <1>1, <1>2 DEF Job
<1>5. JobShape' BY <1>2, <1>4 DEF TypeInv, JobShape
<1> QED BY <1>3, <1>5

(* A job that is over leaves no trace. *)
LEMMA JobEnds ==
  ASSUME TypeInv, NEW w \in Workers, jobs' = [jobs EXCEPT ![w] = NoJob]
  PROVE  jobs' \in [Workers -> Job] /\ JobShape'
BY DEF TypeInv, TypeOK, JobShape, Job, NoJob, FriendJobs

(* Type correctness: every operation writes well-formed rows, objects and  *)
(* jobs.                                                                   *)
LEMMA TypeStep == TypeInv /\ [Next]_vars => TypeInv'
<1> SUFFICES ASSUME TypeInv, [Next]_vars PROVE TypeInv'
  OBVIOUS
<1>1. CASE Lock
  BY <1>1, ObjectTypes DEF Lock, TypeInv, TypeOK, JobShape
<1>2. CASE Close
  BY <1>2, ObjectTypes DEF Close, TypeInv, TypeOK, JobShape, NoJob, Job, FriendJobs
<1>3. CASE ShowTotpSetup
  <2>1. settings' \in [Slots -> Sealed] /\ totp' \in Nat /\ fresh' \in Nat
    BY <1>3, NewType, RowTypes DEF ShowTotpSetup, Generate, TypeInv, TypeOK, Slots, Keys,
      KeyStoreObject
  <2> QED BY <1>3, <2>1 DEF ShowTotpSetup, TypeInv, TypeOK, JobShape
<1>4. ASSUME NEW p \in Passwords, FirstRun(p) PROVE TypeInv'
  <2>1. Seal(p, New) \in Sealed BY NewType, SealFacts DEF TypeInv, Keys
  <2>2. settings' \in [Slots -> Sealed] BY <1>4, <2>1, AbsentType DEF FirstRun
  <2>3. ks' \in KeyStoreObject BY <1>4, NewType, ObjectTypes DEF FirstRun, KeyStoreObject, TypeInv
  <2> QED BY <1>4, <2>2, <2>3, NewType DEF FirstRun, Generate, TypeInv, TypeOK, JobShape, New
<1>5. ASSUME NEW p \in Passwords, Login(p) PROVE TypeInv'
  <2>1. settings' \in [Slots -> Sealed] /\ fresh' \in Nat
    BY <1>5, NewType, RowTypes DEF Login, InitTotp, Generate, TypeInv, TypeOK, Slots, Keys
  <2>2. totp' \in Nat /\ storageKey' \in Nat
    BY <1>5, <2>1, SealedFacts DEF Login, TotpIn, TypeInv, TypeOK, Slots
  <2> QED BY <1>5, <2>1, <2>2, ObjectTypes DEF Login, Entered, TypeInv, TypeOK, JobShape
<1>6. ASSUME NEW p \in Passwords, LoginDecoy(p) PROVE TypeInv'
  <2>1. settings' \in [Slots -> Sealed] /\ fresh' \in Nat /\ totp' \in Nat
    BY <1>6, NewType, RowTypes DEF LoginDecoy, Generate, TypeInv, TypeOK, Slots, Keys
  <2> QED BY <1>6, <2>1, ObjectTypes DEF LoginDecoy, Entered, TypeInv, TypeOK, JobShape
<1>7. ASSUME NEW p \in Passwords, Unlock(p) PROVE TypeInv'
  <2>1. totp' \in Nat /\ storageKey' \in Nat
    BY <1>7, SealedFacts DEF Unlock, TotpIn, TypeInv, TypeOK, Slots
  <2> QED BY <1>7, <2>1, ObjectTypes, AbandonedTypes DEF Unlock, TypeInv, TypeOK
<1>8. ASSUME NEW p \in Passwords, UnlockDecoy(p) PROVE TypeInv'
  BY <1>8, ObjectTypes, AbandonedTypes DEF UnlockDecoy, Generate, TypeInv, TypeOK
<1>9. ASSUME NEW p \in Passwords, Recover(p) PROVE TypeInv'
  <2>1. Seal(p, New) \in Sealed /\ Seal(New, New) \in Sealed
    BY NewType, SealFacts DEF TypeInv, Keys
  <2>2. settings' \in [Slots -> Sealed]
    BY <1>9, <2>1, AbsentType DEF Recover, TypeInv, TypeOK, Slots
  <2>3. friends' \in [Friends -> FriendRow]
    BY <1>9, AbsentType DEF Recover, RecoveredFriend, NoFriend, FriendRow, TypeInv, TypeOK
  <2>4. ks' \in KeyStoreObject BY <1>9, NewType, ObjectTypes DEF Recover, KeyStoreObject, TypeInv
  <2>5. jobs' \in [Workers -> Job] /\ JobShape' BY <1>9, AbandonedTypes DEF Recover
  <2>6. /\ setup' \in BOOLEAN /\ session' \in {"closed", "setup", "open", "locked"}
        /\ hash' \in Passwords
    BY <1>9, Zenon DEF Recover
  <2>8. /\ Generate /\ totp' = (IF session = "closed" THEN New ELSE 0) /\ storageKey' = New
    BY <1>9, Zenon DEF Recover
  <2>9. storageKey' \in Nat /\ totp' \in Nat /\ fresh' \in Nat
    BY <2>8, NewType DEF Generate, TypeInv, TypeOK
  <2>7. overlap' \in BOOLEAN BY <1>9 DEF Recover, Overtaken, TypeInv, TypeOK
  <2> QED BY <2>2, <2>3, <2>4, <2>5, <2>6, <2>7, <2>9 DEF TypeInv, TypeOK
<1>10. ASSUME NEW p \in Passwords, DialogCancelled(p) PROVE TypeInv'
  BY <1>10 DEF DialogCancelled, IsDuress, KeyStoreObject, TypeInv, TypeOK, JobShape
<1>11. ASSUME NEW p \in Passwords, UpdateGlobalSecret(p) PROVE TypeInv'
  <2>1. settings' \in [Slots -> Sealed]
    BY <1>11, NewType, RowTypes DEF UpdateGlobalSecret, TypeInv, Slots, Keys
  <2>2. ks' \in KeyStoreObject
    BY <1>11, NewType DEF UpdateGlobalSecret, KeyStoreObject, TypeInv, TypeOK
  <2> QED BY <1>11, <2>1, <2>2 DEF UpdateGlobalSecret, Generate, TypeInv, TypeOK, JobShape
<1>12. ASSUME NEW p \in Passwords, NEW q \in Passwords, ChangePassword(p, q) PROVE TypeInv'
  <2>1. \A v \in Nat : Seal(q, v) \in Sealed BY SealFacts DEF Keys
  <2>2. \A s \in Slots : settings[s] \in Sealed /\ settings[s].val \in Nat
    BY SealedFacts DEF TypeInv, TypeOK
  <2>3. ks.ratchet \in Nat /\ totp \in Nat BY DEF TypeInv, TypeOK, KeyStoreObject
  <2>4. settings' \in [Slots -> Sealed]
    BY <1>12, <2>1, <2>2, <2>3 DEF ChangePassword, Resealed, Slots
  <2>5. \A f \in Friends : friends[f].secret.val \in Nat /\ friends[f].ecdh.val \in Nat
    BY SealedFacts DEF TypeInv, TypeOK, FriendRow
  <2>6. friends' \in [Friends -> FriendRow]
    BY <1>12, <2>1, <2>5 DEF ChangePassword, ResealedFriend, FriendRow, TypeInv, TypeOK
  <2>7. ks' \in KeyStoreObject /\ hash' \in Passwords
    BY <1>12, ObjectTypes DEF ChangePassword, Refresh, TypeInv
  <2> QED BY <1>12, <2>4, <2>6, <2>7 DEF ChangePassword, Overtaken, TypeInv, TypeOK, JobShape
<1>13. ASSUME NEW p \in Passwords, NEW q \in Passwords, SetDuressPassword(p, q) PROVE TypeInv'
  <2>1. settings' \in [Slots -> Sealed]
    BY <1>13, NewType, RowTypes DEF SetDuressPassword, TypeInv, Slots, Keys
  <2>2. ks' \in KeyStoreObject BY <1>13 DEF SetDuressPassword, KeyStoreObject, TypeInv, TypeOK
  <2> QED BY <1>13, <2>1, <2>2 DEF SetDuressPassword, Generate, TypeInv, TypeOK, JobShape
<1>14. ASSUME NEW f \in Friends, RemoveFriend(f) PROVE TypeInv'
  <2>1. friends' \in [Friends -> FriendRow] /\ ks' \in KeyStoreObject
    BY <1>14, AbsentType DEF RemoveFriend, NoFriend, FriendRow, KeyStoreObject, TypeInv, TypeOK
  <2> QED BY <1>14, <2>1 DEF RemoveFriend, TypeInv, TypeOK, JobShape
<1>15. ASSUME NEW f \in Friends, NEW p \in Passwords, AddFriend(f, p) PROVE TypeInv'
  <2>1. friends' \in [Friends -> FriendRow] /\ ks' \in KeyStoreObject /\ fresh' \in Nat
    BY <1>15, SaveTypes, NewType DEF AddFriend, SaveFriend, Generate, TypeInv, TypeOK
  <2> QED BY <1>15, <2>1 DEF AddFriend, TypeInv, TypeOK, JobShape
<1>16. ASSUME NEW f \in Friends, NEW p \in Passwords, EditFriend(f, p) PROVE TypeInv'
  <2>1. ks.secret[f] \in Nat /\ ks.ecdh[f] \in Nat BY DEF TypeInv, TypeOK, KeyStoreObject
  <2>2. friends' \in [Friends -> FriendRow] /\ ks' \in KeyStoreObject /\ fresh' \in Nat
    BY <1>16, <2>1, SaveTypes, NewType DEF EditFriend, SaveFriend, Generate, TypeInv, TypeOK
  <2> QED BY <1>16, <2>2 DEF EditFriend, TypeInv, TypeOK, JobShape
<1>17. ASSUME NEW w \in Workers, NEW k \in FriendJobs, NEW f \in Friends, NEW p \in Passwords,
            StartFriendJob(w, k, f, p)
     PROVE TypeInv'
  BY <1>17 DEF StartFriendJob, memory, Job, NoJob, FriendJobs, TypeInv, TypeOK, JobShape
<1>18. ASSUME NEW w \in Workers, NEW k \in KeyJobs, NEW p \in Passwords, StartKeyJob(w, k, p)
     PROVE TypeInv'
  BY <1>18 DEF StartKeyJob, memory, Job, NoJob, FriendJobs, KeyJobs, TypeInv, TypeOK, JobShape
<1>19. ASSUME NEW w \in Workers, JobReads(w) PROVE TypeInv'
  <2>1. jobs[w].friend \in Friends /\ SecretSeen(w) \in Nat
    BY <1>19 DEF JobReads, SecretSeen, TypeInv, TypeOK, JobShape, KeyStoreObject
  <2>2. fresh' \in Nat
    BY <1>19 DEF JobReads, Generate, TypeInv, TypeOK
  <2> PICK s \in Nat : Reads(w, s)
    BY <1>19, <2>1, NewType DEF JobReads, TypeInv
  <2>4. jobs[w] \in Job BY DEF TypeInv, TypeOK
  <2>5. jobs' = [jobs EXCEPT ![w] = [jobs[w] EXCEPT !.read = TRUE, !.secret = s]]
    BY DEF Reads, TypeInv, TypeOK
  <2>6. jobs' \in [Workers -> Job] BY <2>4, <2>5 DEF Job, TypeInv, TypeOK
  <2>7. \A v \in Workers \ {w} : jobs'[v] = jobs[v] BY <2>5 DEF TypeInv, TypeOK
  <2>8. /\ jobs'[w].kind = jobs[w].kind /\ jobs'[w].pw = jobs[w].pw
        /\ jobs'[w].friend = jobs[w].friend /\ jobs[w].kind \in FriendJobs
    BY <1>19, <2>4, <2>5 DEF JobReads, Job, TypeInv, TypeOK
  <2>9. JobShape'
    BY <2>7, <2>8 DEF FriendJobs, TypeInv, JobShape
  <2>3. friends' \in [Friends -> FriendRow]
    BY <1>19, <2>1 DEF JobReads, FriendRow, TypeInv, TypeOK
  <2> QED BY <1>19, <2>2, <2>3, <2>6, <2>9 DEF JobReads, memory, TypeInv, TypeOK
<1>20. ASSUME NEW w \in Workers, JobFails(w) PROVE TypeInv'
  BY <1>20, JobEnds DEF JobFails, memory, TypeInv, TypeOK
<1>21. ASSUME NEW w \in Workers, JobRefused(w) PROVE TypeInv'
  <2>1. jobs[w].friend \in Friends
    BY <1>21 DEF JobRefused, FriendJobs, TypeInv, JobShape
  <2>2. friends' \in [Friends -> FriendRow]
    BY <1>21, <2>1 DEF JobRefused, FriendRow, TypeInv, TypeOK
  <2> QED BY <1>21, <2>2, JobEnds DEF JobRefused, memory, TypeInv, TypeOK
<1>22. ASSUME NEW w \in Workers, JobSaves(w) PROVE TypeInv'
  <2>1. jobs[w].friend \in Friends /\ jobs[w].pw \in Passwords /\ jobs[w].secret \in Nat
    BY <1>22 DEF JobSaves, FriendJobs, Job, TypeInv, TypeOK, JobShape
  <2>2. JobEcdh(w) \in Nat
    BY <1>22, <2>1 DEF JobSaves, JobEcdh, EcdhSeen, FriendJobs, TypeInv, TypeOK, JobShape,
      KeyStoreObject
  <2>3. friends' \in [Friends -> FriendRow] /\ ks' \in KeyStoreObject
    BY <1>22, <2>1, <2>2, SaveTypes DEF JobSaves, TypeInv, TypeOK
  <2> QED BY <1>22, <2>3, JobEnds DEF JobSaves, OvertakenAt, TypeInv, TypeOK
<1>23. ASSUME NEW w \in Workers, GenerateKeys(w) PROVE TypeInv'
  <2>1. jobs[w].kind \in KeyJobs BY <1>23 DEF GenerateKeys, KeyJobs
  <2>2. jobs[w].pw \in Keys BY <2>1 DEF KeyJobs, Keys, TypeInv, JobShape
  <2>3. settings' \in [Slots -> Sealed] /\ fresh' \in Nat
    BY <1>23, <2>2, NewType, RowTypes DEF GenerateKeys, Generate, TypeInv, TypeOK, Slots
  <2>4. ks' \in KeyStoreObject
    BY <1>23, NewType DEF GenerateKeys, KeyStoreObject, TypeInv, TypeOK
  <2> QED BY <1>23, <2>3, <2>4, JobEnds DEF GenerateKeys, TypeInv, TypeOK
<1>24. ASSUME NEW f \in Friends, NEW p \in Passwords, DelegatedSave(f, p) PROVE TypeInv'
  <2>1. ks.secret[f] \in Nat BY DEF TypeInv, TypeOK, KeyStoreObject
  <2>2. friends' \in [Friends -> FriendRow] /\ ks' \in KeyStoreObject
    BY <1>24, <2>1, SaveTypes DEF DelegatedSave, SaveFriend, TypeInv, TypeOK
  <2> QED BY <1>24, <2>2 DEF DelegatedSave, OvertakenAt, TypeInv, TypeOK, JobShape
<1>25. CASE UNCHANGED vars
  BY <1>25 DEF vars, TypeInv, TypeOK, JobShape
<1> QED BY <1>1, <1>2, <1>3, <1>4, <1>5, <1>6, <1>7, <1>8, <1>9, <1>10, <1>11, <1>12, <1>13,
  <1>14, <1>15, <1>16, <1>17, <1>18, <1>19, <1>20, <1>21, <1>22, <1>23, <1>24, <1>25
  DEF Next, Screens, Editing, Working

(* Before the first run everything is empty. *)
LEMMA TypeInit == Init => TypeInv
<1> SUFFICES ASSUME Init PROVE TypeInv
  OBVIOUS
<1>1. EmptyKs \in KeyStoreObject
  BY DEF EmptyKs, Nothing, KeyStoreObject
<1>2. jobs \in [Workers -> Job] /\ JobShape
  BY DEF Init, JobShape, NoJob, Job, FriendJobs
<1>3. settings \in [Slots -> Sealed] /\ friends \in [Friends -> FriendRow]
  BY AbsentType DEF Init, NoFriend, FriendRow
<1> QED BY <1>1, <1>2, <1>3 DEF Init, TypeInv, TypeOK

(* The private key is sealed with the password the verifiers accept, and   *)
(* the hash of the lock screen is a hash of it.                            *)
PrivateKeyOpens == settings["private_key"].key = Master
PasswordInv == TypeInv /\ PrivateKeyOpens /\ LockScreenAgrees

(* Sealing a secret that is there with a password leaves it so sealed. *)
LEMMA SealKey ==
  ASSUME NEW p \in Passwords, NEW v \in Nat, v # 0
  PROVE  Seal(p, v).key = p /\ Seal(p, v).val = v
BY SealFacts DEF Keys

(* A password that is accepted seals a secret that is there. *)
LEMMA MasterStored ==
  ASSUME TypeInv, NEW p \in Passwords, IsMaster(p)
  PROVE  settings["global_secret"].val \in Nat /\ settings["global_secret"].val # 0
BY SealedFacts DEF IsMaster, Master, Stored, TypeInv, TypeOK, Slots

(* Every operation that replaces the master password replaces the wrapper  *)
(* of the private key and the hash with it.                                *)
LEMMA PasswordStep == PasswordInv /\ [Next]_vars => PasswordInv'
<1> SUFFICES ASSUME TypeInv, PrivateKeyOpens, LockScreenAgrees, [Next]_vars
             PROVE  PrivateKeyOpens' /\ LockScreenAgrees'
  BY TypeStep DEF PasswordInv
<1>1. CASE Lock
  BY <1>1 DEF Lock, PrivateKeyOpens, LockScreenAgrees, Master
<1>2. CASE Close
  BY <1>2 DEF Close, PrivateKeyOpens, LockScreenAgrees, Master
<1>3. CASE ShowTotpSetup
  <2>1. hash' = hash /\ \A s \in Slots \ {"totp_secret"} : settings'[s] = settings[s]
    BY <1>3 DEF ShowTotpSetup, TypeInv, TypeOK
  <2> QED BY <2>1 DEF PrivateKeyOpens, LockScreenAgrees, Master, Slots
<1>4. ASSUME NEW p \in Passwords, FirstRun(p) PROVE PrivateKeyOpens' /\ LockScreenAgrees'
  <2>1. /\ hash' = p /\ settings'["global_secret"] = Seal(p, New)
        /\ settings'["private_key"] = Seal(p, New)
    BY <1>4 DEF FirstRun, Slots
  <2> QED BY <2>1, SealKey, NewType DEF TypeInv, PrivateKeyOpens, LockScreenAgrees, Master
<1>5. ASSUME NEW p \in Passwords, Login(p) PROVE PrivateKeyOpens' /\ LockScreenAgrees'
  <2>1. hash' = p /\ \A s \in Slots \ {"totp_secret"} : settings'[s] = settings[s]
    BY <1>5 DEF Login, InitTotp, TypeInv, TypeOK
  <2> QED BY <1>5, <2>1 DEF Login, IsMaster, PrivateKeyOpens, LockScreenAgrees, Master, Slots
<1>6. ASSUME NEW p \in Passwords, LoginDecoy(p) PROVE PrivateKeyOpens' /\ LockScreenAgrees'
  <2>1. hash' = NoPassword /\ \A s \in Slots \ {"totp_secret"} : settings'[s] = settings[s]
    BY <1>6 DEF LoginDecoy, TypeInv, TypeOK
  <2> QED BY <2>1 DEF PrivateKeyOpens, LockScreenAgrees, Master, Slots
<1>7. ASSUME NEW p \in Passwords, Unlock(p) PROVE PrivateKeyOpens' /\ LockScreenAgrees'
  BY <1>7 DEF Unlock, PrivateKeyOpens, LockScreenAgrees, Master
<1>8. ASSUME NEW p \in Passwords, UnlockDecoy(p) PROVE PrivateKeyOpens' /\ LockScreenAgrees'
  BY <1>8 DEF UnlockDecoy, PrivateKeyOpens, LockScreenAgrees, Master
<1>9. ASSUME NEW p \in Passwords, Recover(p) PROVE PrivateKeyOpens' /\ LockScreenAgrees'
  <2>1. /\ hash' = p /\ settings'["global_secret"] = Seal(p, New)
        /\ settings'["private_key"] = Seal(p, New)
    BY <1>9 DEF Recover, Slots
  <2> QED BY <2>1, SealKey, NewType DEF TypeInv, PrivateKeyOpens, LockScreenAgrees, Master
<1>10. ASSUME NEW p \in Passwords, DialogCancelled(p) PROVE PrivateKeyOpens' /\ LockScreenAgrees'
  BY <1>10 DEF DialogCancelled, PrivateKeyOpens, LockScreenAgrees, Master
<1>11. ASSUME NEW p \in Passwords, UpdateGlobalSecret(p)
     PROVE PrivateKeyOpens' /\ LockScreenAgrees'
  <2>1. /\ hash' = hash /\ settings'["private_key"] = settings["private_key"]
        /\ settings'["global_secret"] = Seal(p, New) /\ p = Master
    BY <1>11 DEF UpdateGlobalSecret, IsMaster, TypeInv, TypeOK, Slots
  <2> QED BY <2>1, SealKey, NewType DEF TypeInv, PrivateKeyOpens, LockScreenAgrees, Master
<1>12. ASSUME NEW p \in Passwords, NEW q \in Passwords, ChangePassword(p, q)
     PROVE PrivateKeyOpens' /\ LockScreenAgrees'
  <2>1. /\ hash' = q /\ settings'["private_key"] = Seal(q, settings["private_key"].val)
        /\ settings'["global_secret"] = Seal(q, settings["global_secret"].val)
        /\ IsMaster(p) /\ settings["private_key"].key = p
    BY <1>12 DEF ChangePassword, Refresh, Resealed, Changeable, Slots
  <2>2. settings["private_key"].val \in Nat /\ settings["private_key"].val # 0
    BY <2>1, SealedFacts DEF Stored, TypeInv, TypeOK, Slots
  <2> QED BY <2>1, <2>2, MasterStored, SealKey DEF PrivateKeyOpens, LockScreenAgrees, Master
<1>13. ASSUME NEW p \in Passwords, NEW q \in Passwords, SetDuressPassword(p, q)
     PROVE PrivateKeyOpens' /\ LockScreenAgrees'
  <2>1. hash' = hash /\ \A s \in Slots \ {"duress_verifier"} : settings'[s] = settings[s]
    BY <1>13 DEF SetDuressPassword, TypeInv, TypeOK
  <2> QED BY <2>1 DEF PrivateKeyOpens, LockScreenAgrees, Master, Slots
<1>14. ASSUME NEW f \in Friends, RemoveFriend(f) PROVE PrivateKeyOpens' /\ LockScreenAgrees'
  BY <1>14 DEF RemoveFriend, PrivateKeyOpens, LockScreenAgrees, Master
<1>15. ASSUME NEW f \in Friends, NEW p \in Passwords, AddFriend(f, p)
     PROVE PrivateKeyOpens' /\ LockScreenAgrees'
  BY <1>15 DEF AddFriend, PrivateKeyOpens, LockScreenAgrees, Master
<1>16. ASSUME NEW f \in Friends, NEW p \in Passwords, EditFriend(f, p)
     PROVE PrivateKeyOpens' /\ LockScreenAgrees'
  BY <1>16 DEF EditFriend, PrivateKeyOpens, LockScreenAgrees, Master
<1>17. ASSUME NEW w \in Workers, NEW k \in FriendJobs, NEW f \in Friends, NEW p \in Passwords,
            StartFriendJob(w, k, f, p)
     PROVE PrivateKeyOpens' /\ LockScreenAgrees'
  BY <1>17 DEF StartFriendJob, memory, PrivateKeyOpens, LockScreenAgrees, Master
<1>18. ASSUME NEW w \in Workers, NEW k \in KeyJobs, NEW p \in Passwords, StartKeyJob(w, k, p)
     PROVE PrivateKeyOpens' /\ LockScreenAgrees'
  BY <1>18 DEF StartKeyJob, memory, PrivateKeyOpens, LockScreenAgrees, Master
<1>19. ASSUME NEW w \in Workers, JobReads(w) PROVE PrivateKeyOpens' /\ LockScreenAgrees'
  BY <1>19 DEF JobReads, memory, PrivateKeyOpens, LockScreenAgrees, Master
<1>20. ASSUME NEW w \in Workers, JobFails(w) PROVE PrivateKeyOpens' /\ LockScreenAgrees'
  BY <1>20 DEF JobFails, memory, PrivateKeyOpens, LockScreenAgrees, Master
<1>21. ASSUME NEW w \in Workers, JobRefused(w) PROVE PrivateKeyOpens' /\ LockScreenAgrees'
  BY <1>21 DEF JobRefused, memory, PrivateKeyOpens, LockScreenAgrees, Master
<1>22. ASSUME NEW w \in Workers, JobSaves(w) PROVE PrivateKeyOpens' /\ LockScreenAgrees'
  BY <1>22 DEF JobSaves, PrivateKeyOpens, LockScreenAgrees, Master
<1>23. ASSUME NEW w \in Workers, GenerateKeys(w) PROVE PrivateKeyOpens' /\ LockScreenAgrees'
  <2>1. hash' = hash /\ \A s \in Slots \ {"pqc", "hybrid_sig"} : settings'[s] = settings[s]
    BY <1>23 DEF GenerateKeys, TypeInv, TypeOK
  <2> QED BY <2>1 DEF PrivateKeyOpens, LockScreenAgrees, Master, Slots
<1>24. ASSUME NEW f \in Friends, NEW p \in Passwords, DelegatedSave(f, p)
     PROVE PrivateKeyOpens' /\ LockScreenAgrees'
  BY <1>24 DEF DelegatedSave, PrivateKeyOpens, LockScreenAgrees, Master
<1>25. CASE UNCHANGED vars
  BY <1>25 DEF vars, PrivateKeyOpens, LockScreenAgrees, Master
<1> QED BY <1>1, <1>2, <1>3, <1>4, <1>5, <1>6, <1>7, <1>8, <1>9, <1>10, <1>11, <1>12, <1>13,
  <1>14, <1>15, <1>16, <1>17, <1>18, <1>19, <1>20, <1>21, <1>22, <1>23, <1>24, <1>25
  DEF Next, Screens, Editing, Working

(* A closed application holds nothing, and before the first run nothing is *)
(* stored.                                                                 *)
ClosedIsIdle ==
  session = "closed" => ks.ratchet = 0 /\ storageKey = 0 /\ \A w \in Workers : jobs[w] = NoJob
BeforeFirstRun ==
  ~ Stored(settings["private_key"]) =>
     /\ session = "closed" /\ \A f \in Friends : friends[f] = NoFriend
     /\ settings["duress_verifier"] = Absent

(* There is one ratchet storage key: what the KeyStore and RatchetService  *)
(* hold and what the stored sessions are encrypted with is the stored one. *)
OneRatchetKey ==
  LET key == settings["ratchet_storage_key"].val IN
  /\ ks.ratchet \in {0, key} /\ storageKey \in {0, key}
  /\ \A f \in Friends : friends[f].blob \in {0, key}

BlobInv == TypeInv /\ ClosedIsIdle /\ BeforeFirstRun /\ OneRatchetKey

(* save_friend keeps the ratchet sessions and the ratchet storage key. *)
LEMMA SaveFrame ==
  ASSUME TypeInv, NEW f \in Friends, NEW p, NEW s, NEW e
  PROVE  /\ Remembered(f, s, e).ratchet = ks.ratchet
         /\ friends' = [friends EXCEPT ![f] = Row(f, p, s, e)] =>
              \A g \in Friends : friends'[g].blob = friends[g].blob
BY DEF Remembered, Row, KeyStoreObject, TypeInv, TypeOK

(* A worker that is busy belongs to a session. *)
LEMMA Running ==
  ASSUME ClosedIsIdle, NEW w \in Workers, jobs[w] # NoJob
  PROVE  session # "closed"
BY DEF ClosedIsIdle

(* The ratchet storage key is replaced only together with every session    *)
(* encrypted with it.                                                      *)
LEMMA BlobStep == BlobInv /\ [Next]_vars => BlobInv'
<1> SUFFICES ASSUME TypeInv, ClosedIsIdle, BeforeFirstRun, OneRatchetKey, [Next]_vars
             PROVE  ClosedIsIdle' /\ BeforeFirstRun' /\ OneRatchetKey'
  BY TypeStep DEF BlobInv
<1>1. CASE Lock
  BY <1>1 DEF Lock, Wiped, EmptyKs, ClosedIsIdle, BeforeFirstRun, OneRatchetKey
<1>2. CASE Close
  BY <1>2 DEF Close, EmptyKs, ClosedIsIdle, BeforeFirstRun, OneRatchetKey
<1>3. CASE ShowTotpSetup
  <2>1. \A s \in {"private_key", "ratchet_storage_key", "duress_verifier"} :
          settings'[s] = settings[s]
    BY <1>3 DEF ShowTotpSetup, TypeInv, TypeOK, Slots
  <2> QED BY <1>3, <2>1 DEF ShowTotpSetup, ClosedIsIdle, BeforeFirstRun, OneRatchetKey
<1>4. ASSUME NEW p \in Passwords, FirstRun(p)
     PROVE ClosedIsIdle' /\ BeforeFirstRun' /\ OneRatchetKey'
  <2>1. settings'["private_key"] = Seal(p, New) /\ settings'["ratchet_storage_key"] = Seal(p, New)
    BY <1>4 DEF FirstRun, Slots
  <2>2. Stored(settings'["private_key"]) /\ settings'["ratchet_storage_key"].val = New
    BY <2>1, SealKey, NewType DEF Stored, TypeInv
  <2>3. ks'.ratchet = New /\ storageKey' = New /\ session' = "setup" BY <1>4 DEF FirstRun, EmptyKs
  <2>4. \A f \in Friends : friends'[f].blob = 0 BY <1>4 DEF FirstRun, BeforeFirstRun, NoFriend
  <2> QED BY <2>2, <2>3, <2>4 DEF ClosedIsIdle, BeforeFirstRun, OneRatchetKey
<1>5. ASSUME NEW p \in Passwords, Login(p)
     PROVE ClosedIsIdle' /\ BeforeFirstRun' /\ OneRatchetKey'
  <2>1. \A s \in {"private_key", "ratchet_storage_key", "duress_verifier"} :
          settings'[s] = settings[s]
    BY <1>5 DEF Login, InitTotp, TypeInv, TypeOK, Slots
  <2>2. ks'.ratchet = settings["ratchet_storage_key"].val BY <1>5 DEF Login, Loaded
  <2>3. session' # "closed" BY <1>5 DEF Login, Entered
  <2> QED BY <1>5, <2>1, <2>2, <2>3 DEF Login, ClosedIsIdle, BeforeFirstRun, OneRatchetKey
<1>6. ASSUME NEW p \in Passwords, LoginDecoy(p)
     PROVE ClosedIsIdle' /\ BeforeFirstRun' /\ OneRatchetKey'
  <2>1. \A s \in {"private_key", "ratchet_storage_key", "duress_verifier"} :
          settings'[s] = settings[s]
    BY <1>6 DEF LoginDecoy, TypeInv, TypeOK, Slots
  <2>2. ks'.ratchet = 0 /\ session' # "closed" BY <1>6 DEF LoginDecoy, Decoy, EmptyKs, Entered
  <2>3. Stored(settings["private_key"])
    BY <1>6, KeyStoreConstants DEF LoginDecoy, IsDuress, BeforeFirstRun, Absent
  <2> QED BY <1>6, <2>1, <2>2, <2>3 DEF LoginDecoy, ClosedIsIdle, BeforeFirstRun, OneRatchetKey
<1>7. ASSUME NEW p \in Passwords, Unlock(p)
     PROVE ClosedIsIdle' /\ BeforeFirstRun' /\ OneRatchetKey'
  <2>1. ks'.ratchet = settings["ratchet_storage_key"].val BY <1>7 DEF Unlock, Loaded
  <2> QED BY <1>7, <2>1 DEF Unlock, ClosedIsIdle, BeforeFirstRun, OneRatchetKey
<1>8. ASSUME NEW p \in Passwords, UnlockDecoy(p)
     PROVE ClosedIsIdle' /\ BeforeFirstRun' /\ OneRatchetKey'
  <2>1. ks'.ratchet = 0 BY <1>8 DEF UnlockDecoy, Decoy, EmptyKs
  <2> QED BY <1>8, <2>1 DEF UnlockDecoy, ClosedIsIdle, BeforeFirstRun, OneRatchetKey
<1>9. ASSUME NEW p \in Passwords, Recover(p)
     PROVE ClosedIsIdle' /\ BeforeFirstRun' /\ OneRatchetKey'
  <2>1. settings'["private_key"] = Seal(p, New) /\ settings'["ratchet_storage_key"] = Seal(p, New)
    BY <1>9 DEF Recover, Slots
  <2>2. Stored(settings'["private_key"]) /\ settings'["ratchet_storage_key"].val = New
    BY <2>1, SealKey, NewType DEF Stored, TypeInv
  <2>3. ks'.ratchet = New /\ storageKey' = New /\ session' # "closed" BY <1>9 DEF Recover, EmptyKs
  <2>4. \A f \in Friends : friends'[f].blob = 0 BY <1>9 DEF Recover, RecoveredFriend, NoFriend
  <2> QED BY <2>2, <2>3, <2>4 DEF ClosedIsIdle, BeforeFirstRun, OneRatchetKey
<1>10. ASSUME NEW p \in Passwords, DialogCancelled(p)
     PROVE ClosedIsIdle' /\ BeforeFirstRun' /\ OneRatchetKey'
  <2>1. ks'.ratchet = ks.ratchet BY <1>10 DEF DialogCancelled, KeyStoreObject, TypeInv, TypeOK
  <2> QED BY <1>10, <2>1 DEF DialogCancelled, ClosedIsIdle, BeforeFirstRun, OneRatchetKey
<1>11. ASSUME NEW p \in Passwords, UpdateGlobalSecret(p)
     PROVE ClosedIsIdle' /\ BeforeFirstRun' /\ OneRatchetKey'
  <2>1. \A s \in {"private_key", "ratchet_storage_key", "duress_verifier"} :
          settings'[s] = settings[s]
    BY <1>11 DEF UpdateGlobalSecret, TypeInv, TypeOK, Slots
  <2>2. ks'.ratchet = ks.ratchet BY <1>11 DEF UpdateGlobalSecret, KeyStoreObject, TypeInv, TypeOK
  <2> QED BY <1>11, <2>1, <2>2 DEF UpdateGlobalSecret, ClosedIsIdle, BeforeFirstRun, OneRatchetKey
<1>12. ASSUME NEW p \in Passwords, NEW q \in Passwords, ChangePassword(p, q)
     PROVE ClosedIsIdle' /\ BeforeFirstRun' /\ OneRatchetKey'
  <2>1. settings["private_key"].val \in Nat /\ settings["private_key"].val # 0
    BY <1>12, SealedFacts DEF ChangePassword, Changeable, Stored, TypeInv, TypeOK, Slots
  <2>2. settings'["private_key"] = Seal(q, settings["private_key"].val)
    BY <1>12 DEF ChangePassword, Resealed, Slots
  <2>3. Stored(settings'["private_key"]) BY <2>1, <2>2, SealKey DEF Stored
  <2>4. settings'["ratchet_storage_key"] =
          IF ks.ratchet # 0 THEN Seal(q, ks.ratchet) ELSE settings["ratchet_storage_key"]
    BY <1>12 DEF ChangePassword, Resealed, Slots
  <2>5. ks.ratchet \in Nat BY DEF TypeInv, TypeOK, KeyStoreObject
  <2>6. settings'["ratchet_storage_key"].val = settings["ratchet_storage_key"].val
    BY <2>4, <2>5, SealKey DEF OneRatchetKey
  <2>7. ks'.ratchet = ks.ratchet
    BY <1>12 DEF ChangePassword, Refresh, RefreshedKs, KeyStoreObject, TypeInv, TypeOK
  <2>8. \A f \in Friends : friends'[f].blob = friends[f].blob
    BY <1>12 DEF ChangePassword, ResealedFriend, FriendRow, TypeInv, TypeOK
  <2>9. session' = "open" /\ storageKey' = storageKey BY <1>12 DEF ChangePassword
  <2> QED BY <2>3, <2>6, <2>7, <2>8, <2>9 DEF ClosedIsIdle, BeforeFirstRun, OneRatchetKey
<1>13. ASSUME NEW p \in Passwords, NEW q \in Passwords, SetDuressPassword(p, q)
     PROVE ClosedIsIdle' /\ BeforeFirstRun' /\ OneRatchetKey'
  <2>1. \A s \in {"private_key", "ratchet_storage_key"} : settings'[s] = settings[s]
    BY <1>13 DEF SetDuressPassword, TypeInv, TypeOK, Slots
  <2>2. ks'.ratchet = ks.ratchet BY <1>13 DEF SetDuressPassword, KeyStoreObject, TypeInv, TypeOK
  <2> QED BY <1>13, <2>1, <2>2 DEF SetDuressPassword, ClosedIsIdle, BeforeFirstRun, OneRatchetKey
<1>14. ASSUME NEW f \in Friends, RemoveFriend(f)
     PROVE ClosedIsIdle' /\ BeforeFirstRun' /\ OneRatchetKey'
  <2>1. ks'.ratchet = ks.ratchet BY <1>14 DEF RemoveFriend, KeyStoreObject, TypeInv, TypeOK
  <2>2. \A g \in Friends : friends'[g].blob \in {0, friends[g].blob}
    BY <1>14 DEF RemoveFriend, NoFriend, TypeInv, TypeOK
  <2> QED BY <1>14, <2>1, <2>2 DEF RemoveFriend, ClosedIsIdle, BeforeFirstRun, OneRatchetKey
<1>15. ASSUME NEW f \in Friends, NEW p \in Passwords, AddFriend(f, p)
     PROVE ClosedIsIdle' /\ BeforeFirstRun' /\ OneRatchetKey'
  <2> PICK s, e : SaveFriend(f, p, s, e) BY <1>15 DEF AddFriend
  <2>2. ks'.ratchet = ks.ratchet /\ \A g \in Friends : friends'[g].blob = friends[g].blob
    BY SaveFrame DEF SaveFriend
  <2> QED BY <1>15, <2>2 DEF AddFriend, ClosedIsIdle, BeforeFirstRun, OneRatchetKey
<1>16. ASSUME NEW f \in Friends, NEW p \in Passwords, EditFriend(f, p)
     PROVE ClosedIsIdle' /\ BeforeFirstRun' /\ OneRatchetKey'
  <2> PICK s, e : SaveFriend(f, p, s, e) BY <1>16 DEF EditFriend
  <2>2. ks'.ratchet = ks.ratchet /\ \A g \in Friends : friends'[g].blob = friends[g].blob
    BY SaveFrame DEF SaveFriend
  <2> QED BY <1>16, <2>2 DEF EditFriend, ClosedIsIdle, BeforeFirstRun, OneRatchetKey
<1>17. ASSUME NEW w \in Workers, NEW k \in FriendJobs, NEW f \in Friends, NEW p \in Passwords,
            StartFriendJob(w, k, f, p)
     PROVE ClosedIsIdle' /\ BeforeFirstRun' /\ OneRatchetKey'
  BY <1>17 DEF StartFriendJob, memory, ClosedIsIdle, BeforeFirstRun, OneRatchetKey
<1>18. ASSUME NEW w \in Workers, NEW k \in KeyJobs, NEW p \in Passwords, StartKeyJob(w, k, p)
     PROVE ClosedIsIdle' /\ BeforeFirstRun' /\ OneRatchetKey'
  BY <1>18 DEF StartKeyJob, memory, ClosedIsIdle, BeforeFirstRun, OneRatchetKey
<1>19. ASSUME NEW w \in Workers, JobReads(w)
     PROVE ClosedIsIdle' /\ BeforeFirstRun' /\ OneRatchetKey'
  <2>1. session # "closed" BY <1>19, Running DEF JobReads, FriendJobs, NoJob
  <2>2. \A g \in Friends : friends'[g].blob \in {0, friends[g].blob, storageKey}
    BY <1>19 DEF JobReads, FriendRow, TypeInv, TypeOK
  <2> QED BY <1>19, <2>1, <2>2 DEF JobReads, memory, ClosedIsIdle, BeforeFirstRun, OneRatchetKey
<1>20. ASSUME NEW w \in Workers, JobFails(w)
     PROVE ClosedIsIdle' /\ BeforeFirstRun' /\ OneRatchetKey'
  BY <1>20, Running DEF JobFails, memory, FriendJobs, NoJob, ClosedIsIdle, BeforeFirstRun,
    OneRatchetKey
<1>21. ASSUME NEW w \in Workers, JobRefused(w)
     PROVE ClosedIsIdle' /\ BeforeFirstRun' /\ OneRatchetKey'
  <2>1. session # "closed" BY <1>21, Running DEF JobRefused, FriendJobs, NoJob
  <2>2. \A g \in Friends : friends'[g].blob \in {0, friends[g].blob, storageKey}
    BY <1>21 DEF JobRefused, FriendRow, TypeInv, TypeOK
  <2> QED BY <1>21, <2>1, <2>2 DEF JobRefused, memory, ClosedIsIdle, BeforeFirstRun, OneRatchetKey
<1>22. ASSUME NEW w \in Workers, JobSaves(w)
     PROVE ClosedIsIdle' /\ BeforeFirstRun' /\ OneRatchetKey'
  <2>1. session # "closed" BY <1>22, Running DEF JobSaves, NoJob
  <2>2. ks'.ratchet = ks.ratchet /\ \A g \in Friends : friends'[g].blob = friends[g].blob
    BY <1>22, SaveFrame DEF JobSaves, FriendJobs, TypeInv, JobShape
  <2> QED BY <1>22, <2>1, <2>2 DEF JobSaves, ClosedIsIdle, BeforeFirstRun, OneRatchetKey
<1>23. ASSUME NEW w \in Workers, GenerateKeys(w)
     PROVE ClosedIsIdle' /\ BeforeFirstRun' /\ OneRatchetKey'
  <2>1. session # "closed" BY <1>23, Running DEF GenerateKeys, NoJob
  <2>2. \A s \in {"private_key", "ratchet_storage_key", "duress_verifier"} :
          settings'[s] = settings[s]
    BY <1>23 DEF GenerateKeys, TypeInv, TypeOK, Slots
  <2>3. ks'.ratchet = ks.ratchet BY <1>23 DEF GenerateKeys, KeyStoreObject, TypeInv, TypeOK
  <2> QED BY <1>23, <2>1, <2>2, <2>3 DEF GenerateKeys, ClosedIsIdle, BeforeFirstRun, OneRatchetKey
<1>24. ASSUME NEW f \in Friends, NEW p \in Passwords, DelegatedSave(f, p)
     PROVE ClosedIsIdle' /\ BeforeFirstRun' /\ OneRatchetKey'
  <2> PICK s, e : SaveFriend(f, p, s, e) BY <1>24 DEF DelegatedSave
  <2>2. ks'.ratchet = ks.ratchet /\ \A g \in Friends : friends'[g].blob = friends[g].blob
    BY SaveFrame DEF SaveFriend
  <2> QED BY <1>24, <2>2 DEF DelegatedSave, ClosedIsIdle, BeforeFirstRun, OneRatchetKey
<1>25. CASE UNCHANGED vars
  BY <1>25 DEF vars, ClosedIsIdle, BeforeFirstRun, OneRatchetKey
<1> QED BY <1>1, <1>2, <1>3, <1>4, <1>5, <1>6, <1>7, <1>8, <1>9, <1>10, <1>11, <1>12, <1>13,
  <1>14, <1>15, <1>16, <1>17, <1>18, <1>19, <1>20, <1>21, <1>22, <1>23, <1>24, <1>25
  DEF Next, Screens, Editing, Working

(* While nobody was overtaken: a job runs in an open session, with the     *)
(* current password and KeyStore, and remembers the secret that is still   *)
(* in the KeyStore;                                                        *)
JobsCurrent ==
  \A w \in Workers : jobs[w] # NoJob =>
    /\ session = "open" /\ jobs[w].pw = Master /\ ~ jobs[w].gone
    /\ jobs[w].read /\ jobs[w].kind = "ratchet" => jobs[w].secret = ks.secret[jobs[w].friend]

(* the secrets of a friend are sealed with the master password, and an     *)
(* ECDH key comes with a shared secret, in the table and in memory;        *)
FriendsOpen ==
  \A f \in Friends :
    /\ Stored(friends[f].secret) => friends[f].secret.key = Master
    /\ Stored(friends[f].ecdh) => friends[f].ecdh.key = Master
EcdhPaired ==
  \A f \in Friends :
    /\ Stored(friends[f].ecdh) => Stored(friends[f].secret)
    /\ ks.ecdh[f] # 0 => ks.secret[f] # 0

(* and the friends in memory are those of the table.                       *)
FriendsRemembered ==
  session \in {"setup", "open"} => \A f \in ks.names :
    /\ friends[f].listed
    /\ ks.secret[f] = friends[f].secret.val /\ ks.ecdh[f] = friends[f].ecdh.val

Undisturbed == JobsCurrent /\ FriendsOpen /\ EcdhPaired /\ FriendsRemembered
FriendInv == BlobInv /\ (~ overlap => Undisturbed)

(* load() puts into memory what is stored. *)
LEMMA LoadedFriends ==
  ASSUME EcdhPaired
  PROVE  /\ \A f \in Friends : Loaded.ecdh[f] # 0 => Loaded.secret[f] # 0
         /\ \A f \in Loaded.names :
              /\ friends[f].listed
              /\ Loaded.secret[f] = friends[f].secret.val /\ Loaded.ecdh[f] = friends[f].ecdh.val
BY DEF Loaded, EcdhPaired, Stored

(* save_friend, called with the master password, in an open session, and   *)
(* while no other job has read the friend.                                 *)
LEMMA SavedUndisturbed ==
  ASSUME TypeInv, Undisturbed, session = "open", UNCHANGED <<settings, session>>,
         NEW f \in Friends, NEW p \in Passwords, p = Master,
         NEW s \in Nat, NEW e \in Nat, e # 0 => s # 0,
         friends' = [friends EXCEPT ![f] = Row(f, p, s, e)], ks' = Remembered(f, s, e),
         \A v \in Workers : \/ jobs'[v] = NoJob
                            \/ jobs'[v] = jobs[v] /\ ~ (jobs[v].friend = f /\ jobs[v].read)
  PROVE  Undisturbed'
<1>1. /\ ks'.names = ks.names \cup {f} /\ ks'.secret = [ks.secret EXCEPT ![f] = s]
      /\ ks'.ecdh = [ks.ecdh EXCEPT ![f] = e]
  BY DEF Remembered, KeyStoreObject, TypeInv, TypeOK
<1>2. /\ friends'[f].listed /\ friends'[f].secret = Seal(p, s) /\ friends'[f].ecdh = Seal(p, e)
      /\ \A g \in Friends \ {f} : friends'[g] = friends[g]
  BY DEF Row, TypeInv, TypeOK
<1>3. /\ Seal(p, s).val = s /\ (s # 0 => Seal(p, s).key = p)
      /\ Seal(p, e).val = e /\ (e # 0 => Seal(p, e).key = p)
  BY SealFacts DEF Keys
<1>4. ks.secret \in [Friends -> Nat] /\ ks.ecdh \in [Friends -> Nat] /\ ks.names \subseteq Friends
  BY DEF KeyStoreObject, TypeInv, TypeOK
<1>5. Master' = Master BY DEF Master
<1>6. JobsCurrent'
  BY <1>1, <1>4, <1>5 DEF FriendJobs, TypeInv, JobShape, Undisturbed, JobsCurrent
<1>7. FriendsOpen' BY <1>2, <1>3, <1>5 DEF Stored, Undisturbed, FriendsOpen
<1>8. EcdhPaired' BY <1>1, <1>2, <1>3, <1>4 DEF Stored, Undisturbed, EcdhPaired
<1>9. FriendsRemembered' BY <1>1, <1>2, <1>3, <1>4 DEF Undisturbed, FriendsRemembered
<1> QED BY <1>6, <1>7, <1>8, <1>9 DEF Undisturbed

(* Whether a job was overtaken is not forgotten. *)
LEMMA OverlapStays == TypeInv /\ [Next]_vars /\ ~ overlap' => ~ overlap
<1> SUFFICES ASSUME [Next]_vars, overlap PROVE overlap'
  BY DEF TypeInv, TypeOK
<1>1. CASE Screens
  <2>1. CASE Lock \/ Close \/ ShowTotpSetup
    BY <2>1 DEF Lock, Close, ShowTotpSetup
  <2>2. ASSUME NEW p \in Passwords,
               FirstRun(p) \/ Login(p) \/ LoginDecoy(p) \/ Unlock(p) \/ UnlockDecoy(p) \/ Recover(p)
        PROVE  overlap'
    BY <2>2 DEF FirstRun, Login, LoginDecoy, Unlock, UnlockDecoy, Recover
  <2>3. ASSUME NEW p \in Passwords, DialogCancelled(p) \/ UpdateGlobalSecret(p) PROVE overlap'
    BY <2>3 DEF DialogCancelled, UpdateGlobalSecret
  <2>4. ASSUME NEW p \in Passwords, NEW q \in Passwords,
               ChangePassword(p, q) \/ SetDuressPassword(p, q)
        PROVE  overlap'
    BY <2>4 DEF ChangePassword, SetDuressPassword
  <2> QED BY <1>1, <2>1, <2>2, <2>3, <2>4 DEF Screens
<1>2. CASE Editing
  BY <1>2 DEF Editing, RemoveFriend, AddFriend, EditFriend, DelegatedSave
<1>3. CASE Working
  BY <1>3 DEF Working, StartFriendJob, StartKeyJob, JobReads, JobFails, JobRefused, JobSaves,
    GenerateKeys
<1> QED BY <1>1, <1>2, <1>3 DEF Next, vars

(* As long as no job is overtaken, the rows of friends, the KeyStore and   *)
(* the running jobs stay in step.                                          *)
LEMMA FriendStep == FriendInv /\ [Next]_vars => FriendInv'
<1> SUFFICES ASSUME TypeInv, ClosedIsIdle, BeforeFirstRun, Undisturbed, [Next]_vars, ~ overlap'
             PROVE  Undisturbed'
  BY TypeStep, BlobStep, OverlapStays DEF FriendInv, BlobInv
<1>1. CASE Lock
  <2>1. \A w \in Workers : jobs[w] = NoJob BY <1>1 DEF Lock, Overtaken
  <2>2. ks'.ecdh = Nothing BY <1>1 DEF Lock, Wiped, EmptyKs
  <2> QED BY <1>1, <2>1, <2>2 DEF Lock, Master, Nothing, Undisturbed, JobsCurrent, FriendsOpen,
    EcdhPaired, FriendsRemembered
<1>2. CASE Close
  <2>1. ks'.ecdh = Nothing BY <1>2 DEF Close, EmptyKs
  <2> QED BY <1>2, <2>1 DEF Close, Master, Nothing, Undisturbed, JobsCurrent, FriendsOpen,
    EcdhPaired, FriendsRemembered
<1>3. CASE ShowTotpSetup
  <2>1. Master' = Master BY <1>3 DEF ShowTotpSetup, Master, TypeInv, TypeOK, Slots
  <2> QED BY <1>3, <2>1 DEF ShowTotpSetup, Undisturbed, JobsCurrent, FriendsOpen, EcdhPaired,
    FriendsRemembered
<1>4. ASSUME NEW p \in Passwords, FirstRun(p) PROVE Undisturbed'
  <2>1. \A w \in Workers : jobs[w] = NoJob BY <1>4 DEF FirstRun, ClosedIsIdle
  <2>2. ks'.names = {} /\ ks'.secret = Nothing /\ ks'.ecdh = Nothing BY <1>4 DEF FirstRun, EmptyKs
  <2>3. \A f \in Friends : ~ Stored(friends[f].secret) /\ ~ Stored(friends[f].ecdh)
    BY <1>4 DEF FirstRun, BeforeFirstRun, NoFriend, Absent, Stored
  <2> QED BY <1>4, <2>1, <2>2, <2>3 DEF FirstRun, Nothing, Undisturbed, JobsCurrent,
    FriendsOpen, EcdhPaired, FriendsRemembered
<1>5. ASSUME NEW p \in Passwords, Login(p) PROVE Undisturbed'
  <2>1. Master' = Master BY <1>5 DEF Login, InitTotp, Master, TypeInv, TypeOK, Slots
  <2>2. \A w \in Workers : jobs[w] = NoJob BY <1>5 DEF Login, ClosedIsIdle
  <2> QED BY <1>5, <2>1, <2>2, LoadedFriends DEF Login, Undisturbed, JobsCurrent, FriendsOpen,
    EcdhPaired, FriendsRemembered
<1>6. ASSUME NEW p \in Passwords, LoginDecoy(p) PROVE Undisturbed'
  <2>1. Master' = Master BY <1>6 DEF LoginDecoy, Master, TypeInv, TypeOK, Slots
  <2>2. \A w \in Workers : jobs[w] = NoJob BY <1>6 DEF LoginDecoy, ClosedIsIdle
  <2>3. ks'.names = {} /\ ks'.secret = Nothing /\ ks'.ecdh = Nothing
    BY <1>6 DEF LoginDecoy, Decoy, EmptyKs
  <2> QED BY <1>6, <2>1, <2>2, <2>3 DEF LoginDecoy, Nothing, Undisturbed, JobsCurrent,
    FriendsOpen, EcdhPaired, FriendsRemembered
<1>7. ASSUME NEW p \in Passwords, Unlock(p) PROVE Undisturbed'
  <2>1. \A w \in Workers : jobs'[w] = NoJob
    BY <1>7 DEF Unlock, Abandoned, Undisturbed, JobsCurrent
  <2> QED BY <1>7, <2>1, LoadedFriends DEF Unlock, Master, Undisturbed, JobsCurrent,
    FriendsOpen, EcdhPaired, FriendsRemembered
<1>8. ASSUME NEW p \in Passwords, UnlockDecoy(p) PROVE Undisturbed'
  <2>1. \A w \in Workers : jobs'[w] = NoJob
    BY <1>8 DEF UnlockDecoy, Abandoned, Undisturbed, JobsCurrent
  <2>2. ks'.names = {} /\ ks'.secret = Nothing /\ ks'.ecdh = Nothing
    BY <1>8 DEF UnlockDecoy, Decoy, EmptyKs
  <2> QED BY <1>8, <2>1, <2>2 DEF UnlockDecoy, Master, Nothing, Undisturbed, JobsCurrent,
    FriendsOpen, EcdhPaired, FriendsRemembered
<1>9. ASSUME NEW p \in Passwords, Recover(p) PROVE Undisturbed'
  <2>1. \A w \in Workers : jobs'[w] = NoJob BY <1>9 DEF Recover, Abandoned, Overtaken
  <2>2. ks'.names = {} /\ ks'.secret = Nothing /\ ks'.ecdh = Nothing BY <1>9 DEF Recover, EmptyKs
  <2>3. \A f \in Friends : ~ Stored(friends'[f].secret) /\ ~ Stored(friends'[f].ecdh)
    BY <1>9 DEF Recover, RecoveredFriend, NoFriend, Absent, Stored
  <2> QED BY <2>1, <2>2, <2>3 DEF Nothing, Undisturbed, JobsCurrent, FriendsOpen, EcdhPaired,
    FriendsRemembered
<1>10. ASSUME NEW p \in Passwords, DialogCancelled(p) PROVE Undisturbed'
  <2>1. ks'.names = ks.names /\ ks'.secret = ks.secret /\ ks'.ecdh = ks.ecdh
    BY <1>10 DEF DialogCancelled, KeyStoreObject, TypeInv, TypeOK
  <2> QED BY <1>10, <2>1 DEF DialogCancelled, Master, Undisturbed, JobsCurrent, FriendsOpen,
    EcdhPaired, FriendsRemembered
<1>11. ASSUME NEW p \in Passwords, UpdateGlobalSecret(p) PROVE Undisturbed'
  <2>1. Master' = Master
    BY <1>11, SealKey, NewType DEF UpdateGlobalSecret, IsMaster, Master, TypeInv, TypeOK, Slots
  <2>2. ks'.names = ks.names /\ ks'.secret = ks.secret /\ ks'.ecdh = ks.ecdh
    BY <1>11 DEF UpdateGlobalSecret, KeyStoreObject, TypeInv, TypeOK
  <2> QED BY <1>11, <2>1, <2>2 DEF UpdateGlobalSecret, Undisturbed, JobsCurrent, FriendsOpen,
    EcdhPaired, FriendsRemembered
<1>12. ASSUME NEW p \in Passwords, NEW q \in Passwords, ChangePassword(p, q) PROVE Undisturbed'
  <2>1. \A w \in Workers : jobs'[w] = NoJob BY <1>12 DEF ChangePassword, Overtaken
  <2>2. Master' = q
    BY <1>12, MasterStored, SealKey DEF ChangePassword, Resealed, Master, Slots
  <2>3. \A f \in Friends : friends[f].secret \in Sealed /\ friends[f].ecdh \in Sealed
    BY DEF TypeInv, TypeOK, FriendRow
  <2>4. \A f \in Friends :
          /\ friends'[f].secret = IF Stored(friends[f].secret) THEN Seal(q, friends[f].secret.val)
                                 ELSE friends[f].secret
          /\ friends'[f].ecdh = IF Stored(friends[f].secret) THEN Seal(q, friends[f].ecdh.val)
                               ELSE friends[f].ecdh
          /\ friends'[f].listed = friends[f].listed
    BY <1>12 DEF ChangePassword, ResealedFriend, FriendRow, TypeInv, TypeOK
  <2>5. \A f \in Friends : friends'[f].secret.val = friends[f].secret.val
                         /\ friends'[f].ecdh.val = friends[f].ecdh.val
    BY <2>3, <2>4, SealFacts, SealedFacts DEF Keys
  <2>6. FriendsOpen'
    BY <2>2, <2>3, <2>4, <2>5, SealKey, SealedFacts DEF Stored, Undisturbed, FriendsOpen,
      EcdhPaired
  <2>7. /\ ks'.names = ks.names /\ ks'.ecdh = ks.ecdh
        /\ \A f \in Friends : ks'.secret[f] = IF f \in ks.names /\ Stored(friends[f].secret)
                                             THEN friends[f].secret.val ELSE ks.secret[f]
    BY <1>12 DEF ChangePassword, Refresh, RefreshedKs, KeyStoreObject, TypeInv, TypeOK
  <2>8. EcdhPaired' BY <2>5, <2>7 DEF Stored, Undisturbed, EcdhPaired
  <2>9. ks.names \subseteq Friends BY DEF TypeInv, TypeOK, KeyStoreObject
  <2>10. FriendsRemembered'
    BY <1>12, <2>4, <2>5, <2>7, <2>9 DEF ChangePassword, Undisturbed, FriendsRemembered
  <2> QED BY <2>1, <2>6, <2>8, <2>10 DEF Undisturbed, JobsCurrent
<1>13. ASSUME NEW p \in Passwords, NEW q \in Passwords, SetDuressPassword(p, q) PROVE Undisturbed'
  <2>1. Master' = Master BY <1>13 DEF SetDuressPassword, Master, TypeInv, TypeOK, Slots
  <2>2. ks'.names = ks.names /\ ks'.secret = ks.secret /\ ks'.ecdh = ks.ecdh
    BY <1>13 DEF SetDuressPassword, KeyStoreObject, TypeInv, TypeOK
  <2> QED BY <1>13, <2>1, <2>2 DEF SetDuressPassword, Undisturbed, JobsCurrent, FriendsOpen,
    EcdhPaired, FriendsRemembered
<1>14. ASSUME NEW f \in Friends, RemoveFriend(f) PROVE Undisturbed'
  <2>1. /\ ks'.names = ks.names \ {f}
        /\ ks'.secret = [ks.secret EXCEPT ![f] = 0] /\ ks'.ecdh = [ks.ecdh EXCEPT ![f] = 0]
    BY <1>14 DEF RemoveFriend, KeyStoreObject, TypeInv, TypeOK
  <2>2. ~ OvertakenAt(f, Workers) /\ friends' = [friends EXCEPT ![f] = NoFriend]
    BY <1>14 DEF RemoveFriend
  <2>3. JobsCurrent'
    BY <1>14, <2>1, <2>2 DEF RemoveFriend, OvertakenAt, Master, FriendJobs, TypeInv, TypeOK,
      JobShape, KeyStoreObject, Undisturbed, JobsCurrent
  <2>4. FriendsOpen' /\ EcdhPaired'
    BY <1>14, <2>1, <2>2 DEF RemoveFriend, NoFriend, Absent, Stored, Master, TypeInv, TypeOK,
      KeyStoreObject, Undisturbed, FriendsOpen, EcdhPaired
  <2>5. FriendsRemembered'
    BY <1>14, <2>1, <2>2 DEF RemoveFriend, TypeInv, TypeOK, KeyStoreObject, Undisturbed,
      FriendsRemembered
  <2> QED BY <2>3, <2>4, <2>5 DEF Undisturbed
<1>15. ASSUME NEW f \in Friends, NEW p \in Passwords, AddFriend(f, p) PROVE Undisturbed'
  <2>1. /\ session = "open" /\ p = Master /\ UNCHANGED <<settings, session>>
        /\ \A v \in Workers : jobs'[v] = jobs[v] /\ ~ (jobs[v].friend = f /\ jobs[v].read)
    BY <1>15 DEF AddFriend, IsMaster, OvertakenAt
  <2>2. PICK s \in Nat, e \in Nat : SaveFriend(f, p, s, e) /\ (e # 0 => s # 0)
    BY <1>15, NewType DEF AddFriend, TypeInv
  <2> QED BY <2>1, <2>2, SavedUndisturbed DEF SaveFriend
<1>16. ASSUME NEW f \in Friends, NEW p \in Passwords, EditFriend(f, p) PROVE Undisturbed'
  <2>1. /\ session = "open" /\ p = Master /\ UNCHANGED <<settings, session>>
        /\ \A v \in Workers : jobs'[v] = jobs[v] /\ ~ (jobs[v].friend = f /\ jobs[v].read)
    BY <1>16 DEF EditFriend, IsMaster, OvertakenAt
  <2>2. ks.secret[f] \in Nat /\ ks.ecdh[f] \in Nat /\ 0 \in Nat
    BY DEF TypeInv, TypeOK, KeyStoreObject
  <2>3. PICK s \in Nat, e \in Nat : SaveFriend(f, p, s, e) /\ (e # 0 => s # 0)
    <3>1. CASE (ks.ecdh[f] # 0 => ks.secret[f] # 0) /\ SaveFriend(f, p, ks.secret[f], ks.ecdh[f])
      BY <2>2, <3>1
    <3>2. CASE SaveFriend(f, p, New, ks.ecdh[f])
      BY <2>2, <3>2, NewType DEF TypeInv
    <3>3. CASE SaveFriend(f, p, ks.secret[f], 0)
      BY <2>2, <3>3
    <3> QED BY <1>16, <3>1, <3>2, <3>3 DEF EditFriend
  <2> QED BY <2>1, <2>3, SavedUndisturbed DEF SaveFriend
<1>17. ASSUME NEW w \in Workers, NEW k \in FriendJobs, NEW f \in Friends, NEW p \in Passwords,
            StartFriendJob(w, k, f, p)
     PROVE Undisturbed'
  <2>1. session = "open" /\ p = Master BY <1>17 DEF StartFriendJob, IsMaster
  <2>2. /\ jobs'[w].pw = p /\ ~ jobs'[w].gone /\ ~ jobs'[w].read
        /\ \A v \in Workers \ {w} : jobs'[v] = jobs[v]
    BY <1>17 DEF StartFriendJob, NoJob, TypeInv, TypeOK
  <2> QED BY <1>17, <2>1, <2>2 DEF StartFriendJob, memory, Master, Undisturbed, JobsCurrent,
    FriendsOpen, EcdhPaired, FriendsRemembered
<1>18. ASSUME NEW w \in Workers, NEW k \in KeyJobs, NEW p \in Passwords, StartKeyJob(w, k, p)
     PROVE Undisturbed'
  <2>1. session = "open" /\ p = Master BY <1>18 DEF StartKeyJob, IsMaster
  <2>2. /\ jobs'[w].pw = p /\ ~ jobs'[w].gone /\ ~ jobs'[w].read
        /\ \A v \in Workers \ {w} : jobs'[v] = jobs[v]
    BY <1>18 DEF StartKeyJob, NoJob, TypeInv, TypeOK
  <2> QED BY <1>18, <2>1, <2>2 DEF StartKeyJob, memory, Master, Undisturbed, JobsCurrent,
    FriendsOpen, EcdhPaired, FriendsRemembered
<1>19. ASSUME NEW w \in Workers, JobReads(w) PROVE Undisturbed'
  <2>1. /\ jobs[w] # NoJob /\ jobs[w].friend \in Friends /\ ~ jobs[w].gone
        /\ jobs[w] \in Job
    BY <1>19 DEF JobReads, NoJob, FriendJobs, TypeInv, TypeOK, JobShape, Undisturbed, JobsCurrent
  <2>2. \A f \in Friends : /\ friends'[f].listed = friends[f].listed
                          /\ friends'[f].secret = friends[f].secret
                          /\ friends'[f].ecdh = friends[f].ecdh
    BY <1>19, <2>1 DEF JobReads, FriendRow, TypeInv, TypeOK
  <2>3. \E s : Reads(w, s) /\ (jobs[w].kind = "ratchet" => s = ks.secret[jobs[w].friend])
    BY <1>19, <2>1 DEF JobReads, SecretSeen
  <2>4. PICK s : Reads(w, s) /\ (jobs[w].kind = "ratchet" => s = ks.secret[jobs[w].friend])
    BY <2>3
  <2>5. jobs' = [jobs EXCEPT ![w] = [jobs[w] EXCEPT !.read = TRUE, !.secret = s]]
    BY <2>4 DEF Reads, TypeInv, TypeOK
  <2>6. /\ \A v \in Workers \ {w} : jobs'[v] = jobs[v]
        /\ jobs'[w].pw = jobs[w].pw /\ jobs'[w].gone = jobs[w].gone /\ jobs'[w].secret = s
        /\ jobs'[w].kind = jobs[w].kind /\ jobs'[w].friend = jobs[w].friend
    BY <2>1, <2>5 DEF Job, TypeInv, TypeOK
  <2>7. UNCHANGED <<settings, session, ks>> BY <1>19 DEF JobReads, memory
  <2>8. JobsCurrent' BY <2>1, <2>4, <2>6, <2>7 DEF Master, Undisturbed, JobsCurrent
  <2>9. ks.names \subseteq Friends BY DEF TypeInv, TypeOK, KeyStoreObject
  <2> QED BY <2>2, <2>7, <2>8, <2>9 DEF Master, Undisturbed, FriendsOpen, EcdhPaired,
    FriendsRemembered
<1>20. ASSUME NEW w \in Workers, JobFails(w) PROVE Undisturbed'
  <2>1. \A v \in Workers : jobs'[v] = jobs[v] \/ jobs'[v] = NoJob
    BY <1>20 DEF JobFails, TypeInv, TypeOK
  <2> QED BY <1>20, <2>1 DEF JobFails, memory, Master, Undisturbed, JobsCurrent, FriendsOpen,
    EcdhPaired, FriendsRemembered
<1>21. ASSUME NEW w \in Workers, JobRefused(w) PROVE Undisturbed'
  BY <1>21 DEF JobRefused, IsMaster, NoJob, Undisturbed, JobsCurrent
<1>22. ASSUME NEW w \in Workers, JobSaves(w) PROVE Undisturbed'
  <2>1. /\ jobs[w] # NoJob /\ jobs[w].friend \in Friends /\ jobs[w].secret \in Nat
        /\ jobs[w].kind \in FriendJobs
    BY <1>22 DEF JobSaves, NoJob, FriendJobs, Job, TypeInv, TypeOK, JobShape
  <2>2. session = "open" /\ jobs[w].pw = Master /\ ~ jobs[w].gone /\ jobs[w].pw \in Passwords
    BY <1>22, <2>1 DEF FriendJobs, TypeInv, JobShape, Undisturbed, JobsCurrent
  <2> DEFINE f == jobs[w].friend  e == JobEcdh(w)
  <2>3. e \in Nat /\ (e # 0 => jobs[w].secret # 0)
    BY <1>22, <2>1, <2>2 DEF JobSaves, JobEcdh, EcdhSeen, FriendJobs, TypeInv, TypeOK,
      KeyStoreObject, Undisturbed, JobsCurrent, EcdhPaired
  <2>4. SaveFriend(f, jobs[w].pw, jobs[w].secret, e) /\ UNCHANGED <<settings, session>>
    BY <1>22, <2>2 DEF JobSaves, SaveFriend
  <2>5. ~ OvertakenAt(f, Workers \ {w}) /\ jobs' = [jobs EXCEPT ![w] = NoJob]
    BY <1>22 DEF JobSaves
  <2>6. \A v \in Workers : \/ jobs'[v] = NoJob
                           \/ jobs'[v] = jobs[v] /\ ~ (jobs[v].friend = f /\ jobs[v].read)
    BY <2>5 DEF OvertakenAt, TypeInv, TypeOK
  <2>7. f \in Friends BY <2>1
  <2> HIDE DEF f, e
  <2>8. /\ friends' = [friends EXCEPT ![f] = Row(f, jobs[w].pw, jobs[w].secret, e)]
        /\ ks' = Remembered(f, jobs[w].secret, e)
    BY <2>4 DEF SaveFriend
  <2> QED BY <2>1, <2>2, <2>3, <2>4, <2>6, <2>7, <2>8, SavedUndisturbed
<1>23. ASSUME NEW w \in Workers, GenerateKeys(w) PROVE Undisturbed'
  <2>1. Master' = Master BY <1>23 DEF GenerateKeys, Master, TypeInv, TypeOK, Slots
  <2>2. ks'.names = ks.names /\ ks'.secret = ks.secret /\ ks'.ecdh = ks.ecdh
    BY <1>23 DEF GenerateKeys, KeyStoreObject, TypeInv, TypeOK
  <2>3. \A v \in Workers : jobs'[v] = jobs[v] \/ jobs'[v] = NoJob
    BY <1>23 DEF GenerateKeys, TypeInv, TypeOK
  <2> QED BY <1>23, <2>1, <2>2, <2>3 DEF GenerateKeys, Undisturbed, JobsCurrent, FriendsOpen,
    EcdhPaired, FriendsRemembered
<1>24. ASSUME NEW f \in Friends, NEW p \in Passwords, DelegatedSave(f, p) PROVE Undisturbed'
  <2>1. /\ session = "open" /\ p = Master /\ UNCHANGED <<settings, session>>
        /\ \A v \in Workers : jobs'[v] = jobs[v] /\ ~ (jobs[v].friend = f /\ jobs[v].read)
    BY <1>24 DEF DelegatedSave, IsMaster, OvertakenAt
  <2>2. ks.secret[f] \in Nat /\ 0 \in Nat BY DEF TypeInv, TypeOK, KeyStoreObject
  <2>3. PICK s \in Nat, e \in Nat : SaveFriend(f, p, s, e) /\ (e # 0 => s # 0)
    BY <1>24, <2>2 DEF DelegatedSave
  <2> QED BY <2>1, <2>3, SavedUndisturbed DEF SaveFriend
<1>25. CASE UNCHANGED vars
  BY <1>25 DEF vars, Master, Undisturbed, JobsCurrent, FriendsOpen, EcdhPaired, FriendsRemembered
<1> QED BY <1>1, <1>2, <1>3, <1>4, <1>5, <1>6, <1>7, <1>8, <1>9, <1>10, <1>11, <1>12, <1>13,
  <1>14, <1>15, <1>16, <1>17, <1>18, <1>19, <1>20, <1>21, <1>22, <1>23, <1>24, <1>25
  DEF Next, Screens, Editing, Working

(* The decoy's private key is another than the user's, so a KeyStore that  *)
(* holds the user's private key holds the stored global secret.            *)
SecretsBounded == settings["private_key"].val <= fresh
DecoyDiffers ==
  Stored(settings["private_key"]) => settings["duress_verifier"].val # settings["private_key"].val
OwnSecrets ==
  session \in {"setup", "open"} /\ ks.private = settings["private_key"].val
    => ks.global = settings["global_secret"].val
IdentityInv == BlobInv /\ SecretsBounded /\ DecoyDiffers /\ OwnSecrets

(* The secrets in memory are the stored ones or those of a decoy. *)
LEMMA IdentityStep == IdentityInv /\ [Next]_vars => IdentityInv'
<1> SUFFICES ASSUME TypeInv, BeforeFirstRun, SecretsBounded, DecoyDiffers, OwnSecrets, [Next]_vars
             PROVE  SecretsBounded' /\ DecoyDiffers' /\ OwnSecrets'
  BY BlobStep DEF IdentityInv, BlobInv
<1>0. settings["private_key"].val \in Nat /\ fresh \in Nat /\ fresh' \in Nat
  BY TypeStep, SealedFacts DEF TypeInv, TypeOK, Slots
<1>1. CASE Lock
  BY <1>1 DEF Lock, SecretsBounded, DecoyDiffers, OwnSecrets
<1>2. CASE Close
  BY <1>2 DEF Close, SecretsBounded, DecoyDiffers, OwnSecrets
<1>3. CASE ShowTotpSetup
  <2>1. \A s \in {"private_key", "global_secret", "duress_verifier"} : settings'[s] = settings[s]
    BY <1>3 DEF ShowTotpSetup, TypeInv, TypeOK, Slots
  <2>2. fresh' >= fresh BY <1>3 DEF ShowTotpSetup, Generate, TypeInv, TypeOK
  <2> QED BY <1>3, <1>0, <2>1, <2>2 DEF ShowTotpSetup, SecretsBounded, DecoyDiffers, OwnSecrets
<1>4. ASSUME NEW p \in Passwords, FirstRun(p)
     PROVE SecretsBounded' /\ DecoyDiffers' /\ OwnSecrets'
  <2>1. /\ settings'["private_key"] = Seal(p, New) /\ settings'["global_secret"] = Seal(p, New)
        /\ settings'["duress_verifier"] = Absent
    BY <1>4 DEF FirstRun, Slots
  <2>2. ks'.private = New /\ ks'.global = New /\ fresh' = New
    BY <1>4 DEF FirstRun, EmptyKs, Generate, New
  <2> QED BY <2>1, <2>2, SealKey, NewType DEF Absent, TypeInv, TypeOK, SecretsBounded,
    DecoyDiffers, OwnSecrets
<1>5. ASSUME NEW p \in Passwords, Login(p) PROVE SecretsBounded' /\ DecoyDiffers' /\ OwnSecrets'
  <2>1. \A s \in {"private_key", "global_secret", "duress_verifier"} : settings'[s] = settings[s]
    BY <1>5 DEF Login, InitTotp, TypeInv, TypeOK, Slots
  <2>2. fresh' >= fresh BY <1>5 DEF Login, InitTotp, Generate, TypeInv, TypeOK
  <2>3. ks'.private = settings["private_key"].val /\ ks'.global = settings["global_secret"].val
    BY <1>5 DEF Login, Loaded
  <2> QED BY <1>5, <1>0, <2>1, <2>2, <2>3 DEF Login, SecretsBounded, DecoyDiffers, OwnSecrets
<1>6. ASSUME NEW p \in Passwords, LoginDecoy(p)
     PROVE SecretsBounded' /\ DecoyDiffers' /\ OwnSecrets'
  <2>1. \A s \in {"private_key", "global_secret", "duress_verifier"} : settings'[s] = settings[s]
    BY <1>6 DEF LoginDecoy, TypeInv, TypeOK, Slots
  <2>2. fresh' >= fresh BY <1>6 DEF LoginDecoy, Generate, TypeInv, TypeOK
  <2>3. ks'.private = settings["duress_verifier"].val BY <1>6 DEF LoginDecoy, Decoy, EmptyKs
  <2>4. Stored(settings["private_key"])
    BY <1>6, KeyStoreConstants DEF LoginDecoy, IsDuress, BeforeFirstRun, Absent
  <2> QED BY <1>6, <1>0, <2>1, <2>2, <2>3, <2>4 DEF LoginDecoy, SecretsBounded, DecoyDiffers,
    OwnSecrets
<1>7. ASSUME NEW p \in Passwords, Unlock(p) PROVE SecretsBounded' /\ DecoyDiffers' /\ OwnSecrets'
  <2>1. ks'.private = settings["private_key"].val /\ ks'.global = settings["global_secret"].val
    BY <1>7 DEF Unlock, Loaded
  <2> QED BY <1>7, <1>0, <2>1 DEF Unlock, SecretsBounded, DecoyDiffers, OwnSecrets
<1>8. ASSUME NEW p \in Passwords, UnlockDecoy(p)
     PROVE SecretsBounded' /\ DecoyDiffers' /\ OwnSecrets'
  <2>2. fresh' >= fresh BY <1>8 DEF UnlockDecoy, Generate, TypeInv, TypeOK
  <2>3. ks'.private = settings["duress_verifier"].val BY <1>8 DEF UnlockDecoy, Decoy, EmptyKs
  <2>4. Stored(settings["private_key"]) BY <1>8 DEF UnlockDecoy, BeforeFirstRun
  <2> QED BY <1>8, <1>0, <2>2, <2>3, <2>4 DEF UnlockDecoy, SecretsBounded, DecoyDiffers,
    OwnSecrets
<1>9. ASSUME NEW p \in Passwords, Recover(p) PROVE SecretsBounded' /\ DecoyDiffers' /\ OwnSecrets'
  <2>1. /\ settings'["private_key"] = Seal(p, New) /\ settings'["global_secret"] = Seal(p, New)
        /\ settings'["duress_verifier"] = Absent
    BY <1>9 DEF Recover, Slots
  <2>2. ks'.private = New /\ ks'.global = New /\ fresh' = New
    BY <1>9 DEF Recover, EmptyKs, Generate, New
  <2> QED BY <2>1, <2>2, SealKey, NewType DEF Absent, TypeInv, TypeOK, SecretsBounded,
    DecoyDiffers, OwnSecrets
<1>10. ASSUME NEW p \in Passwords, DialogCancelled(p)
     PROVE SecretsBounded' /\ DecoyDiffers' /\ OwnSecrets'
  <2>3. ks'.private = ks.private /\ ks'.global = ks.global
    BY <1>10 DEF DialogCancelled, KeyStoreObject, TypeInv, TypeOK
  <2> QED BY <1>10, <1>0, <2>3 DEF DialogCancelled, SecretsBounded, DecoyDiffers, OwnSecrets
<1>11. ASSUME NEW p \in Passwords, UpdateGlobalSecret(p)
     PROVE SecretsBounded' /\ DecoyDiffers' /\ OwnSecrets'
  <2>1. /\ \A s \in {"private_key", "duress_verifier"} : settings'[s] = settings[s]
        /\ settings'["global_secret"] = Seal(p, New)
    BY <1>11 DEF UpdateGlobalSecret, TypeInv, TypeOK, Slots
  <2>2. fresh' >= fresh BY <1>11 DEF UpdateGlobalSecret, Generate, TypeInv, TypeOK
  <2>3. ks'.global = New BY <1>11 DEF UpdateGlobalSecret, KeyStoreObject, TypeInv, TypeOK
  <2> QED BY <1>0, <2>1, <2>2, <2>3, SealKey, NewType DEF TypeInv, SecretsBounded,
    DecoyDiffers, OwnSecrets
<1>12. ASSUME NEW p \in Passwords, NEW q \in Passwords, ChangePassword(p, q)
     PROVE SecretsBounded' /\ DecoyDiffers' /\ OwnSecrets'
  <2>1. /\ settings'["private_key"] = Seal(q, settings["private_key"].val)
        /\ settings'["global_secret"] = Seal(q, settings["global_secret"].val)
        /\ settings'["duress_verifier"] = settings["duress_verifier"]
    BY <1>12 DEF ChangePassword, Resealed, Slots
  <2>2. settings'["private_key"].val = settings["private_key"].val
        /\ settings'["global_secret"].val = settings["global_secret"].val
    BY <2>1, SealFacts, SealedFacts DEF Keys, TypeInv, TypeOK, Slots
  <2>3. ks'.private = settings["private_key"].val /\ ks'.global = settings["global_secret"].val
    BY <1>12 DEF ChangePassword, Refresh, RefreshedKs, KeyStoreObject, TypeInv, TypeOK
  <2> QED BY <1>12, <1>0, <2>1, <2>2, <2>3 DEF ChangePassword, Stored, SecretsBounded,
    DecoyDiffers, OwnSecrets
<1>13. ASSUME NEW p \in Passwords, NEW q \in Passwords, SetDuressPassword(p, q)
     PROVE SecretsBounded' /\ DecoyDiffers' /\ OwnSecrets'
  <2>1. /\ \A s \in {"private_key", "global_secret"} : settings'[s] = settings[s]
        /\ settings'["duress_verifier"] = Seal(q, New)
    BY <1>13 DEF SetDuressPassword, TypeInv, TypeOK, Slots
  <2>2. settings'["duress_verifier"].val = fresh + 1 BY <2>1, SealKey, NewType DEF New, TypeInv
  <2>4. fresh' = fresh + 1 BY <1>13 DEF SetDuressPassword, Generate
  <2>3. ks'.private = ks.private /\ ks'.global = ks.global
    BY <1>13 DEF SetDuressPassword, KeyStoreObject, TypeInv, TypeOK
  <2> QED BY <1>13, <1>0, <2>1, <2>2, <2>3, <2>4 DEF SetDuressPassword, SecretsBounded,
    DecoyDiffers, OwnSecrets
<1>14. ASSUME NEW f \in Friends, RemoveFriend(f)
     PROVE SecretsBounded' /\ DecoyDiffers' /\ OwnSecrets'
  <2>3. ks'.private = ks.private /\ ks'.global = ks.global
    BY <1>14 DEF RemoveFriend, KeyStoreObject, TypeInv, TypeOK
  <2> QED BY <1>14, <1>0, <2>3 DEF RemoveFriend, SecretsBounded, DecoyDiffers, OwnSecrets
<1>15. ASSUME NEW f \in Friends, NEW p \in Passwords, AddFriend(f, p)
     PROVE SecretsBounded' /\ DecoyDiffers' /\ OwnSecrets'
  <2>2. fresh' >= fresh BY <1>15 DEF AddFriend, Generate, TypeInv, TypeOK
  <2>3. ks'.private = ks.private /\ ks'.global = ks.global
    BY <1>15 DEF AddFriend, SaveFriend, Remembered, KeyStoreObject, TypeInv, TypeOK
  <2> QED BY <1>15, <1>0, <2>2, <2>3 DEF AddFriend, SecretsBounded, DecoyDiffers, OwnSecrets
<1>16. ASSUME NEW f \in Friends, NEW p \in Passwords, EditFriend(f, p)
     PROVE SecretsBounded' /\ DecoyDiffers' /\ OwnSecrets'
  <2>2. fresh' >= fresh BY <1>16 DEF EditFriend, Generate, TypeInv, TypeOK
  <2>3. ks'.private = ks.private /\ ks'.global = ks.global
    BY <1>16 DEF EditFriend, SaveFriend, Remembered, KeyStoreObject, TypeInv, TypeOK
  <2> QED BY <1>16, <1>0, <2>2, <2>3 DEF EditFriend, SecretsBounded, DecoyDiffers, OwnSecrets
<1>17. ASSUME NEW w \in Workers, NEW k \in FriendJobs, NEW f \in Friends, NEW p \in Passwords,
            StartFriendJob(w, k, f, p)
     PROVE SecretsBounded' /\ DecoyDiffers' /\ OwnSecrets'
  BY <1>17 DEF StartFriendJob, memory, SecretsBounded, DecoyDiffers, OwnSecrets
<1>18. ASSUME NEW w \in Workers, NEW k \in KeyJobs, NEW p \in Passwords, StartKeyJob(w, k, p)
     PROVE SecretsBounded' /\ DecoyDiffers' /\ OwnSecrets'
  BY <1>18 DEF StartKeyJob, memory, SecretsBounded, DecoyDiffers, OwnSecrets
<1>19. ASSUME NEW w \in Workers, JobReads(w) PROVE SecretsBounded' /\ DecoyDiffers' /\ OwnSecrets'
  <2>2. fresh' >= fresh BY <1>19 DEF JobReads, Generate, TypeInv, TypeOK
  <2> QED BY <1>19, <1>0, <2>2 DEF JobReads, memory, SecretsBounded, DecoyDiffers, OwnSecrets
<1>20. ASSUME NEW w \in Workers, JobFails(w) PROVE SecretsBounded' /\ DecoyDiffers' /\ OwnSecrets'
  BY <1>20 DEF JobFails, memory, SecretsBounded, DecoyDiffers, OwnSecrets
<1>21. ASSUME NEW w \in Workers, JobRefused(w)
     PROVE SecretsBounded' /\ DecoyDiffers' /\ OwnSecrets'
  BY <1>21 DEF JobRefused, memory, SecretsBounded, DecoyDiffers, OwnSecrets
<1>22. ASSUME NEW w \in Workers, JobSaves(w) PROVE SecretsBounded' /\ DecoyDiffers' /\ OwnSecrets'
  <2>3. ks'.private = ks.private /\ ks'.global = ks.global
    BY <1>22 DEF JobSaves, Remembered, KeyStoreObject, TypeInv, TypeOK
  <2> QED BY <1>22, <1>0, <2>3 DEF JobSaves, SecretsBounded, DecoyDiffers, OwnSecrets
<1>23. ASSUME NEW w \in Workers, GenerateKeys(w)
     PROVE SecretsBounded' /\ DecoyDiffers' /\ OwnSecrets'
  <2>1. \A s \in {"private_key", "global_secret", "duress_verifier"} : settings'[s] = settings[s]
    BY <1>23 DEF GenerateKeys, TypeInv, TypeOK, Slots
  <2>2. fresh' >= fresh BY <1>23 DEF GenerateKeys, Generate, TypeInv, TypeOK
  <2>3. ks'.private = ks.private /\ ks'.global = ks.global
    BY <1>23 DEF GenerateKeys, KeyStoreObject, TypeInv, TypeOK
  <2> QED BY <1>23, <1>0, <2>1, <2>2, <2>3 DEF GenerateKeys, SecretsBounded, DecoyDiffers,
    OwnSecrets
<1>24. ASSUME NEW f \in Friends, NEW p \in Passwords, DelegatedSave(f, p)
     PROVE SecretsBounded' /\ DecoyDiffers' /\ OwnSecrets'
  <2>3. ks'.private = ks.private /\ ks'.global = ks.global
    BY <1>24 DEF DelegatedSave, SaveFriend, Remembered, KeyStoreObject, TypeInv, TypeOK
  <2> QED BY <1>24, <1>0, <2>3 DEF DelegatedSave, SecretsBounded, DecoyDiffers, OwnSecrets
<1>25. CASE UNCHANGED vars
  BY <1>25 DEF vars, SecretsBounded, DecoyDiffers, OwnSecrets
<1> QED BY <1>1, <1>2, <1>3, <1>4, <1>5, <1>6, <1>7, <1>8, <1>9, <1>10, <1>11, <1>12, <1>13,
  <1>14, <1>15, <1>16, <1>17, <1>18, <1>19, <1>20, <1>21, <1>22, <1>23, <1>24, <1>25
  DEF Next, Screens, Editing, Working

(* Every operation starts from a state in which these invariants hold. *)
IInv == PasswordInv /\ FriendInv /\ IdentityInv

(* The invariants hold before the first run, *)
LEMMA InitInv == Init => IInv
<1> SUFFICES ASSUME Init PROVE IInv
  OBVIOUS
<1>1. TypeInv BY TypeInit
<1>2. PrivateKeyOpens /\ LockScreenAgrees
  BY DEF Init, PrivateKeyOpens, LockScreenAgrees, Master, Absent, Slots
<1>3. ClosedIsIdle /\ OneRatchetKey
  BY DEF Init, ClosedIsIdle, OneRatchetKey, EmptyKs, NoFriend
<1>4. BeforeFirstRun
  BY DEF Init, BeforeFirstRun, Slots
<1>5. Undisturbed
  BY DEF Init, EmptyKs, Nothing, NoFriend, Absent, Stored, Undisturbed, JobsCurrent, FriendsOpen,
    EcdhPaired, FriendsRemembered
<1>6. SecretsBounded /\ DecoyDiffers /\ OwnSecrets
  BY DEF Init, SecretsBounded, DecoyDiffers, OwnSecrets, Absent, Stored, Slots
<1> QED BY <1>1, <1>2, <1>3, <1>4, <1>5, <1>6 DEF IInv, PasswordInv, FriendInv, BlobInv,
  IdentityInv

(* and always. *)
LEMMA Invariance == Spec => []IInv
<1>1. IInv /\ [Next]_vars => IInv'
  BY PasswordStep, FriendStep, IdentityStep DEF IInv
<1> QED BY <1>1, InitInv, PTL DEF Spec

(* Type correctness of the secrets, for any passwords, friends, workers    *)
(* and number of secrets.                                                  *)
THEOREM TypeCorrect == Spec => []TypeOK
<1>1. IInv => TypeOK BY DEF IInv, PasswordInv, TypeInv
<1> QED BY <1>1, Invariance, PTL

(* After any sequence of password changes, recoveries and edits one        *)
(* password opens the private key, the global secret and, unless a job was *)
(* overtaken, the secrets of every friend.                                 *)
THEOREM OnePasswordOpens == Spec => []OneMasterKey
<1>1. IInv => OneMasterKey
  BY DEF IInv, PasswordInv, FriendInv, PrivateKeyOpens, Undisturbed, FriendsOpen, OneMasterKey
<1> QED BY <1>1, Invariance, PTL

(* change_password skips no ECDH key: there is none without a secret. *)
THEOREM NoEcdhIsSkipped == Spec => []EcdhHasSecret
<1>1. IInv => EcdhHasSecret
  BY DEF IInv, FriendInv, Undisturbed, EcdhPaired, EcdhHasSecret
<1> QED BY <1>1, Invariance, PTL

(* The KeyStore of an open session agrees with the database. *)
THEOREM MemoryAgrees == Spec => []MemoryIsStored
<1>1. IInv => MemoryIsStored
  BY DEF IInv, FriendInv, BlobInv, IdentityInv, OwnSecrets, OneRatchetKey, Undisturbed,
    FriendsRemembered, MemoryIsStored
<1> QED BY <1>1, Invariance, PTL

(* The hash of the lock screen follows every change of the password. *)
THEOREM LockScreenFollows == Spec => []LockScreenAgrees
<1>1. IInv => LockScreenAgrees BY DEF IInv, PasswordInv
<1> QED BY <1>1, Invariance, PTL

(* Stored ratchet sessions stay readable through password changes,         *)
(* recoveries, decoy sessions and jobs that were overtaken.                *)
THEOREM SessionsStayReadable == Spec => []BlobsReadable
<1>1. IInv => BlobsReadable BY DEF IInv, FriendInv, BlobInv, OneRatchetKey, BlobsReadable
<1> QED BY <1>1, Invariance, PTL
===============================================================================

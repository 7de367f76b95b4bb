------------------------------ MODULE Messaging ------------------------------
(***************************************************************************)
(* Messages and files between two users: services/encryption/*.py,          *)
(* crypto.py, models/envelope.py, services/file_service.py, file_ops.py,    *)
(* and the clock they go by: ntp_client.py, views/ntp_tab.py and the loop   *)
(* of controllers/application_controller.py.                                *)
(*                                                                          *)
(* A message is what its envelope lets the reader check: the kind of the    *)
(* envelope, the key it was made for, the signature, the time stamp and the *)
(* lifetime.  The chains of a ratchet are RatchetSession's; here two ratchet *)
(* sessions either agree or they do not.                                    *)
(***************************************************************************)
EXTENDS FriendBook

CONSTANTS Window,      \* TIME_STEP * WINDOW_SIZE
          SyncPeriod   \* between two synchronisations of the loop

ASSUME ClockAssumption == Window \in Nat /\ SyncPeriod \in Nat \ {0}

VARIABLES time,    \* the time
          ntp,     \* the time stamp of the last synchronisation, which then stands still
          due,     \* when the loop synchronises next
          fed,     \* the loop feeds the encryption service in use
          syncing, \* the NTP tab is synchronising
          named,   \* the user has set the name under which friends know him
          sent,    \* the messages sent
          files,   \* the files encrypted
          cache,   \* the secrets FileService has collected, NotBuilt at first
          newer    \* history: secrets stored since they were collected

msgVars == <<time, ntp, due, fed, syncing, named, sent, files, cache, newer>>
vars == <<bookVars, msgVars>>

NoTime == -1
NotBuilt == {-1}
Refused == [kind |-> "refused"]
Abs(n) == IF n < 0 THEN -n ELSE n

-----------------------------------------------------------------------------
(* The clock *)

\* The last synchronisation as it was, or the system's clock, which may lag.
Clock(u) == IF ntp[u] = NoTime THEN time - bound.lag[u] ELSE ntp[u]

\* What the servers answer: the time, or nothing.
GetNtpTime(answered) == IF answered THEN time ELSE NoTime

UpdateNtpTime(u, t) == ntp' = [ntp EXCEPT ![u] = t]

\* The loop keeps the encryption service it was given at the start.
NtpSyncLoop(u, answered) ==
  /\ bound.time > 0 /\ due[u] = time
  /\ IF fed[u] THEN UpdateNtpTime(u, GetNtpTime(answered)) ELSE UNCHANGED ntp
  /\ due' = [due EXCEPT ![u] = time + SyncPeriod]
  /\ UNCHANGED <<time, fed, syncing, named, sent, files, cache, newer>>

\* No answer changes nothing.
OnSyncComplete(u, t) ==
  /\ syncing' = [syncing EXCEPT ![u] = FALSE]
  /\ IF t # NoTime THEN UpdateNtpTime(u, t) ELSE UNCHANGED ntp

\* When the other servers are too slow the thread ends without a word.
DoSync(u, answer) ==
  IF answer = "late" THEN syncing' = [syncing EXCEPT ![u] = TRUE] /\ UNCHANGED ntp
  ELSE OnSyncComplete(u, GetNtpTime(answer = "answered"))

\* The button of the NTP tab, which is dead while the tab synchronises.
ManualSync(u, answer) ==
  /\ bound.time > 0 /\ ~syncing[u]
  /\ DoSync(u, answer)
  /\ UNCHANGED <<time, due, fed, named, sent, files, cache, newer>>

\* The loop sleeps for SyncPeriod, so that it is never late.
Tick ==
  /\ time < bound.time
  /\ \A u \in User : due[u] > time
  /\ time' = time + 1
  /\ UNCHANGED <<ntp, due, fed, syncing, named, sent, files, cache, newer>>

-----------------------------------------------------------------------------
(* Encryption *)

FriendSupportsRatchet(u) == session[u] # NoSession \/ rec[u]["caps"] = 1

\* A hybrid signature when the user has the keys, else an RSA one.
Signature(u) == IF own[u].sig > 0 THEN <<"hybrid", own[u].sig>> ELSE <<"rsa", own[u].rsa>>

\* Without a name of his own the sender writes the friend's.
RatchetEnvelope(u) ==
  [kind |-> "ratchet", from |-> u, session |-> session[u], named |-> named[u], at |-> time]

RatchetEncrypt(u) == IF session[u] = NoSession THEN Refused ELSE RatchetEnvelope(u)

PqcEnvelope(u) == [kind |-> "pqc", from |-> u, key |-> rec[u]["pqc"], at |-> time]

PqcEncrypt(u) == IF rec[u]["pqc"] = 0 THEN Refused ELSE PqcEnvelope(u)

\* The friend's secret, or the global one when there is none with him.
ResolveEncryptionKey(u, mode) ==
  IF mode = "rsa" THEN rec[u]["pem"]
  ELSE IF rec[u]["secret"] # 0 THEN rec[u]["secret"] ELSE own[u].global

\* The time stamp is in the packet twice, outside for the reader to derive the key.
EncryptMessage(u, mode, key, stamp, lifetime) ==
  [kind |-> mode, from |-> u, key |-> key, sig |-> Signature(u), stamp |-> stamp,
   lifetime |-> lifetime, at |-> time]

LegacyEncrypt(u, mode, lifetime) ==
  EncryptMessage(u, mode, ResolveEncryptionKey(u, mode), Clock(u), lifetime)

\* EncryptionService.encrypt: the ratchet and the PQC envelopes carry neither
\* a signature nor a lifetime, whatever the user asked for.
Encrypt(u, mode, lifetime) ==
  IF mode = "pqc" THEN PqcEncrypt(u)
  ELSE IF mode = "shared" /\ FriendSupportsRatchet(u) THEN RatchetEncrypt(u)
  ELSE LegacyEncrypt(u, mode, lifetime)

\* The mode the encryption tab proposes for the friend.
ModeInfoFor(u) ==
  LET details == GetFriendDetails(u)
  IN  IF details.ratchet THEN "shared"
      ELSE IF details.pqc THEN "pqc"
      ELSE IF details.secret THEN "shared" ELSE "rsa"

SendMessage(u, mode, lifetime) ==
  /\ Cardinality(sent) < bound.msg
  /\ rec[u] # NoFriend
  /\ LET m == Encrypt(u, mode, lifetime)
     IN  /\ m # Refused
         /\ sent' = sent \cup {m}
  /\ UNCHANGED <<time, ntp, due, fed, syncing, named, files, cache, newer>>

\* The dialog that sets the user's name for the ratchet envelopes.
SetMyName(u) ==
  /\ bound.name /\ ~named[u]
  /\ named' = [named EXCEPT ![u] = TRUE]
  /\ UNCHANGED <<time, ntp, due, fed, syncing, sent, files, cache, newer>>

-----------------------------------------------------------------------------
(* Decryption *)

\* Two sessions of one exchange, in different roles; without the private key
\* of the exchange a session starts from a key nobody knows.
SessionsAgree(s, t) ==
  /\ s # NoSession /\ t # NoSession
  /\ s.role # t.role
  /\ s.secret = t.secret
  /\ s.ecdh # 0 /\ t.ecdh # 0
  /\ s.x = t.ecdh /\ t.x = s.ecdh

\* The secrets a user holds: the global one and the friend's.
Held(u) == {own[u].global} \cup (IF rec[u] = NoFriend THEN {} ELSE {rec[u]["secret"]} \ {0})

\* What a background decryption works with: the user's RSA keys, the keys
\* that signatures are verified with, and the secrets.
GetDecryptionSnapshot(u) ==
  [priv |-> own[u].rsa, legacy |-> own[u].legacy, secrets |-> Held(u),
   pubs |-> {own[u].rsa} \cup (IF rec[u] = NoFriend THEN {} ELSE {rec[u]["pem"]})]

\* Mutant of InTime: a message that destroys itself is not looked at again.
InTimeForever(v, m) == m.lifetime > 0 \/ Abs(Clock(v) - m.stamp) <= Window

\* A lifetime replaces the window, which looks both ways.
InTime(v, m) ==
  IF m.lifetime > 0 THEN Clock(v) <= m.stamp + m.lifetime
  ELSE Abs(Clock(v) - m.stamp) <= Window

\* The time stamp outside the packet is tried before those of the window: the
\* right secret always opens it.
DecryptWithWindow(m, secret) == secret = m.key

DecryptMessage(v, m, key) ==
  /\ key # 0
  /\ IF m.kind = "rsa" THEN key = m.key ELSE DecryptWithWindow(m, key)
  /\ InTime(v, m)

\* Mutant of DecryptWithRsa: the legacy RSA key is not tried.
DecryptWithRsaNow(v, m) == DecryptMessage(v, m, GetDecryptionSnapshot(v).priv)

\* The key in use and then the legacy key.
DecryptWithRsa(v, m) ==
  \/ DecryptMessage(v, m, GetDecryptionSnapshot(v).priv)
  \/ DecryptMessage(v, m, GetDecryptionSnapshot(v).legacy)

DecryptWithSharedSecrets(v, m) ==
  \E secret \in GetDecryptionSnapshot(v).secrets : DecryptMessage(v, m, secret)

LegacyDecrypt(v, m) ==
  IF m.kind = "rsa" THEN DecryptWithRsa(v, m) ELSE DecryptWithSharedSecrets(v, m)

PqcDecrypt(v, m) == own[v].pqc # 0 /\ m.key = own[v].pqc

RatchetDecrypt(v, m) ==
  /\ m.named
  /\ rec[v] # NoFriend
  /\ FriendSupportsRatchet(v)
  /\ SessionsAgree(m.session, session[v])

IdentifyEnvelopeType(m) == IF m.kind \in {"pqc", "ratchet"} THEN m.kind ELSE "none"

\* EncryptionService.decrypt, by the friend of the sender.
CanRead(v, m) ==
  IF IdentifyEnvelopeType(m) = "pqc" THEN PqcDecrypt(v, m)
  ELSE IF IdentifyEnvelopeType(m) = "ratchet" THEN RatchetDecrypt(v, m)
  ELSE LegacyDecrypt(v, m)

\* The signing keys of the friend and of the user himself.
GetFriendsHybridList(v) ==
  ({own[v].sig} \cup (IF rec[v] = NoFriend THEN {} ELSE {rec[v]["sig"]})) \ {0}

\* The signature is only reported, never a reason to refuse.
Verified(v, m) ==
  IF m.sig[1] = "hybrid" THEN m.sig[2] \in GetFriendsHybridList(v)
  ELSE m.sig[2] \in GetDecryptionSnapshot(v).pubs

-----------------------------------------------------------------------------
(* Files *)

\* The fingerprint in the header tells the secret; the time of use does not matter.
FileEncryptShared(secret) == [kind |-> "shared", key |-> secret]
FileEncrypt(password) == [kind |-> "password", key |-> password]

\* FileService.encrypt_file: the file of a method, none without its secret.
EncryptFileBy(u, method) ==
  CASE method = "password" -> {FileEncrypt("password")}
    [] method = "global" -> {FileEncryptShared(own[u].global)}
    [] method = "friend" -> {FileEncryptShared(secret) :
                               secret \in IF rec[u] = NoFriend THEN {} ELSE {rec[u]["secret"]} \ {0}}

EncryptFile(u, method) ==
  /\ Cardinality(files) < bound.file
  /\ \E f \in EncryptFileBy(u, method) : files' = files \cup {f}
  /\ UNCHANGED <<time, ntp, due, fed, syncing, named, sent, cache, newer>>

\* A file whose first bytes, the mark of shared files, are missing.
LoseMagic(f) ==
  /\ f \in files /\ f.kind = "shared"
  /\ files' = (files \ {f}) \cup {[f EXCEPT !.kind = "bare"]}
  /\ UNCHANGED <<time, ntp, due, fed, syncing, named, sent, cache, newer>>

\* Mutant of BuildSecretsDict: the global secret is left out.
BuildWithoutGlobal(u) == IF cache[u] # NotBuilt THEN cache[u] ELSE Held(u) \ {own[u].global}

\* The secrets are collected once: nobody calls invalidate_fingerprint_cache.
BuildSecretsDict(u) == IF cache[u] # NotBuilt THEN cache[u] ELSE Held(u)

FileDecryptShared(f, secrets) == f.key \in secrets
FileDecrypt(f, password) == f.key = password

DecryptSharedFile(u, f) == FileDecryptShared(f, BuildSecretsDict(u))

DetectSharedFingerprint(u, f) == f.kind = "bare" /\ f.key \in BuildSecretsDict(u)

\* FileService.decrypt_file, without a password: what the tab does next.
DecryptFileAs(u, f) ==
  IF f.kind = "shared" THEN IF DecryptSharedFile(u, f) THEN "opened" ELSE "refused"
  ELSE IF DetectSharedFingerprint(u, f) THEN "detected" ELSE "password required"

\* The user confirms: the mark is put back and the file decrypted with all secrets.
HandleSharedDetected(u, f) == DecryptSharedFile(u, f)

\* The user knows the password of his file.
PromptPasswordAndDecrypt(f) == f.kind = "password" /\ FileDecrypt(f, "password")

CanOpen(u, f) ==
  CASE DecryptFileAs(u, f) = "opened" -> TRUE
    [] DecryptFileAs(u, f) = "detected" -> HandleSharedDetected(u, f)
    [] DecryptFileAs(u, f) = "password required" -> PromptPasswordAndDecrypt(f)
    [] OTHER -> FALSE

\* Whatever the file is, looking at it collects the secrets.
DecryptFile(u) ==
  /\ files # {}
  /\ cache[u] = NotBuilt
  /\ cache' = [cache EXCEPT ![u] = BuildSecretsDict(u)]
  /\ UNCHANGED <<time, ntp, due, fed, syncing, named, sent, files, newer>>

-----------------------------------------------------------------------------
\* A lock and an unlock: new services, and a loop that feeds the old one.
Unlock(u) ==
  /\ Reload(u)
  /\ ntp' = [ntp EXCEPT ![u] = NoTime]
  /\ fed' = [fed EXCEPT ![u] = FALSE]
  /\ cache' = [cache EXCEPT ![u] = NotBuilt]
  /\ newer' = [newer EXCEPT ![u] = {}]
  /\ UNCHANGED <<time, due, syncing, named, sent, files>>

BookStep ==
  /\ BookNext
  /\ newer' = [u \in User |-> IF cache[u] = NotBuilt THEN {} ELSE newer[u] \cup (Held(u)' \ Held(u))]
  /\ UNCHANGED <<time, ntp, due, fed, syncing, named, sent, files, cache>>

Init ==
  /\ BookInit
  /\ time = 0
  /\ ntp = [u \in User |-> NoTime]
  /\ due \in [User -> IF bound.time > 0 THEN 0..1 ELSE {0}]
  /\ fed = [u \in User |-> TRUE]
  /\ syncing = [u \in User |-> FALSE]
  /\ named = [u \in User |-> FALSE]
  /\ sent = {}
  /\ files = {}
  /\ cache = [u \in User |-> NotBuilt]
  /\ newer = [u \in User |-> {}]

Next ==
  \/ BookStep
  \/ \E u \in User : Unlock(u)
  \/ UNCHANGED bookVars /\
       \/ Tick
       \/ \E u \in User :
            \/ \E answered \in BOOLEAN : NtpSyncLoop(u, answered)
            \/ \E answer \in {"answered", "none", "late"} : ManualSync(u, answer)
            \/ \E mode \in bound.mode, lifetime \in bound.lifetime : SendMessage(u, mode, lifetime)
            \/ SetMyName(u)
            \/ \E method \in {"password", "global", "friend"} : EncryptFile(u, method)
            \/ DecryptFile(u)
       \/ \E f \in files : LoseMagic(f)

Spec == Init /\ [][Next]_vars

-----------------------------------------------------------------------------
\* A clock that was set by hand after an unlock is never set again.
StandsStill(u) == ~fed[u] /\ ntp[u] # NoTime

Larger(a, b) == IF a < b THEN b ELSE a

(* A message is not read for longer than it should: past its window or its *)
(* lifetime it is refused after one more period of the synchronisation loop *)
(* (the clock stands still between two synchronisations) or as long as the  *)
(* system's clock lags behind.  The exception is a clock that stands still  *)
(* for good because the loop feeds a service that is no longer in use.      *)
LateReading ==
  \A m \in sent : m.kind \in {"rsa", "shared"} =>
    LET v == Peer(m.from)
        limit == IF m.lifetime > 0 THEN m.lifetime ELSE Window
    IN  CanRead(v, m) => \/ time <= m.at + limit + Larger(SyncPeriod, bound.lag[v])
                         \/ StandsStill(v)

(* The records of the two users are in step: each key u has of v is one that *)
(* v has now (of the RSA keys also the one before), v has u's keys, and they *)
(* have the same secret and agreeing sessions, or none.                      *)
InStep(u) ==
  LET v == Peer(u)
  IN  /\ rec[u] # NoFriend /\ rec[v] # NoFriend
      /\ rec[u]["pem"] \in {own[v].rsa, own[v].rsa - 1} \ {0}
      /\ rec[v]["pem"] = own[u].rsa
      /\ rec[v]["sig"] = own[u].sig
      /\ rec[u]["pqc"] \in {0, own[v].pqc}
      /\ rec[u]["secret"] = rec[v]["secret"]
      /\ \/ session[u] = NoSession /\ rec[u]["caps"] = 0
         \/ SessionsAgree(session[u], session[v]) /\ named[u]

(* What the tab proposes works: when the records are in step and the clocks *)
(* are within the window, a message sent in the proposed mode is encrypted, *)
(* read and, where it is signed, verified by the friend.                    *)
RoundTrip ==
  \A u \in User :
    LET v == Peer(u)
        m == Encrypt(u, ModeInfoFor(u), 0)
    IN  InStep(u) /\ (Abs(Clock(u) - Clock(v)) <= Window \/ ModeInfoFor(u) = "pqc")
          => /\ m # Refused
             /\ CanRead(v, m)
             /\ m.kind \in {"rsa", "shared"} => Verified(v, m)

(* A file made with a secret the user holds opens, also when its mark was   *)
(* lost, and a file with a password opens with it.  A file is refused only   *)
(* when its secret was stored after the first file was opened since the      *)
(* unlock: the secrets collected then are used until the next unlock.        *)
RefusedOnlyByCache ==
  \A u \in User : \A f \in files :
    f.kind = "password" \/ f.key \in Held(u) => CanOpen(u, f) \/ f.key \in newer[u]
=============================================================================

----------------------------- MODULE FriendBook -----------------------------
(***************************************************************************)
(* What two users store about each other: services/friends/*.py, the        *)
(* dialogs that change a friend's record (views/friends_tab.py,             *)
(* components/add_friend_dialog.py, update_friend_keys_dialog.py,           *)
(* pqc_exchange_dialog.py, hybrid_sig_exchange_dialog.py) and               *)
(* KeyStore.save_friend, which replaces the whole row.                      *)
(*                                                                          *)
(* Every update reads the record, adds what is new and writes everything    *)
(* back: some updates do so on a background thread, and some leave fields   *)
(* out.  A key is the number of its generation, 0 for none; the PEM text 0  *)
(* is not a key.  A secret is the number of the exchange that made it.      *)
(***************************************************************************)
EXTENDS Integers, FiniteSets

CONSTANTS User,      \* two users, each the other's friend
          Instance   \* the instances that are explored: see bound

ASSUME UserAssumption == Cardinality(User) = 2

\* What an instance sets: the operations offered and how many of them each user begins; whether
\* the users know each other at the start; the exchanges, encapsulations and pasted secrets;
\* the clocks, messages, modes and lifetimes, names and files of Messaging.
ASSUME InstanceAssumption ==
  Instance \subseteq
    [op : SUBSET STRING, step : [User -> Nat], added : BOOLEAN, global : [User -> Nat],
     exchange : SUBSET (Nat \ {0}), kem : SUBSET Nat, paste : SUBSET Nat,
     lag : [User -> Nat], time : Nat, msg : Nat, mode : SUBSET {"rsa", "shared", "pqc"},
     lifetime : SUBSET Nat, name : BOOLEAN, file : Nat]

VARIABLES bound,    \* the instance, chosen at the start
          own,      \* a user's own keys: RSA, the legacy RSA key, PQC, hybrid signing, global secret
          row,      \* the friend's row in each user's database
          rec,      \* the friend's record in each user's memory
          session,  \* the ratchet session stored in the row
          work,     \* the updates in progress
          count,    \* how many operations a user has begun
          stored,   \* history: what the user last stored in each field
          excused,  \* history: the fields an operation dropped, an overlap overwrote, or a save that
                    \* stopped halfway left different in row and memory
          advert    \* history: the ratchet capability was set by hand, or an update of it was cut short

bookVars == <<bound, own, row, rec, session, work, count, stored, excused, advert>>

Peer(u) == CHOOSE v \in User : v # u

Field == {"pem", "secret", "x", "ecdh", "caps", "pqc", "sig"}

NoFriend == [f \in {} |-> 0]
Blank == [f \in Field |-> 0]
NoSession == [role |-> "none", secret |-> 0, x |-> 0, ecdh |-> 0]

\* The numbers of the secrets: of an X25519 exchange, of an encapsulation, and global ones.
KemSecret(n) == 100 + n
GlobalSecret(n) == 200 + n

Background == {"ecdh", "init", "reset"}   \* through run_busy; the other updates block the window
BusyWindow(u) == \E w \in work[u] : w.op \notin Background

May(u, op) == op \in bound.op /\ count[u] < bound.step[u] /\ ~BusyWindow(u)
Counted(u) == count' = [count EXCEPT ![u] = @ + 1]

-----------------------------------------------------------------------------
(* Writing a record *)

\* save_friend replaces the row but for the ratchet session, and only then
\* parses the PEM text: when it is not a key the record in memory stays as it was.
SaveFriend(u, record) ==
  /\ row' = [row EXCEPT ![u] = record]
  /\ rec' = IF record["pem"] = 0 THEN rec ELSE [rec EXCEPT ![u] = record]

\* Mutant of Dropped: storing another public key forgets the signing key.
DroppedMore(op) ==
  CASE op \in {"init", "reset"} -> {"pqc", "sig"}
    [] op \in {"importSig", "delegated"} -> {"ecdh"}
    [] op = "pubkeys" -> {"sig"}
    [] OTHER -> {}

\* The fields an update does not pass on to save_friend.
Dropped(op) ==
  CASE op \in {"init", "reset"} -> {"pqc", "sig"}
    [] op \in {"importSig", "delegated"} -> {"ecdh"}
    [] OTHER -> {}

\* An update hands on what the record in memory holds.
GetFriendExistingKeys(u) == rec[u]

\* A delegated update reads the public keys from the row.
Seen(u, op) ==
  IF op = "delegated" /\ row[u] # NoFriend
  THEN [f \in Field |-> IF f \in {"pem", "x", "caps", "pqc"} THEN row[u][f]
                        ELSE GetFriendExistingKeys(u)[f]]
  ELSE GetFriendExistingKeys(u)

Written(w) ==
  [f \in Field |-> IF f \in DOMAIN w.new THEN w.new[f]
                   ELSE IF f \in Dropped(w.op) THEN 0 ELSE w.seen[f]]

\* What another update has read is out of date once a record is written.
Staled(S) == {[w EXCEPT !.stale = TRUE] : w \in S}

Begin(u, op, new) ==
  /\ May(u, op)
  /\ rec[u] # NoFriend
  /\ work' = [work EXCEPT ![u] = @ \cup {[op |-> op, id |-> count[u], new |-> new,
                                          seen |-> Seen(u, op), stale |-> FALSE]}]
  /\ Counted(u)

Commit(u, w) ==
  /\ SaveFriend(u, Written(w))
  /\ work' = [work EXCEPT ![u] = Staled(@ \ {w})]
  /\ stored' = [stored EXCEPT ![u] = [f \in Field |-> IF f \in DOMAIN w.new THEN w.new[f] ELSE @[f]]]
  /\ excused' = [excused EXCEPT ![u] =
       IF Written(w)["pem"] = 0 THEN Field
       ELSE IF w.stale THEN Field \ DOMAIN w.new
       ELSE (@ \cup (CASE w.op \in {"init", "reset"} -> {"pqc", "sig"}
                     [] w.op \in {"importSig", "delegated"} -> {"ecdh"}
                     [] OTHER -> {})) \ DOMAIN w.new]
  /\ advert' = [advert EXCEPT ![u] = @ \/ w.stale]
  /\ UNCHANGED <<bound, own, session, count>>

\* The database refuses the write: what came before it in the operation stays.
Fail(u, w) ==
  /\ work' = [work EXCEPT ![u] = @ \ {w}]
  /\ advert' = [advert EXCEPT ![u] = @ \/ w.op = "reset"]
  /\ UNCHANGED <<bound, own, row, rec, session, count, stored, excused>>

-----------------------------------------------------------------------------
(* The operations on a friend *)

\* The keys a friend has to give: of the generations he has now.
Offered(v, f) ==
  CASE f = "pem" -> {own[v].rsa}
    [] f = "pqc" -> {own[v].pqc} \ {0}
    [] f = "sig" -> {own[v].sig} \ {0}
    [] f = "x" -> bound.exchange
    [] OTHER -> {}

UnchangedButWork == UNCHANGED <<bound, row, rec, session, stored, excused, advert>>

\* What the list of friends shows of him.
GetFriendDetails(u) ==
  [secret |-> rec[u]["secret"] # 0, ecdh |-> rec[u]["x"] # 0,
   ratchet |-> session[u] # NoSession, supports |-> rec[u]["caps"] = 1,
   pqc |-> rec[u]["pqc"] # 0, sig |-> rec[u]["sig"] # 0]

\* Nothing checks that the text is a key, or that the friend is not there yet.
AddFriend(u, given) ==
  /\ SaveFriend(u, given)
  /\ work' = [work EXCEPT ![u] = Staled(@)]
  /\ stored' = [stored EXCEPT ![u] = given]
  /\ excused' = [excused EXCEPT ![u] = IF given["pem"] = 0 THEN Field ELSE {}]
  /\ advert' = [advert EXCEPT ![u] = given["caps"] = 1 \/ (@ /\ given["pem"] = 0)]
  /\ UNCHANGED <<bound, own, session>>

\* The dialog for a new friend, its X25519 field left empty.
Save(u) ==
  LET v == Peer(u)
  IN  /\ May(u, "add")
      /\ Counted(u)
      /\ \E pem \in {0, own[v].rsa}, secret \in bound.paste, caps \in {0, 1},
            pqc \in {0, own[v].pqc}, sig \in {0, own[v].sig} :
           LET given == [pem |-> pem, secret |-> secret, x |-> 0, ecdh |-> 0,
                         caps |-> caps, pqc |-> pqc, sig |-> sig]
           IN  AddFriend(u, [f \in Field |-> given[f]])

\* The row goes, and the session with it.
RemoveFriend(u) ==
  /\ row' = [row EXCEPT ![u] = NoFriend]
  /\ rec' = [rec EXCEPT ![u] = NoFriend]
  /\ session' = [session EXCEPT ![u] = NoSession]
  /\ work' = [work EXCEPT ![u] = Staled(@)]
  /\ stored' = [stored EXCEPT ![u] = Blank]
  /\ excused' = [excused EXCEPT ![u] = {}]
  /\ UNCHANGED <<bound, own, advert>>

RemoveFriendDialog(u) ==
  /\ May(u, "remove")
  /\ rec[u] # NoFriend
  /\ Counted(u)
  /\ RemoveFriend(u)

\* A new secret; the keys of an exchange are replaced with it when there are some.
UpdateSharedSecret(u, op, secret, keys) ==
  Begin(u, op, [f \in {"secret"} \cup DOMAIN keys |-> IF f = "secret" THEN secret ELSE keys[f]])

\* The two users exchange X25519 keys in exchange e: both get the same secret.
PerformEcdh(e) == [secret |-> e, x |-> e, ecdh |-> e]

\* Each of the two stores the outcome when he pleases.
EcdhWithSelected(u, e) ==
  /\ LET result == PerformEcdh(e)
     IN  UpdateSharedSecret(u, "ecdh", result.secret, [x |-> result.x, ecdh |-> result.ecdh])
  /\ UNCHANGED own
  /\ UnchangedButWork

\* The secret of an encapsulation, for a friend whose PQC key is known.
PqcEncapsulate(u, n) == IF rec[u]["pqc"] = 0 THEN {} ELSE {KemSecret(n)}

DoEncapsulate(u, n) ==
  /\ rec[u] # NoFriend
  /\ \E secret \in PqcEncapsulate(u, n) : UpdateSharedSecret(u, "secret", secret, NoFriend)
  /\ UNCHANGED own
  /\ UnchangedButWork

\* Without PQC keys of his own the user gets some now: what they decapsulate is worthless.
PqcDecapsulate(u, n) == IF own[u].pqc = 0 THEN KemSecret(0) ELSE KemSecret(n)

DoDecapsulate(u, n) ==
  /\ UpdateSharedSecret(u, "secret", PqcDecapsulate(u, n), NoFriend)
  /\ own' = [own EXCEPT ![u].pqc = 1]
  /\ UnchangedButWork

\* One public key is replaced, the others are kept.
UpdateFriendPubKeys(u, f, key) ==
  /\ Begin(u, "pubkeys", [g \in {f} |-> key])
  /\ UNCHANGED own
  /\ UnchangedButWork

DoUpdateRsa(u) == \E key \in Offered(Peer(u), "pem") : UpdateFriendPubKeys(u, "pem", key)
DoUpdateEcdh(u) == \E key \in Offered(Peer(u), "x") : UpdateFriendPubKeys(u, "x", key)
DoUpdatePqc(u) == \E key \in Offered(Peer(u), "pqc") : UpdateFriendPubKeys(u, "pqc", key)
DoUpdateHsig(u) == \E key \in Offered(Peer(u), "sig") : UpdateFriendPubKeys(u, "sig", key)
DoImportPqcKey(u) == \E key \in Offered(Peer(u), "pqc") : UpdateFriendPubKeys(u, "pqc", key)

ImportFriendHybridSigPub(u, key) ==
  /\ Begin(u, "importSig", [sig |-> key])
  /\ UNCHANGED own
  /\ UnchangedButWork

DoImport(u) == \E key \in Offered(Peer(u), "sig") : ImportFriendHybridSigPub(u, key)

\* A delegate updates a key of the user who granted him a delegation certificate.
DelegatedSave(u, f, key) ==
  /\ Begin(u, "delegated", [g \in {f} |-> key])
  /\ UNCHANGED own
  /\ UnchangedButWork

UpdateDelegatorPubKey(u, key) == DelegatedSave(u, "sig", key)
UpdateDelegatorX25519Key(u, key) == DelegatedSave(u, "x", key)
UpdateDelegatorPem(u, key) == DelegatedSave(u, "pem", key)
UpdateDelegatorPqcKey(u, key) == DelegatedSave(u, "pqc", key)

DoUpdateDelegatorKey(u) == \E key \in Offered(Peer(u), "sig") : UpdateDelegatorPubKey(u, key)
DoUpdateX25519(u) == \E key \in Offered(Peer(u), "x") : UpdateDelegatorX25519Key(u, key)
DoUpdatePem(u) == \E key \in Offered(Peer(u), "pem") : UpdateDelegatorPem(u, key)
DoUpdateDelegatorPqc(u) == \E key \in Offered(Peer(u), "pqc") : UpdateDelegatorPqcKey(u, key)

\* The session is stored first, then the capability with the rest of the record.
InitRatchet(u, role) ==
  /\ Begin(u, "init", [caps |-> 1])
  /\ session' = IF row[u] = NoFriend THEN session
                ELSE [session EXCEPT ![u] = [role |-> role, secret |-> rec[u]["secret"],
                                             x |-> rec[u]["x"], ecdh |-> rec[u]["ecdh"]]]
  /\ advert' = [advert EXCEPT ![u] = FALSE]
  /\ UNCHANGED <<bound, own, row, rec, stored, excused>>

InitRatchetDialog(u, role) ==
  /\ rec[u] # NoFriend
  /\ GetFriendDetails(u).secret /\ GetFriendDetails(u).ecdh
  /\ InitRatchet(u, role)

\* Mutant of ResetRatchet: the capability is kept.
ResetKeepsCaps(u) ==
  /\ Begin(u, "reset", NoFriend)
  /\ session' = [session EXCEPT ![u] = NoSession]
  /\ UNCHANGED <<bound, own, row, rec, stored, excused, advert>>

\* The session is deleted first, then the capability is withdrawn.
ResetRatchet(u) ==
  /\ Begin(u, "reset", [caps |-> 0])
  /\ session' = [session EXCEPT ![u] = NoSession]
  /\ UNCHANGED <<bound, own, row, rec, stored, excused, advert>>

ResetRatchetDialog(u) == session[u] # NoSession /\ ResetRatchet(u)

-----------------------------------------------------------------------------
(* A user's own keys *)

Own(u, op, keys) ==
  /\ May(u, op)
  /\ Counted(u)
  /\ own' = [own EXCEPT ![u] = keys]
  /\ UNCHANGED <<bound, row, rec, session, work, stored, excused, advert>>

\* The key in use becomes the legacy key, whatever was kept there; no screen offers it.
RotateRsa(u) == Own(u, "rotate", [own[u] EXCEPT !.rsa = @ + 1, !.legacy = own[u].rsa])

\* PQC keys are made once: the keys that are there are returned.
GeneratePqcKeys(u) == own[u].pqc = 0 /\ Own(u, "genPqc", [own[u] EXCEPT !.pqc = 1])

\* Signing keys are replaced each time.
GenerateHybridSigKeys(u) == Own(u, "genSig", [own[u] EXCEPT !.sig = @ + 1])

UpdateGlobalSecret(u, secret) ==
  /\ own[u].global # secret
  /\ Own(u, "global", [own[u] EXCEPT !.global = secret])

\* A secret that was pasted, or made in an exchange: of the other user, as it were.
ImportGlobal(u) == \E n \in {1, 2} : UpdateGlobalSecret(u, GlobalSecret(n))
StartEcdh(u) == \E e \in bound.exchange : UpdateGlobalSecret(u, PerformEcdh(e).secret)

-----------------------------------------------------------------------------
\* Loading the keys at an unlock stops at a PEM text that is not a key.
Loadable(u) == row[u] # NoFriend => row[u]["pem"] # 0

\* Lock and unlock when no update is in progress (KeyStore has the overlap).
Reload(u) ==
  /\ May(u, "reload")
  /\ work[u] = {}
  /\ Loadable(u)
  /\ Counted(u)
  /\ rec' = [rec EXCEPT ![u] = row[u]]
  /\ UNCHANGED <<bound, own, row, session, work, stored, excused, advert>>

\* A friend as he is after he was added with his public key alone.
JustAdded == [f \in Field |-> IF f = "pem" THEN 1 ELSE 0]

BookInit ==
  /\ bound \in Instance
  /\ own = [u \in User |-> [rsa |-> 1, legacy |-> 0, pqc |-> 0, sig |-> 0,
                            global |-> GlobalSecret(bound.global[u])]]
  /\ row = [u \in User |-> IF bound.added THEN JustAdded ELSE NoFriend]
  /\ rec = row
  /\ session = [u \in User |-> NoSession]
  /\ work = [u \in User |-> {}]
  /\ count = [u \in User |-> 0]
  /\ stored = [u \in User |-> IF bound.added THEN JustAdded ELSE Blank]
  /\ excused = [u \in User |-> {}]
  /\ advert = [u \in User |-> FALSE]

BookNext ==
  \E u \in User :
    \/ \E w \in work[u] : Commit(u, w) \/ Fail(u, w)
    \/ Save(u) \/ RemoveFriendDialog(u)
    \/ \E e \in bound.exchange : EcdhWithSelected(u, e)
    \/ \E n \in bound.kem : DoEncapsulate(u, n) \/ DoDecapsulate(u, n)
    \/ DoUpdateRsa(u) \/ DoUpdateEcdh(u) \/ DoUpdatePqc(u) \/ DoUpdateHsig(u)
    \/ DoImportPqcKey(u) \/ DoImport(u)
    \/ DoUpdateDelegatorKey(u) \/ DoUpdateX25519(u) \/ DoUpdatePem(u) \/ DoUpdateDelegatorPqc(u)
    \/ \E role \in {"alice", "bob"} : InitRatchetDialog(u, role)
    \/ ResetRatchetDialog(u)
    \/ RotateRsa(u) \/ GeneratePqcKeys(u) \/ GenerateHybridSigKeys(u)
    \/ ImportGlobal(u) \/ StartEcdh(u)

-----------------------------------------------------------------------------
(* What is stored stays: a field differs from what the user last stored in *)
(* it only when an operation left it out (starting or resetting a ratchet   *)
(* forgets the friend's PQC and signing keys, importing a signing key and a *)
(* delegated update forget the X25519 private key), when two updates        *)
(* overlapped, or after a friend was saved with a text that is no key: only *)
(* then do memory and row differ.                                           *)
LossHasACause ==
  \A u \in User :
    /\ row[u] # NoFriend => \A f \in Field : row[u][f] = stored[u][f] \/ f \in excused[u]
    /\ row[u] # rec[u] => row[u] # NoFriend /\ row[u]["pem"] = 0

(* A ratchet capability without a session makes every message to that friend *)
(* fail.  It comes about only when the capability was ticked by hand, while *)
(* a reset is under way, when the write of a reset failed, or when updates  *)
(* overlapped.                                                              *)
AdvertisedRatchetExists ==
  \A u \in User :
    rec[u] # NoFriend /\ rec[u]["caps"] = 1 /\ session[u] = NoSession
      => advert[u] \/ \E w \in work[u] : w.op = "reset"
=============================================================================

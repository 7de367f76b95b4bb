--------------------------- MODULE Messaging_proof ---------------------------
(***************************************************************************)
(* Proofs about FriendBook and Messaging for any number of operations, any *)
(* exchanges, secrets, lags, lifetimes and windows.                        *)
(*                                                                         *)
(* What is known of one user's record of his friend is FriendOK.  The      *)
(* updates in progress are part of it: an update whose record has not been *)
(* overwritten (it is not stale) still knows what the user last stored, so *)
(* writing everything back loses nothing but what the update leaves out.   *)
(***************************************************************************)
EXTENDS Messaging, FiniteSetTheorems, TLAPS

Record == [Field -> Nat]

\* An update in progress: what it read and what it will write.
ItemOK(w) ==
  /\ DOMAIN w = {"op", "id", "new", "seen", "stale"}
  /\ w.stale \in BOOLEAN
  /\ w.seen \in Record
  /\ DOMAIN w.new \subseteq Field
  /\ \A f \in DOMAIN w.new : w.new[f] \in Nat
  /\ "pem" \in DOMAIN w.new => w.new["pem"] # 0
  /\ w.op # "delegated" => w.seen["pem"] # 0
  /\ w.op = "reset" => "caps" \in DOMAIN w.new /\ w.new["caps"] = 0

\* Types of what user u keeps; the record in memory always has a key.
Typed(u) ==
  /\ row[u] \in Record \cup {NoFriend}
  /\ rec[u] \in Record \cup {NoFriend}
  /\ rec[u] # NoFriend => rec[u]["pem"] # 0
  /\ stored[u] \in Record
  /\ excused[u] \subseteq Field
  /\ advert[u] \in BOOLEAN
  /\ \A w \in work[u] : ItemOK(w)

\* Row and memory differ only after a save that stopped halfway, which excuses every field.
Mirrored(u) ==
  /\ row[u] # rec[u] => row[u] # NoFriend /\ row[u]["pem"] = 0
  /\ row[u] # NoFriend /\ row[u]["pem"] = 0 => excused[u] = Field

\* The row, and every update that is not stale, knows what was stored, but for what is excused.
Kept(u) ==
  /\ row[u] # NoFriend => \A f \in Field : row[u][f] = stored[u][f] \/ f \in excused[u]
  /\ \A w \in work[u] : ~w.stale =>
       \A f \in Field : w.seen[f] = stored[u][f] \/ f \in excused[u]

\* A ratchet capability is backed by a session, or there is a reason why not.
Backs(u) == session[u] # NoSession \/ advert[u] \/ \E w \in work[u] : w.op = "reset"

\* Every capability there is, or is about to be written, is backed.
Backed(u) ==
  /\ rec[u] # NoFriend /\ rec[u]["caps"] = 1 => Backs(u)
  /\ row[u] # NoFriend /\ row[u]["caps"] = 1 => Backs(u)
  /\ \A w \in work[u] : ~w.stale /\ Written(w)["caps"] = 1 => Backs(u)

FriendOK(u) == Typed(u) /\ Mirrored(u) /\ Kept(u) /\ Backed(u)

\* A user's own keys; the legacy RSA key is the one before the key in use.
OwnOK(u) ==
  /\ own[u] \in [rsa : Nat \ {0}, legacy : Nat, pqc : Nat, sig : Nat, global : Nat]
  /\ own[u].legacy = own[u].rsa - 1

\* The functions of the state.
Shape ==
  /\ bound \in Instance
  /\ DOMAIN own = User /\ DOMAIN row = User /\ DOMAIN rec = User /\ DOMAIN session = User
  /\ DOMAIN work = User /\ DOMAIN stored = User /\ DOMAIN excused = User
  /\ DOMAIN advert = User

\* The inductive invariant of the records.
BookInv == Shape /\ (\A u \in User : OwnOK(u)) /\ (\A u \in User : FriendOK(u))

-----------------------------------------------------------------------------
(* The clock. *)

\* The clock in use is not ahead of the time, and one that the loop sets was set within the
\* last period of the loop.
ClockInv ==
  /\ time \in Nat
  /\ ntp \in [User -> Nat \cup {NoTime}]
  /\ due \in [User -> Nat]
  /\ fed \in [User -> BOOLEAN]
  /\ \A u \in User :
       /\ time <= due[u] /\ due[u] <= time + SyncPeriod
       /\ ntp[u] # NoTime => ntp[u] <= time
       /\ ntp[u] # NoTime /\ fed[u] => due[u] <= ntp[u] + SyncPeriod

\* A message was stamped with a clock that was not ahead.
SentInv ==
  \A m \in sent : m.kind \in {"rsa", "shared"} =>
    /\ m.from \in User
    /\ m.at \in Nat /\ m.stamp \in Int /\ m.lifetime \in Nat
    /\ m.stamp <= m.at

\* Files, and the secrets that were collected to open them.
FileInv ==
  /\ \A f \in files : /\ DOMAIN f = {"kind", "key"}
                      /\ f.kind \in {"password", "shared", "bare"}
                      /\ f.kind = "password" => f.key = "password"
  /\ DOMAIN cache = User /\ DOMAIN newer = User
  /\ \A u \in User : cache[u] # NotBuilt => Held(u) \subseteq cache[u] \cup newer[u]

IInv == BookInv /\ ClockInv /\ SentInv /\ FileInv

-----------------------------------------------------------------------------
(* Facts about records. *)

\* The removed record is none of the records.
LEMMA NoFriendIsNoRecord == NoFriend \notin Record
<1>1. DOMAIN NoFriend = {} /\ "pem" \in Field
  BY DEF NoFriend, Field
<1> QED
  BY <1>1 DEF Record

\* A user's friend is the other user.
LEMMA PeerIsUser == ASSUME NEW u \in User PROVE Peer(u) \in User /\ Peer(u) # u
<1>1. \E v \in User : v # u
  <2>1. SUFFICES ASSUME \A v \in User : v = u PROVE FALSE
    OBVIOUS
  <2>2. User = {u}
    BY <2>1
  <2>3. Cardinality({u}) = 1
    BY FS_Singleton
  <2> QED
    BY <2>2, <2>3, UserAssumption
<1> QED
  BY <1>1 DEF Peer

\* What an instance gives.
LEMMA BoundTypes ==
  ASSUME bound \in Instance
  PROVE  /\ bound.exchange \subseteq Nat \ {0} /\ bound.kem \subseteq Nat
         /\ bound.paste \subseteq Nat /\ bound.added \in BOOLEAN
         /\ bound.global \in [User -> Nat] /\ bound.lag \in [User -> Nat]
         /\ bound.time \in Nat /\ bound.lifetime \subseteq Nat
         /\ bound.mode \subseteq {"rsa", "shared", "pqc"}
  BY InstanceAssumption

\* What an update writes is a record, with the fields it was given.
LEMMA WrittenRecord ==
  ASSUME NEW w, ItemOK(w)
  PROVE  /\ Written(w) \in Record
         /\ \A f \in DOMAIN w.new : Written(w)[f] = w.new[f]
         /\ \A f \in Field \ DOMAIN w.new :
              Written(w)[f] = IF f \in Dropped(w.op) THEN 0 ELSE w.seen[f]
         /\ w.op # "delegated" => Written(w)["pem"] # 0
<1>1. Written(w) \in Record
  BY DEF Written, Record, ItemOK
<1>2. \A f \in DOMAIN w.new : Written(w)[f] = w.new[f]
  BY DEF Written, ItemOK
<1>3. \A f \in Field \ DOMAIN w.new :
        Written(w)[f] = IF f \in Dropped(w.op) THEN 0 ELSE w.seen[f]
  BY DEF Written
<1>4. "pem" \in Field /\ "pem" \notin Dropped(w.op)
  BY DEF Field, Dropped
<1>5. w.op # "delegated" => Written(w)["pem"] # 0
  BY <1>2, <1>3, <1>4 DEF ItemOK
<1> QED
  BY <1>1, <1>2, <1>3, <1>5

\* Marking an update stale changes nothing else about it.
LEMMA StaledItem ==
  ASSUME NEW w, ItemOK(w), NEW x, x = [w EXCEPT !.stale = TRUE]
  PROVE  ItemOK(x) /\ x.stale /\ x.op = w.op
  BY DEF ItemOK

\* Updates that are all stale are of the kinds they were.
LEMMA StaledSet ==
  ASSUME NEW S, \A w \in S : ItemOK(w)
  PROVE  /\ \A x \in Staled(S) : ItemOK(x) /\ x.stale
         /\ (\E w \in S : w.op = "reset") => \E x \in Staled(S) : x.op = "reset"
<1>1. \A x \in Staled(S) : \E w \in S : x = [w EXCEPT !.stale = TRUE]
  BY DEF Staled
<1>2. \A w \in S : [w EXCEPT !.stale = TRUE] \in Staled(S)
  BY DEF Staled
<1> QED
  BY <1>1, <1>2, StaledItem

\* What an update that begins now reads.
LEMMA SeenOK ==
  ASSUME NEW u \in User, FriendOK(u), rec[u] # NoFriend, NEW op
  PROVE  /\ Seen(u, op) \in Record
         /\ op # "delegated" => Seen(u, op)["pem"] # 0
         /\ \A f \in Field : Seen(u, op)[f] = stored[u][f] \/ f \in excused[u]
         /\ Seen(u, op)["caps"] = 1 => Backs(u)
<1>1. rec[u] \in Record /\ row[u] \in Record /\ row[u] # NoFriend
  BY NoFriendIsNoRecord DEF FriendOK, Typed, Mirrored
<1>2. \A f \in Field : rec[u][f] = stored[u][f] \/ f \in excused[u]
  BY <1>1 DEF FriendOK, Kept, Mirrored
<1>3. \A f \in Field : row[u][f] = stored[u][f] \/ f \in excused[u]
  BY <1>1 DEF FriendOK, Kept
<1>4. (rec[u]["caps"] = 1 => Backs(u)) /\ (row[u]["caps"] = 1 => Backs(u))
  BY <1>1 DEF FriendOK, Backed
<1>5. rec[u]["pem"] # 0 /\ "caps" \in Field
  BY DEF FriendOK, Typed, Field
<1>6. CASE op = "delegated"
  <2>1. Seen(u, op) = [f \in Field |-> IF f \in {"pem", "x", "caps", "pqc"} THEN row[u][f]
                                       ELSE rec[u][f]]
    BY <1>1, <1>6 DEF Seen, GetFriendExistingKeys
  <2>2. \A f \in Field : Seen(u, op)[f] = row[u][f] \/ Seen(u, op)[f] = rec[u][f]
    BY <2>1
  <2>3. Seen(u, op) \in Record
    BY <1>1, <2>1 DEF Record
  <2> QED
    BY <1>2, <1>3, <1>4, <1>5, <1>6, <2>2, <2>3
<1>7. CASE op # "delegated"
  <2>1. Seen(u, op) = rec[u]
    BY <1>7 DEF Seen, GetFriendExistingKeys
  <2> QED
    BY <2>1, <1>1, <1>2, <1>4, <1>5
<1> QED
  BY <1>6, <1>7

\* The record of a user whose variables do not change stays in order.
LEMMA FriendKept ==
  ASSUME NEW q \in User, FriendOK(q), row'[q] = row[q], rec'[q] = rec[q],
         session'[q] = session[q], work'[q] = work[q], stored'[q] = stored[q],
         excused'[q] = excused[q], advert'[q] = advert[q]
  PROVE  FriendOK(q)'
  BY DEF FriendOK, Typed, Mirrored, Kept, Backed, Backs

\* A record whose variables but for the updates, the session and the history of the
\* capability stay, and what holds of an update that joins the others.
LEMMA JoinOK ==
  ASSUME NEW u \in User, FriendOK(u), NEW x, ItemOK(x),
         \A f \in Field : x.seen[f] = stored[u][f] \/ f \in excused[u],
         row'[u] = row[u], rec'[u] = rec[u], stored'[u] = stored[u], excused'[u] = excused[u],
         work'[u] = work[u] \cup {x}, advert'[u] \in BOOLEAN,
         Backs(u) \/ Written(x)["caps"] = 1 => Backs(u)'
  PROVE  FriendOK(u)'
<1>1. Typed(u)'
  BY DEF FriendOK, Typed
<1>2. Mirrored(u)'
  BY DEF FriendOK, Mirrored
<1>3. Kept(u)'
  BY DEF FriendOK, Kept
<1>4. Backed(u)'
  <2>1. \A w \in work'[u] : ~w.stale /\ Written(w)["caps"] = 1 => Backs(u)'
    BY DEF FriendOK, Backed
  <2>2. /\ rec'[u] # NoFriend /\ rec'[u]["caps"] = 1 => Backs(u)'
        /\ row'[u] # NoFriend /\ row'[u]["caps"] = 1 => Backs(u)'
    BY DEF FriendOK, Backed
  <2> QED
    BY <2>1, <2>2 DEF Backed
<1> QED
  BY <1>1, <1>2, <1>3, <1>4 DEF FriendOK

\* The fields and values an update may be given.
NewOK(new) ==
  /\ DOMAIN new \subseteq Field
  /\ \A f \in DOMAIN new : new[f] \in Nat
  /\ "pem" \in DOMAIN new => new["pem"] # 0

\* Beginning an update: the item that joins.
LEMMA BeginItem ==
  ASSUME NEW u \in User, Shape, FriendOK(u), NEW op, NEW new, NewOK(new),
         op = "reset" => "caps" \in DOMAIN new /\ new["caps"] = 0,
         Begin(u, op, new)
  PROVE  \E x : /\ ItemOK(x)
                /\ x.op = op
                /\ \A f \in Field : x.seen[f] = stored[u][f] \/ f \in excused[u]
                /\ work'[u] = work[u] \cup {x}
                /\ \A q \in User : q # u => work'[q] = work[q]
                /\ "caps" \notin DOMAIN new /\ Written(x)["caps"] = 1 => Backs(u)
<1> DEFINE x == [op |-> op, id |-> count[u], new |-> new, seen |-> Seen(u, op), stale |-> FALSE]
<1>1. rec[u] # NoFriend /\ work' = [work EXCEPT ![u] = @ \cup {x}]
  BY DEF Begin
<1>2. /\ Seen(u, op) \in Record
      /\ op # "delegated" => Seen(u, op)["pem"] # 0
      /\ \A f \in Field : Seen(u, op)[f] = stored[u][f] \/ f \in excused[u]
      /\ Seen(u, op)["caps"] = 1 => Backs(u)
  BY <1>1, SeenOK
<1>3. /\ DOMAIN x = {"op", "id", "new", "seen", "stale"}
      /\ x.op = op /\ x.new = new /\ x.seen = Seen(u, op) /\ x.stale = FALSE
  OBVIOUS
<1> HIDE DEF x
<1>4. ItemOK(x)
  BY <1>2, <1>3 DEF ItemOK, NewOK
<1>5. "caps" \notin DOMAIN new /\ Written(x)["caps"] = 1 => Backs(u)
  <2>1. "caps" \in Field
    BY DEF Field
  <2> QED
    BY <1>2, <1>3, <1>4, <2>1, WrittenRecord
<1>6. work'[u] = work[u] \cup {x} /\ \A q \in User : q # u => work'[q] = work[q]
  BY <1>1 DEF Shape
<1> QED
  BY <1>2, <1>3, <1>4, <1>5, <1>6

-----------------------------------------------------------------------------
(* The operations. *)

\* An update of anything but the ratchet capability begins.
LEMMA UpdateOK ==
  ASSUME BookInv, NEW u \in User, NEW op, NEW new, NewOK(new), "caps" \notin DOMAIN new,
         op # "reset", Begin(u, op, new), UnchangedButWork,
         DOMAIN own' = User, \A q \in User : OwnOK(q)'
  PROVE  BookInv'
<1>a. Shape /\ \A q \in User : FriendOK(q)
  BY DEF BookInv
<1>1. Shape'
  BY <1>a DEF Shape, Begin, UnchangedButWork
<1>2. PICK x : /\ ItemOK(x)
               /\ \A f \in Field : x.seen[f] = stored[u][f] \/ f \in excused[u]
               /\ work'[u] = work[u] \cup {x}
               /\ \A q \in User : q # u => work'[q] = work[q]
               /\ Written(x)["caps"] = 1 => Backs(u)
  BY <1>a, BeginItem
<1>3. FriendOK(u)'
  <2>1. Backs(u) => Backs(u)'
    BY <1>2 DEF Backs, UnchangedButWork
  <2>2. advert'[u] \in BOOLEAN
    BY <1>a DEF FriendOK, Typed, UnchangedButWork
  <2> QED
    BY <1>a, <1>2, <2>1, <2>2, JoinOK DEF UnchangedButWork
<1>4. \A q \in User : q # u => FriendOK(q)'
  BY <1>a, <1>2, FriendKept DEF UnchangedButWork
<1> QED
  BY <1>1, <1>3, <1>4 DEF BookInv

\* A user's own keys that stay.
LEMMA OwnKept ==
  ASSUME BookInv, own' = own
  PROVE  DOMAIN own' = User /\ \A q \in User : OwnOK(q)'
  BY DEF BookInv, Shape, OwnOK

\* A key that the friend has to give is a key.
LEMMA OfferedOK ==
  ASSUME BookInv, NEW u \in User, NEW f \in {"pem", "x", "pqc", "sig"},
         NEW key \in Offered(Peer(u), f)
  PROVE  NewOK([g \in {f} |-> key]) /\ "caps" \notin DOMAIN [g \in {f} |-> key]
<1>1. OwnOK(Peer(u))
  BY PeerIsUser DEF BookInv
<1>2. bound.exchange \subseteq Nat \ {0}
  BY BoundTypes DEF BookInv, Shape
<1>3. key \in Nat /\ key # 0
  BY <1>1, <1>2 DEF Offered, OwnOK
<1> QED
  BY <1>3 DEF NewOK, Field

\* The result of an X25519 exchange is stored.
LEMMA EcdhOK ==
  ASSUME BookInv, NEW u \in User, NEW e \in bound.exchange, EcdhWithSelected(u, e)
  PROVE  BookInv'
<1> DEFINE keys == [x |-> e, ecdh |-> e]
           new == [f \in {"secret"} \cup DOMAIN keys |-> IF f = "secret" THEN e ELSE keys[f]]
<1>1. Begin(u, "ecdh", new) /\ own' = own /\ UnchangedButWork
  BY DEF EcdhWithSelected, UpdateSharedSecret, PerformEcdh
<1>2. e \in Nat
  BY BoundTypes DEF BookInv, Shape
<1>3. DOMAIN keys = {"x", "ecdh"} /\ keys["x"] = e /\ keys["ecdh"] = e
  OBVIOUS
<1>4. /\ DOMAIN new = {"secret", "x", "ecdh"}
      /\ \A f \in DOMAIN new : new[f] = e
  BY <1>3
<1> HIDE DEF new
<1>5. NewOK(new) /\ "caps" \notin DOMAIN new
  BY <1>2, <1>4 DEF NewOK, Field
<1> QED
  BY <1>1, <1>5, OwnKept, UpdateOK

\* A secret alone is stored.
LEMMA SecretOK ==
  ASSUME BookInv, NEW u \in User, NEW secret \in Nat, UpdateSharedSecret(u, "secret", secret, NoFriend),
         UnchangedButWork, DOMAIN own' = User, \A q \in User : OwnOK(q)'
  PROVE  BookInv'
<1> DEFINE new == [f \in {"secret"} \cup DOMAIN NoFriend |->
                     IF f = "secret" THEN secret ELSE NoFriend[f]]
<1>1. Begin(u, "secret", new)
  BY DEF UpdateSharedSecret
<1>2. DOMAIN new = {"secret"} /\ new["secret"] = secret
  BY DEF NoFriend
<1> HIDE DEF new
<1>3. NewOK(new) /\ "caps" \notin DOMAIN new
  BY <1>2 DEF NewOK, Field
<1> QED
  BY <1>1, <1>3, UpdateOK

LEMMA EncapsulateOK ==
  ASSUME BookInv, NEW u \in User, NEW n \in bound.kem, DoEncapsulate(u, n)
  PROVE  BookInv'
<1>1. PICK secret \in PqcEncapsulate(u, n) : UpdateSharedSecret(u, "secret", secret, NoFriend)
  BY DEF DoEncapsulate
<1>2. n \in Nat
  BY BoundTypes DEF BookInv, Shape
<1>3. secret \in Nat
  BY <1>2 DEF PqcEncapsulate, KemSecret
<1>4. own' = own /\ UnchangedButWork
  BY DEF DoEncapsulate
<1> QED
  BY <1>1, <1>3, <1>4, OwnKept, SecretOK

LEMMA DecapsulateOK ==
  ASSUME BookInv, NEW u \in User, NEW n \in bound.kem, DoDecapsulate(u, n)
  PROVE  BookInv'
<1>1. /\ UpdateSharedSecret(u, "secret", PqcDecapsulate(u, n), NoFriend)
      /\ own' = [own EXCEPT ![u].pqc = 1] /\ UnchangedButWork
  BY DEF DoDecapsulate
<1>2. n \in Nat
  BY BoundTypes DEF BookInv, Shape
<1>3. PqcDecapsulate(u, n) \in Nat
  BY <1>2 DEF PqcDecapsulate, KemSecret
<1>4. DOMAIN own' = User /\ \A q \in User : OwnOK(q)'
  BY <1>1 DEF BookInv, Shape, OwnOK
<1> QED
  BY <1>1, <1>3, <1>4, SecretOK

\* One public key is replaced.
LEMMA PubKeyOK ==
  ASSUME BookInv, NEW u \in User, NEW op \in {"pubkeys", "importSig", "delegated"},
         NEW f \in {"pem", "x", "pqc", "sig"}, NEW key \in Offered(Peer(u), f),
         Begin(u, op, [g \in {f} |-> key]), own' = own, UnchangedButWork
  PROVE  BookInv'
<1> DEFINE new == [g \in {f} |-> key]
<1>1. NewOK(new) /\ "caps" \notin DOMAIN new /\ Begin(u, op, new)
  BY OfferedOK
<1> HIDE DEF new
<1> QED
  BY <1>1, OwnKept, UpdateOK

\* The dialogs that replace one public key.
LEMMA PubKeysOK ==
  ASSUME BookInv, NEW u \in User,
         \/ DoUpdateRsa(u) \/ DoUpdateEcdh(u) \/ DoUpdatePqc(u) \/ DoUpdateHsig(u)
         \/ DoImportPqcKey(u)
  PROVE  BookInv'
<1>1. PICK f \in {"pem", "x", "pqc", "sig"}, key \in UNION {Offered(Peer(u), g) :
             g \in {"pem", "x", "pqc", "sig"}} :
        key \in Offered(Peer(u), f) /\ UpdateFriendPubKeys(u, f, key)
  BY DEF DoUpdateRsa, DoUpdateEcdh, DoUpdatePqc, DoUpdateHsig, DoImportPqcKey
<1>2. Begin(u, "pubkeys", [g \in {f} |-> key]) /\ own' = own /\ UnchangedButWork
  BY <1>1 DEF UpdateFriendPubKeys
<1> QED
  BY <1>1, <1>2, PubKeyOK

LEMMA ImportSigOK ==
  ASSUME BookInv, NEW u \in User, DoImport(u)
  PROVE  BookInv'
<1>1. PICK key \in Offered(Peer(u), "sig") : ImportFriendHybridSigPub(u, key)
  BY DEF DoImport
<1>2. [sig |-> key] = [g \in {"sig"} |-> key]
  OBVIOUS
<1>3. Begin(u, "importSig", [g \in {"sig"} |-> key]) /\ own' = own /\ UnchangedButWork
  BY <1>1, <1>2 DEF ImportFriendHybridSigPub
<1> QED
  BY <1>1, <1>3, PubKeyOK

\* The updates by a delegate.
LEMMA DelegatedOK ==
  ASSUME BookInv, NEW u \in User,
         DoUpdateDelegatorKey(u) \/ DoUpdateX25519(u) \/ DoUpdatePem(u) \/ DoUpdateDelegatorPqc(u)
  PROVE  BookInv'
<1>1. PICK f \in {"pem", "x", "pqc", "sig"}, key \in UNION {Offered(Peer(u), g) :
             g \in {"pem", "x", "pqc", "sig"}} :
        key \in Offered(Peer(u), f) /\ DelegatedSave(u, f, key)
  BY DEF DoUpdateDelegatorKey, DoUpdateX25519, DoUpdatePem, DoUpdateDelegatorPqc,
     UpdateDelegatorPubKey, UpdateDelegatorX25519Key, UpdateDelegatorPem, UpdateDelegatorPqcKey
<1>2. Begin(u, "delegated", [g \in {f} |-> key]) /\ own' = own /\ UnchangedButWork
  BY <1>1 DEF DelegatedSave
<1> QED
  BY <1>1, <1>2, PubKeyOK

\* A ratchet is started: the session is there before the capability is.
LEMMA InitRatchetOK ==
  ASSUME BookInv, NEW u \in User, NEW role \in {"alice", "bob"}, InitRatchetDialog(u, role)
  PROVE  BookInv'
<1> DEFINE new == [caps |-> 1]
<1>a. Shape /\ \A q \in User : FriendOK(q)
  BY DEF BookInv
<1>b. /\ Begin(u, "init", new) /\ rec[u] # NoFriend
      /\ session' = IF row[u] = NoFriend THEN session
                    ELSE [session EXCEPT ![u] = [role |-> role, secret |-> rec[u]["secret"],
                                                 x |-> rec[u]["x"], ecdh |-> rec[u]["ecdh"]]]
      /\ advert' = [advert EXCEPT ![u] = FALSE]
      /\ UNCHANGED <<bound, own, row, rec, stored, excused>>
  BY DEF InitRatchetDialog, InitRatchet
<1>c. row[u] # NoFriend
  BY <1>a, <1>b DEF FriendOK, Mirrored
<1>d. session'[u].role = role /\ \A q \in User : q # u => session'[q] = session[q]
  BY <1>a, <1>b, <1>c DEF Shape
<1>e. session'[u] # NoSession
  BY <1>d DEF NoSession
<1>f. NewOK(new)
  BY DEF NewOK, Field
<1>1. Shape'
  BY <1>a, <1>b DEF Shape, Begin
<1>2. PICK x : /\ ItemOK(x)
               /\ \A f \in Field : x.seen[f] = stored[u][f] \/ f \in excused[u]
               /\ work'[u] = work[u] \cup {x}
               /\ \A q \in User : q # u => work'[q] = work[q]
  BY <1>a, <1>b, <1>f, BeginItem
<1>3. FriendOK(u)'
  <2>1. Backs(u)'
    BY <1>e DEF Backs
  <2>2. advert'[u] \in BOOLEAN
    BY <1>a, <1>b DEF Shape
  <2> QED
    BY <1>a, <1>b, <1>2, <2>1, <2>2, JoinOK
<1>4. \A q \in User : q # u => FriendOK(q)'
  BY <1>a, <1>b, <1>d, <1>2, FriendKept DEF Shape
<1> QED
  BY <1>1, <1>3, <1>4, <1>b, OwnKept DEF BookInv

\* A ratchet is reset: the update that withdraws the capability is under way.
LEMMA ResetRatchetOK ==
  ASSUME BookInv, NEW u \in User, ResetRatchetDialog(u)
  PROVE  BookInv'
<1> DEFINE new == [caps |-> 0]
<1>a. Shape /\ \A q \in User : FriendOK(q)
  BY DEF BookInv
<1>b. /\ Begin(u, "reset", new)
      /\ session' = [session EXCEPT ![u] = NoSession]
      /\ UNCHANGED <<bound, own, row, rec, stored, excused, advert>>
  BY DEF ResetRatchetDialog, ResetRatchet
<1>c. NewOK(new) /\ "caps" \in DOMAIN new /\ new["caps"] = 0
  BY DEF NewOK, Field
<1>d. \A q \in User : q # u => session'[q] = session[q]
  BY <1>a, <1>b DEF Shape
<1>1. Shape'
  BY <1>a, <1>b DEF Shape, Begin
<1> HIDE DEF new
<1>2. PICK x : /\ ItemOK(x) /\ x.op = "reset"
               /\ \A f \in Field : x.seen[f] = stored[u][f] \/ f \in excused[u]
               /\ work'[u] = work[u] \cup {x}
               /\ \A q \in User : q # u => work'[q] = work[q]
  BY <1>a, <1>b, <1>c, BeginItem
<1>3. FriendOK(u)'
  <2>1. Backs(u)'
    BY <1>2 DEF Backs
  <2>2. advert'[u] \in BOOLEAN
    BY <1>a, <1>b DEF FriendOK, Typed
  <2> QED
    BY <1>a, <1>b, <1>2, <2>1, <2>2, JoinOK
<1>4. \A q \in User : q # u => FriendOK(q)'
  BY <1>a, <1>b, <1>d, <1>2, FriendKept
<1> QED
  BY <1>1, <1>3, <1>4, <1>b, OwnKept DEF BookInv

-----------------------------------------------------------------------------
\* An update writes its record.
LEMMA CommitOK ==
  ASSUME BookInv, NEW u \in User, NEW w \in work[u], Commit(u, w)
  PROVE  BookInv'
<1> DEFINE W == Written(w)
           R == work[u] \ {w}
<1>a. Shape /\ (\A q \in User : FriendOK(q)) /\ ItemOK(w) /\ \A y \in R : ItemOK(y)
  BY DEF BookInv, FriendOK, Typed
<1>b. /\ W \in Record
      /\ \A f \in DOMAIN w.new : W[f] = w.new[f]
      /\ \A f \in Field \ DOMAIN w.new : W[f] = IF f \in Dropped(w.op) THEN 0 ELSE w.seen[f]
      /\ w.op # "delegated" => W["pem"] # 0
  BY <1>a, WrittenRecord
<1>c. W # NoFriend
  BY <1>b, NoFriendIsNoRecord
<1>d. "pem" \in Field /\ "caps" \in Field /\ DOMAIN w.new \subseteq Field /\ w.stale \in BOOLEAN
      /\ (\A f \in DOMAIN w.new : w.new[f] \in Nat)
      /\ (w.op = "reset" => "caps" \in DOMAIN w.new /\ w.new["caps"] = 0)
  BY <1>a DEF Field, ItemOK
<1>1. /\ row'[u] = W
      /\ rec'[u] = IF W["pem"] = 0 THEN rec[u] ELSE W
      /\ work'[u] = Staled(R)
      /\ stored'[u] = [f \in Field |-> IF f \in DOMAIN w.new THEN w.new[f] ELSE stored[u][f]]
      /\ advert'[u] = (advert[u] \/ w.stale)
      /\ session' = session /\ bound' = bound /\ own' = own
  BY <1>a DEF Commit, SaveFriend, Shape
<1>2. excused'[u] = IF W["pem"] = 0 THEN Field
                    ELSE IF w.stale THEN Field \ DOMAIN w.new
                    ELSE (excused[u] \cup
                           (CASE w.op \in {"init", "reset"} -> {"pqc", "sig"}
                              [] w.op \in {"importSig", "delegated"} -> {"ecdh"}
                              [] OTHER -> {})) \ DOMAIN w.new
  BY <1>a DEF Commit, Shape
<1>3. \A q \in User : q # u =>
        /\ row'[q] = row[q] /\ rec'[q] = rec[q] /\ session'[q] = session[q]
        /\ work'[q] = work[q] /\ stored'[q] = stored[q]
        /\ excused'[q] = excused[q] /\ advert'[q] = advert[q]
  BY <1>a DEF Commit, SaveFriend, Shape
<1>4. Shape'
  BY <1>a DEF Commit, SaveFriend, Shape
<1>5. /\ \A y \in Staled(R) : ItemOK(y) /\ y.stale
      /\ (\E y \in R : y.op = "reset") => \E y \in Staled(R) : y.op = "reset"
  BY <1>a, StaledSet
<1> HIDE DEF W, R
<1>e. excused[u] \subseteq Field /\ stored[u] \in Record /\ advert[u] \in BOOLEAN
      /\ rec[u] \in Record \cup {NoFriend} /\ (rec[u] # NoFriend => rec[u]["pem"] # 0)
  BY <1>a DEF FriendOK, Typed
\* The fields that differ are excused: split by the reasons.
<1>6. /\ excused'[u] \subseteq Field
      /\ W["pem"] = 0 => excused'[u] = Field
      /\ \A f \in Field \ DOMAIN w.new :
           f \in excused'[u] \/ (~w.stale /\ f \notin excused[u] /\ f \notin Dropped(w.op))
  <2>1. {"pqc", "sig", "ecdh"} \subseteq Field
    BY DEF Field
  <2>2. CASE W["pem"] = 0
    BY <2>2, <1>2
  <2>3. CASE W["pem"] # 0 /\ w.stale
    <3>1. excused'[u] = Field \ DOMAIN w.new
      BY <2>3, <1>2
    <3> QED
      BY <2>3, <3>1
  <2>4. CASE W["pem"] # 0 /\ ~w.stale /\ w.op \in {"init", "reset"}
    <3>1. excused'[u] = (excused[u] \cup {"pqc", "sig"}) \ DOMAIN w.new
      BY <2>4, <1>2
    <3>2. Dropped(w.op) = {"pqc", "sig"}
      BY <2>4 DEF Dropped
    <3> QED
      BY <2>1, <2>4, <3>1, <3>2, <1>e
  <2>5. CASE W["pem"] # 0 /\ ~w.stale /\ w.op \in {"importSig", "delegated"}
    <3>1. excused'[u] = (excused[u] \cup {"ecdh"}) \ DOMAIN w.new
      BY <2>5, <1>2
    <3>2. Dropped(w.op) = {"ecdh"}
      BY <2>5 DEF Dropped
    <3> QED
      BY <2>1, <2>5, <3>1, <3>2, <1>e
  <2>6. CASE /\ W["pem"] # 0 /\ ~w.stale
             /\ w.op \notin {"init", "reset"} /\ w.op \notin {"importSig", "delegated"}
    <3>1. excused'[u] = excused[u] \ DOMAIN w.new
      BY <2>6, <1>2
    <3>2. Dropped(w.op) = {}
      BY <2>6 DEF Dropped
    <3> QED
      BY <2>6, <3>1, <3>2, <1>e
  <2> QED
    BY <2>2, <2>3, <2>4, <2>5, <2>6
<1>7. Typed(u)'
  <2>1. stored'[u] \in Record
    BY <1>1, <1>d, <1>e DEF Record
  <2> QED
    BY <2>1, <1>1, <1>5, <1>6, <1>b, <1>c, <1>d, <1>e DEF Typed
<1>8. Mirrored(u)'
  BY <1>1, <1>6, <1>c DEF Mirrored
<1>9. Kept(u)'
  <2>1. ASSUME NEW f \in Field PROVE W[f] = stored'[u][f] \/ f \in excused'[u]
    <3>1. CASE f \in DOMAIN w.new
      BY <3>1, <1>1, <1>b
    <3>2. CASE f \notin DOMAIN w.new /\ f \notin excused'[u]
      <4>1. ~w.stale /\ f \notin excused[u] /\ f \notin Dropped(w.op)
        BY <3>2, <1>6
      <4>2. W[f] = w.seen[f] /\ stored'[u][f] = stored[u][f]
        BY <3>2, <4>1, <1>1, <1>b
      <4>3. w.seen[f] = stored[u][f] \/ f \in excused[u]
        BY <4>1, <1>a DEF FriendOK, Kept
      <4> QED
        BY <4>1, <4>2, <4>3
    <3> QED
      BY <3>1, <3>2
  <2> QED
    BY <2>1, <1>1, <1>5 DEF Kept
<1>10. Backed(u)'
  <2>1. w.op = "reset" => W["caps"] = 0 /\ W["pem"] # 0
    BY <1>b, <1>d
  <2>2. w.op # "reset" /\ Backs(u) => Backs(u)'
    <3>1. (\E y \in work[u] : y.op = "reset") /\ w.op # "reset" => \E y \in R : y.op = "reset"
      BY DEF R
    <3> QED
      BY <3>1, <1>1, <1>5, <1>e DEF Backs
  <2>3. W["caps"] = 1 => Backs(u)'
    <3>1. CASE w.stale
      BY <3>1, <1>1 DEF Backs
    <3>2. CASE ~w.stale
      BY <3>2, <2>1, <2>2, <1>a DEF FriendOK, Backed, W
    <3> QED
      BY <3>1, <3>2
  <2>4. rec[u] # NoFriend /\ rec[u]["caps"] = 1 => Backs(u)
    BY <1>a DEF FriendOK, Backed
  <2> QED
    BY <2>1, <2>2, <2>3, <2>4, <1>1, <1>5 DEF Backed
<1>11. \A q \in User : q # u => FriendOK(q)'
  BY <1>a, <1>3, FriendKept
<1> QED
  BY <1>1, <1>4, <1>7, <1>8, <1>9, <1>10, <1>11, OwnKept DEF BookInv, FriendOK

\* The database refuses the write of an update.
LEMMA FailOK ==
  ASSUME BookInv, NEW u \in User, NEW w \in work[u], Fail(u, w)
  PROVE  BookInv'
<1>a. Shape /\ (\A q \in User : FriendOK(q)) /\ advert[u] \in BOOLEAN
  BY DEF BookInv, FriendOK, Typed
<1>b. /\ work'[u] = work[u] \ {w} /\ advert'[u] = (advert[u] \/ w.op = "reset")
      /\ UNCHANGED <<bound, own, row, rec, session, stored, excused>>
      /\ \A q \in User : q # u => work'[q] = work[q] /\ advert'[q] = advert[q]
  BY <1>a DEF Fail, Shape
<1>1. Shape'
  BY <1>a DEF Fail, Shape
<1>2. Backs(u) => Backs(u)'
  BY <1>a, <1>b DEF Backs
<1>3. Typed(u)' /\ Mirrored(u)' /\ Kept(u)'
  BY <1>a, <1>b DEF FriendOK, Typed, Mirrored, Kept
<1>4. Backed(u)'
  BY <1>a, <1>b, <1>2 DEF FriendOK, Backed
<1>5. \A q \in User : q # u => FriendOK(q)'
  BY <1>a, <1>b, FriendKept
<1> QED
  BY <1>1, <1>3, <1>4, <1>5, <1>b, OwnKept DEF BookInv, FriendOK

\* A friend is added, or saved over, with what the dialog holds.
LEMMA SaveOK ==
  ASSUME BookInv, NEW u \in User, Save(u)
  PROVE  BookInv'
<1>a. Shape /\ (\A q \in User : FriendOK(q)) /\ \A y \in work[u] : ItemOK(y)
  BY DEF BookInv, FriendOK, Typed
<1>b. OwnOK(Peer(u)) /\ bound.paste \subseteq Nat
  BY PeerIsUser, BoundTypes DEF BookInv, Shape
<1>1. PICK g \in Record : AddFriend(u, g)
  <2>1. PICK pem \in {0, own[Peer(u)].rsa}, secret \in bound.paste, caps \in {0, 1},
             pqc \in {0, own[Peer(u)].pqc}, sig \in {0, own[Peer(u)].sig} :
          AddFriend(u, [f \in Field |->
            [pem |-> pem, secret |-> secret, x |-> 0, ecdh |-> 0, caps |-> caps,
             pqc |-> pqc, sig |-> sig][f]])
    BY DEF Save
  <2> DEFINE r == [pem |-> pem, secret |-> secret, x |-> 0, ecdh |-> 0, caps |-> caps,
                   pqc |-> pqc, sig |-> sig]
  <2>2. pem \in Nat /\ secret \in Nat /\ caps \in Nat /\ pqc \in Nat /\ sig \in Nat
    BY <1>b DEF OwnOK
  <2>3. \A f \in Field : r[f] \in Nat
    BY <2>2 DEF Field
  <2> HIDE DEF r
  <2>4. [f \in Field |-> r[f]] \in Record
    BY <2>3 DEF Record
  <2> QED
    BY <2>1, <2>4 DEF r
<1>c. g # NoFriend /\ "pem" \in Field /\ "caps" \in Field
  BY NoFriendIsNoRecord DEF Field
<1>2. /\ row'[u] = g
      /\ rec'[u] = IF g["pem"] = 0 THEN rec[u] ELSE g
      /\ work'[u] = Staled(work[u]) /\ stored'[u] = g
      /\ excused'[u] = IF g["pem"] = 0 THEN Field ELSE {}
      /\ advert'[u] = (g["caps"] = 1 \/ (advert[u] /\ g["pem"] = 0))
      /\ session' = session /\ bound' = bound /\ own' = own
  BY <1>a, <1>1 DEF AddFriend, SaveFriend, Shape
<1>3. \A q \in User : q # u =>
        /\ row'[q] = row[q] /\ rec'[q] = rec[q] /\ session'[q] = session[q]
        /\ work'[q] = work[q] /\ stored'[q] = stored[q]
        /\ excused'[q] = excused[q] /\ advert'[q] = advert[q]
  BY <1>a, <1>1 DEF AddFriend, SaveFriend, Shape
<1>4. Shape'
  BY <1>a, <1>1 DEF AddFriend, SaveFriend, Shape
<1>5. /\ \A y \in Staled(work[u]) : ItemOK(y) /\ y.stale
      /\ (\E y \in work[u] : y.op = "reset") => \E y \in Staled(work[u]) : y.op = "reset"
  BY <1>a, StaledSet
<1>6. advert[u] \in BOOLEAN /\ rec[u] \in Record \cup {NoFriend}
      /\ (rec[u] # NoFriend => rec[u]["pem"] # 0)
  BY <1>a DEF FriendOK, Typed
<1>7. Typed(u)'
  BY <1>2, <1>5, <1>6 DEF Typed
<1>8. Mirrored(u)'
  BY <1>2, <1>c DEF Mirrored
<1>9. Kept(u)'
  BY <1>2, <1>5 DEF Kept
<1>10. Backed(u)'
  <2>1. g["caps"] = 1 => Backs(u)'
    BY <1>2 DEF Backs
  <2>2. g["pem"] = 0 /\ Backs(u) => Backs(u)'
    BY <1>2, <1>5 DEF Backs
  <2>3. rec[u] # NoFriend /\ rec[u]["caps"] = 1 => Backs(u)
    BY <1>a DEF FriendOK, Backed
  <2> QED
    BY <2>1, <2>2, <2>3, <1>2, <1>5 DEF Backed
<1>11. \A q \in User : q # u => FriendOK(q)'
  BY <1>a, <1>3, FriendKept
<1> QED
  BY <1>2, <1>4, <1>7, <1>8, <1>9, <1>10, <1>11, OwnKept DEF BookInv, FriendOK

\* A friend is removed, with the session.
LEMMA RemoveOK ==
  ASSUME BookInv, NEW u \in User, RemoveFriendDialog(u)
  PROVE  BookInv'
<1>a. Shape /\ (\A q \in User : FriendOK(q)) /\ \A y \in work[u] : ItemOK(y)
  BY DEF BookInv, FriendOK, Typed
<1>1. /\ row'[u] = NoFriend /\ rec'[u] = NoFriend
      /\ work'[u] = Staled(work[u]) /\ stored'[u] = Blank
      /\ excused'[u] = {} /\ advert' = advert /\ bound' = bound /\ own' = own
  BY <1>a DEF RemoveFriendDialog, RemoveFriend, Shape
<1>2. \A q \in User : q # u =>
        /\ row'[q] = row[q] /\ rec'[q] = rec[q] /\ session'[q] = session[q]
        /\ work'[q] = work[q] /\ stored'[q] = stored[q]
        /\ excused'[q] = excused[q] /\ advert'[q] = advert[q]
  BY <1>a DEF RemoveFriendDialog, RemoveFriend, Shape
<1>3. Shape'
  BY <1>a DEF RemoveFriendDialog, RemoveFriend, Shape
<1>4. \A y \in Staled(work[u]) : ItemOK(y) /\ y.stale
  BY <1>a, StaledSet
<1>5. Blank \in Record /\ advert[u] \in BOOLEAN
  BY <1>a DEF Blank, Record, FriendOK, Typed
<1>6. FriendOK(u)'
  BY <1>1, <1>4, <1>5 DEF FriendOK, Typed, Mirrored, Kept, Backed
<1>7. \A q \in User : q # u => FriendOK(q)'
  BY <1>a, <1>2, FriendKept
<1> QED
  BY <1>1, <1>3, <1>6, <1>7, OwnKept DEF BookInv

\* A user makes or replaces keys of his own.
LEMMA OwnStepOK ==
  ASSUME BookInv, NEW u \in User, NEW op, NEW keys, Own(u, op, keys),
         keys \in [rsa : Nat \ {0}, legacy : Nat, pqc : Nat, sig : Nat, global : Nat],
         keys.legacy = keys.rsa - 1
  PROVE  BookInv'
<1>1. /\ own'[u] = keys /\ DOMAIN own' = User
      /\ \A q \in User : q # u => own'[q] = own[q]
      /\ UNCHANGED <<bound, row, rec, session, work, stored, excused, advert>>
  BY DEF Own, BookInv, Shape
<1>2. \A q \in User : OwnOK(q)'
  BY <1>1 DEF BookInv, OwnOK
<1>3. Shape'
  BY <1>1 DEF BookInv, Shape
<1>4. \A q \in User : FriendOK(q)'
  BY <1>1, FriendKept DEF BookInv
<1> QED
  BY <1>2, <1>3, <1>4 DEF BookInv

LEMMA OwnKeysOK ==
  ASSUME BookInv, NEW u \in User,
         \/ RotateRsa(u) \/ GeneratePqcKeys(u) \/ GenerateHybridSigKeys(u)
         \/ ImportGlobal(u) \/ StartEcdh(u)
  PROVE  BookInv'
<1> DEFINE K == [rsa : Nat \ {0}, legacy : Nat, pqc : Nat, sig : Nat, global : Nat]
<1>a. own[u] \in K /\ own[u].legacy = own[u].rsa - 1
  BY DEF BookInv, OwnOK
<1>b. bound.exchange \subseteq Nat
  BY BoundTypes DEF BookInv, Shape
<1>1. CASE RotateRsa(u)
  <2> DEFINE keys == [own[u] EXCEPT !.rsa = @ + 1, !.legacy = own[u].rsa]
  <2>1. own[u].rsa + 1 \in Nat \ {0} /\ own[u].rsa \in Nat
    BY <1>a
  <2>2. keys = [[own[u] EXCEPT !.rsa = own[u].rsa + 1] EXCEPT !.legacy = own[u].rsa]
    BY <1>a
  <2>3. keys.rsa = own[u].rsa + 1 /\ keys.legacy = own[u].rsa
    BY <1>a, <2>2
  <2>4. keys \in K
    BY <1>a, <2>1, <2>2
  <2>5. keys.legacy = keys.rsa - 1
    BY <2>1, <2>3
  <2> QED
    BY <1>1, <2>4, <2>5, OwnStepOK DEF RotateRsa
<1>2. CASE GeneratePqcKeys(u)
  <2> DEFINE keys == [own[u] EXCEPT !.pqc = 1]
  <2>1. keys \in K /\ keys.legacy = keys.rsa - 1
    BY <1>a
  <2> QED
    BY <1>2, <2>1, OwnStepOK DEF GeneratePqcKeys
<1>3. CASE GenerateHybridSigKeys(u)
  <2> DEFINE keys == [own[u] EXCEPT !.sig = @ + 1]
  <2>1. keys \in K /\ keys.legacy = keys.rsa - 1
    BY <1>a
  <2> QED
    BY <1>3, <2>1, OwnStepOK DEF GenerateHybridSigKeys
<1>4. CASE ImportGlobal(u) \/ StartEcdh(u)
  <2>1. PICK secret \in Nat : UpdateGlobalSecret(u, secret)
    BY <1>4, <1>b DEF ImportGlobal, StartEcdh, GlobalSecret, PerformEcdh
  <2> DEFINE keys == [own[u] EXCEPT !.global = secret]
  <2>2. keys \in K /\ keys.legacy = keys.rsa - 1
    BY <1>a
  <2> QED
    BY <2>1, <2>2, OwnStepOK DEF UpdateGlobalSecret
<1> QED
  BY <1>1, <1>2, <1>3, <1>4

\* Lock and unlock: the record is loaded from the row.
LEMMA ReloadOK ==
  ASSUME BookInv, NEW u \in User, Reload(u)
  PROVE  BookInv'
<1>a. Shape /\ (\A q \in User : FriendOK(q))
  BY DEF BookInv
<1>1. /\ rec'[u] = row[u] /\ work[u] = {} /\ (row[u] # NoFriend => row[u]["pem"] # 0)
      /\ UNCHANGED <<bound, own, row, session, work, stored, excused, advert>>
      /\ \A q \in User : q # u => rec'[q] = rec[q]
  BY <1>a DEF Reload, Loadable, Shape
<1>2. Shape'
  BY <1>a DEF Reload, Shape
<1>3. FriendOK(u)'
  <2>1. Typed(u)' /\ Mirrored(u)' /\ Kept(u)'
    BY <1>a, <1>1 DEF FriendOK, Typed, Mirrored, Kept
  <2>2. Backs(u)' = Backs(u)
    BY <1>1 DEF Backs
  <2>3. Backed(u)'
    BY <1>a, <1>1, <2>2 DEF FriendOK, Backed
  <2> QED
    BY <2>1, <2>3 DEF FriendOK
<1>4. \A q \in User : q # u => FriendOK(q)'
  BY <1>a, <1>1, FriendKept
<1> QED
  BY <1>1, <1>2, <1>3, <1>4, OwnKept DEF BookInv

\* The records as they are at the start.
LEMMA InitBook == BookInit => BookInv
<1> SUFFICES ASSUME BookInit PROVE BookInv
  OBVIOUS
<1>1. Shape
  BY DEF BookInit, Shape
<1>2. \A u \in User : bound.global[u] \in Nat
  BY BoundTypes DEF BookInit
<1>3. \A u \in User : OwnOK(u)
  BY <1>2 DEF BookInit, OwnOK, GlobalSecret
<1>4. JustAdded \in Record /\ JustAdded["pem"] = 1 /\ JustAdded["caps"] = 0 /\ Blank \in Record
  BY DEF JustAdded, Record, Field, Blank
<1>5. ASSUME NEW u \in User PROVE FriendOK(u)
  <2>1. /\ row[u] = rec[u] /\ work[u] = {} /\ excused[u] = {} /\ advert[u] = FALSE
        /\ \/ row[u] = JustAdded /\ stored[u] = JustAdded
           \/ row[u] = NoFriend /\ stored[u] = Blank
    BY DEF BookInit
  <2>2. CASE row[u] = JustAdded /\ stored[u] = JustAdded
    <3>1. row[u] # NoFriend /\ row[u]["pem"] # 0 /\ row[u]["caps"] # 1
      BY <1>4, <2>2, NoFriendIsNoRecord
    <3> QED
      BY <1>4, <2>1, <2>2, <3>1 DEF FriendOK, Typed, Mirrored, Kept, Backed
  <2>3. CASE row[u] = NoFriend /\ stored[u] = Blank
    BY <1>4, <2>1, <2>3 DEF FriendOK, Typed, Mirrored, Kept, Backed
  <2> QED
    BY <2>1, <2>2, <2>3
<1> QED
  BY <1>1, <1>3, <1>5 DEF BookInv

\* Every operation on the records preserves the invariant.
LEMMA BookStepOK == BookInv /\ BookNext => BookInv'
<1> SUFFICES ASSUME BookInv, BookNext PROVE BookInv'
  OBVIOUS
<1>1. PICK u \in User :
    \/ \E w \in work[u] : Commit(u, w) \/ Fail(u, w)
    \/ Save(u) \/ RemoveFriendDialog(u)
    \/ \E e \in bound.exchange : EcdhWithSelected(u, e)
    \/ \E n \in bound.kem : DoEncapsulate(u, n) \/ DoDecapsulate(u, n)
    \/ DoUpdateRsa(u) \/ DoUpdateEcdh(u) \/ DoUpdatePqc(u) \/ DoUpdateHsig(u)
    \/ DoImportPqcKey(u) \/ DoImport(u)
    \/ DoUpdateDelegatorKey(u) \/ DoUpdateX25519(u) \/ DoUpdatePem(u) \/ DoUpdateDelegatorPqc(u)
    \/ \E role \in {"alice", "bob"} : InitRatchetDialog(u, role)
    \/ ResetRatchetDialog(u)
    \/ RotateRsa(u) \/ GeneratePqcKeys(u) \/ GenerateHybridSigKeys(u)
    \/ ImportGlobal(u) \/ StartEcdh(u)
  BY DEF BookNext
<1>2. CASE \E w \in work[u] : Commit(u, w) \/ Fail(u, w)
  BY <1>2, CommitOK, FailOK
<1>3. CASE Save(u) \/ RemoveFriendDialog(u)
  BY <1>3, SaveOK, RemoveOK
<1>4. CASE \E e \in bound.exchange : EcdhWithSelected(u, e)
  BY <1>4, EcdhOK
<1>5. CASE \E n \in bound.kem : DoEncapsulate(u, n) \/ DoDecapsulate(u, n)
  BY <1>5, EncapsulateOK, DecapsulateOK
<1>6. CASE \/ DoUpdateRsa(u) \/ DoUpdateEcdh(u) \/ DoUpdatePqc(u) \/ DoUpdateHsig(u)
           \/ DoImportPqcKey(u)
  BY <1>6, PubKeysOK
<1>7. CASE DoImport(u)
  BY <1>7, ImportSigOK
<1>8. CASE \/ DoUpdateDelegatorKey(u) \/ DoUpdateX25519(u) \/ DoUpdatePem(u)
           \/ DoUpdateDelegatorPqc(u)
  BY <1>8, DelegatedOK
<1>9. CASE \E role \in {"alice", "bob"} : InitRatchetDialog(u, role)
  BY <1>9, InitRatchetOK
<1>10. CASE ResetRatchetDialog(u)
  BY <1>10, ResetRatchetOK
<1>11. CASE \/ RotateRsa(u) \/ GeneratePqcKeys(u) \/ GenerateHybridSigKeys(u)
            \/ ImportGlobal(u) \/ StartEcdh(u)
  BY <1>11, OwnKeysOK
<1> QED
  BY <1>1, <1>2, <1>3, <1>4, <1>5, <1>6, <1>7, <1>8, <1>9, <1>10, <1>11

\* Steps that leave the records alone.
LEMMA BookKept == BookInv /\ UNCHANGED bookVars => BookInv'
<1> SUFFICES ASSUME BookInv, UNCHANGED bookVars PROVE BookInv'
  OBVIOUS
<1>1. UNCHANGED <<bound, own, row, rec, session, work, stored, excused, advert>>
  BY DEF bookVars
<1>2. Shape'
  BY <1>1 DEF BookInv, Shape
<1>3. \A q \in User : FriendOK(q)'
  BY <1>1, FriendKept DEF BookInv
<1> QED
  BY <1>1, <1>2, <1>3, OwnKept DEF BookInv

-----------------------------------------------------------------------------
(* The clock, the messages and the files: the steps that leave the records   *)
(* alone, and the two that do not.                                           *)

MsgStep ==
  UNCHANGED bookVars /\
    \/ Tick
    \/ \E u \in User :
         \/ \E answered \in BOOLEAN : NtpSyncLoop(u, answered)
         \/ \E answer \in {"answered", "none", "late"} : ManualSync(u, answer)
         \/ \E mode \in bound.mode, lifetime \in bound.lifetime : SendMessage(u, mode, lifetime)
         \/ SetMyName(u)
         \/ \E method \in {"password", "global", "friend"} : EncryptFile(u, method)
         \/ DecryptFile(u)
    \/ \E f \in files : LoseMagic(f)

LEMMA NextSteps == Next <=> BookStep \/ (\E u \in User : Unlock(u)) \/ MsgStep
  BY DEF Next, MsgStep

\* The clock that a user goes by is a number, and never ahead of the time.
LEMMA ClockBehind ==
  ASSUME ClockInv, bound \in Instance, NEW u \in User
  PROVE  Clock(u) \in Int /\ Clock(u) <= time
<1>1. bound.lag[u] \in Nat
  BY BoundTypes
<1> QED
  BY <1>1 DEF Clock, ClockInv, NoTime

\* What setting the clock to a synchronisation's answer does.
LEMMA SyncOK ==
  ASSUME ClockInv, NEW u \in User, NEW t \in {time, NoTime}, UpdateNtpTime(u, t)
  PROVE  /\ ntp' \in [User -> Nat \cup {NoTime}]
         /\ ntp'[u] = t
         /\ \A q \in User : q # u => ntp'[q] = ntp[q]
  BY DEF ClockInv, UpdateNtpTime

LEMMA ClockKept ==
  ASSUME ClockInv, UNCHANGED <<time, ntp, due, fed>>
  PROVE  ClockInv'
  BY DEF ClockInv

LEMMA TickOK == ASSUME ClockInv, Tick PROVE ClockInv'
<1>1. \A u \in User : due[u] \in Nat /\ time + 1 <= due[u]
  BY DEF ClockInv, Tick
<1>2. time' = time + 1 /\ ntp' = ntp /\ due' = due /\ fed' = fed
  BY DEF Tick
<1>3. \A u \in User : ntp[u] \in Nat \cup {NoTime} /\ due[u] <= time + 1 + SyncPeriod
  BY <1>1, ClockAssumption DEF ClockInv
<1>4. \A u \in User : ntp[u] # NoTime => ntp[u] <= time + 1
  BY <1>3 DEF ClockInv, NoTime
<1> QED
  BY <1>1, <1>2, <1>3, <1>4 DEF ClockInv

LEMMA LoopOK ==
  ASSUME ClockInv, NEW u \in User, NEW answered \in BOOLEAN, NtpSyncLoop(u, answered)
  PROVE  ClockInv'
<1>1. /\ time' = time /\ fed' = fed /\ time \in Nat /\ SyncPeriod \in Nat
      /\ due'[u] = time + SyncPeriod /\ due' \in [User -> Nat]
      /\ \A q \in User : q # u => due'[q] = due[q]
  BY ClockAssumption DEF NtpSyncLoop, ClockInv
<1>2. CASE fed[u]
  <2>1. UpdateNtpTime(u, GetNtpTime(answered)) /\ GetNtpTime(answered) \in {time, NoTime}
    BY <1>2 DEF NtpSyncLoop, GetNtpTime
  <2>2. /\ ntp' \in [User -> Nat \cup {NoTime}] /\ ntp'[u] \in {time, NoTime}
        /\ \A q \in User : q # u => ntp'[q] = ntp[q]
    BY <2>1, SyncOK
  <2> QED
    BY <1>1, <2>2 DEF ClockInv
<1>3. CASE ~fed[u]
  <2>1. ntp' = ntp
    BY <1>3 DEF NtpSyncLoop
  <2> QED
    BY <1>1, <1>3, <2>1 DEF ClockInv
<1> QED
  BY <1>2, <1>3

LEMMA ManualOK ==
  ASSUME ClockInv, NEW u \in User, NEW answer \in {"answered", "none", "late"},
         ManualSync(u, answer)
  PROVE  ClockInv'
<1>1. time' = time /\ fed' = fed /\ due' = due
  BY DEF ManualSync
<1>2. ntp' = ntp \/ UpdateNtpTime(u, time)
  BY DEF ManualSync, DoSync, OnSyncComplete, GetNtpTime
<1>3. CASE ntp' = ntp
  BY <1>1, <1>3, ClockKept
<1>4. CASE UpdateNtpTime(u, time)
  <2>1. /\ ntp' \in [User -> Nat \cup {NoTime}] /\ ntp'[u] = time
        /\ \A q \in User : q # u => ntp'[q] = ntp[q]
    BY <1>4, SyncOK
  <2> QED
    BY <1>1, <2>1 DEF ClockInv
<1> QED
  BY <1>2, <1>3, <1>4

LEMMA UnlockClock == ASSUME ClockInv, NEW u \in User, Unlock(u) PROVE ClockInv'
<1>1. time' = time /\ due' = due
  BY DEF Unlock
<1>2. /\ ntp' \in [User -> Nat \cup {NoTime}] /\ ntp'[u] = NoTime
      /\ fed' \in [User -> BOOLEAN]
      /\ \A q \in User : q # u => ntp'[q] = ntp[q] /\ fed'[q] = fed[q]
  BY DEF Unlock, ClockInv
<1> QED
  BY <1>1, <1>2 DEF ClockInv

\* Every step keeps the clocks in order.
LEMMA ClockStep == ASSUME ClockInv, [Next]_vars PROVE ClockInv'
<1>1. CASE BookStep
  BY <1>1, ClockKept DEF BookStep
<1>2. CASE \E u \in User : Unlock(u)
  BY <1>2, UnlockClock
<1>3. CASE MsgStep
  <2>1. Tick \/ UNCHANGED <<time, ntp, due, fed>>
        \/ \E u \in User : \/ \E answered \in BOOLEAN : NtpSyncLoop(u, answered)
                           \/ \E answer \in {"answered", "none", "late"} : ManualSync(u, answer)
    BY <1>3 DEF MsgStep, SendMessage, SetMyName, EncryptFile, DecryptFile, LoseMagic
  <2> QED
    BY <2>1, ClockKept, TickOK, LoopOK, ManualOK
<1>4. CASE UNCHANGED vars
  BY <1>4, ClockKept DEF vars, msgVars
<1> QED
  BY <1>1, <1>2, <1>3, <1>4, NextSteps

-----------------------------------------------------------------------------
\* What is sent in one of the signed modes was stamped with the sender's clock.
LEMMA EncryptSigned ==
  ASSUME NEW u, NEW mode, NEW lifetime, Encrypt(u, mode, lifetime).kind \in {"rsa", "shared"}
  PROVE  /\ Encrypt(u, mode, lifetime) = LegacyEncrypt(u, mode, lifetime)
         /\ Encrypt(u, mode, lifetime).from = u /\ Encrypt(u, mode, lifetime).at = time
         /\ Encrypt(u, mode, lifetime).stamp = Clock(u)
         /\ Encrypt(u, mode, lifetime).lifetime = lifetime
<1>1. PqcEncrypt(u).kind \notin {"rsa", "shared"}
  BY DEF PqcEncrypt, PqcEnvelope, Refused
<1>2. RatchetEncrypt(u).kind \notin {"rsa", "shared"}
  BY DEF RatchetEncrypt, RatchetEnvelope, Refused
<1>3. Encrypt(u, mode, lifetime) = LegacyEncrypt(u, mode, lifetime)
  BY <1>1, <1>2 DEF Encrypt
<1> QED
  BY <1>3 DEF LegacyEncrypt, EncryptMessage

\* Every step keeps the messages in order.
LEMMA SentStep == ASSUME SentInv, ClockInv, BookInv, [Next]_vars PROVE SentInv'
<1>1. CASE UNCHANGED sent
  BY <1>1 DEF SentInv
<1>2. ASSUME NEW u \in User, NEW mode \in bound.mode, NEW lifetime \in bound.lifetime,
             SendMessage(u, mode, lifetime)
      PROVE  SentInv'
  <2> DEFINE m == Encrypt(u, mode, lifetime)
  <2>1. sent' = sent \cup {m}
    BY <1>2 DEF SendMessage
  <2>2. lifetime \in Nat
    BY BoundTypes DEF BookInv, Shape
  <2>3. Clock(u) \in Int /\ Clock(u) <= time /\ time \in Nat
    BY ClockBehind DEF BookInv, Shape, ClockInv
  <2>4. m.kind \in {"rsa", "shared"} =>
          m.from = u /\ m.at = time /\ m.stamp = Clock(u) /\ m.lifetime = lifetime
    BY EncryptSigned
  <2> HIDE DEF m
  <2> QED
    BY <2>1, <2>2, <2>3, <2>4 DEF SentInv
<1>3. \/ UNCHANGED sent
      \/ \E u \in User : \E mode \in bound.mode, lifetime \in bound.lifetime :
           SendMessage(u, mode, lifetime)
  BY NextSteps DEF BookStep, Unlock, MsgStep, Tick, NtpSyncLoop, ManualSync, SetMyName,
                   EncryptFile, DecryptFile, LoseMagic, vars, msgVars
<1> QED
  BY <1>1, <1>2, <1>3

-----------------------------------------------------------------------------
\* The files themselves.
FilesOK ==
  \A f \in files : /\ DOMAIN f = {"kind", "key"}
                   /\ f.kind \in {"password", "shared", "bare"}
                   /\ f.kind = "password" => f.key = "password"

\* The secrets that were collected, and those stored since.
CacheOK ==
  /\ DOMAIN cache = User /\ DOMAIN newer = User
  /\ \A u \in User : cache[u] # NotBuilt => Held(u) \subseteq cache[u] \cup newer[u]

LEMMA FileParts == FileInv <=> FilesOK /\ CacheOK
  BY DEF FileInv, FilesOK, CacheOK

LEMMA FilesStep == ASSUME FilesOK, [Next]_vars PROVE FilesOK'
<1>1. CASE UNCHANGED files
  BY <1>1 DEF FilesOK
<1>2. ASSUME NEW u \in User, NEW method \in {"password", "global", "friend"},
             EncryptFile(u, method)
      PROVE  FilesOK'
  <2>1. PICK f \in EncryptFileBy(u, method) : files' = files \cup {f}
    BY <1>2 DEF EncryptFile
  <2>2. f = FileEncrypt("password") \/ \E secret : f = FileEncryptShared(secret)
    BY <2>1 DEF EncryptFileBy
  <2>3. /\ DOMAIN f = {"kind", "key"}
        /\ f.kind \in {"password", "shared", "bare"}
        /\ f.kind = "password" => f.key = "password"
    BY <2>2 DEF FileEncrypt, FileEncryptShared
  <2> QED
    BY <2>1, <2>3 DEF FilesOK
<1>3. ASSUME NEW f \in files, LoseMagic(f) PROVE FilesOK'
  <2> DEFINE g == [f EXCEPT !.kind = "bare"]
  <2>1. files' = (files \ {f}) \cup {g}
    BY <1>3 DEF LoseMagic
  <2>2. DOMAIN g = {"kind", "key"} /\ g.kind = "bare"
    BY DEF FilesOK
  <2> HIDE DEF g
  <2> QED
    BY <2>1, <2>2 DEF FilesOK
<1>4. \/ UNCHANGED files
      \/ \E u \in User : \E method \in {"password", "global", "friend"} : EncryptFile(u, method)
      \/ \E f \in files : LoseMagic(f)
  BY NextSteps DEF BookStep, Unlock, MsgStep, Tick, NtpSyncLoop, ManualSync, SetMyName,
                   SendMessage, DecryptFile, vars, msgVars
<1> QED
  BY <1>1, <1>2, <1>3, <1>4

\* What a user holds depends on his own keys and on his record of the friend.
LEMMA HeldKept ==
  ASSUME NEW u, own'[u] = own[u], rec'[u] = rec[u]
  PROVE  Held(u)' = Held(u)
  BY DEF Held

LEMMA CacheStep == ASSUME CacheOK, BookInv, [Next]_vars PROVE CacheOK'
<1>1. CASE BookStep
  <2>1. /\ cache' = cache
        /\ newer' = [u \in User |-> IF cache[u] = NotBuilt THEN {}
                                    ELSE newer[u] \cup (Held(u)' \ Held(u))]
    BY <1>1 DEF BookStep
  <2> QED
    BY <2>1 DEF CacheOK
<1>2. ASSUME NEW u \in User, Unlock(u) PROVE CacheOK'
  <2>1. /\ DOMAIN cache' = User /\ DOMAIN newer' = User /\ cache'[u] = NotBuilt
        /\ \A q \in User : q # u => cache'[q] = cache[q] /\ newer'[q] = newer[q]
    BY <1>2 DEF Unlock, CacheOK
  <2>2. \A q \in User : q # u => own'[q] = own[q] /\ rec'[q] = rec[q]
    BY <1>2 DEF Unlock, Reload, BookInv, Shape
  <2>3. \A q \in User : q # u => Held(q)' = Held(q)
    BY <2>2, HeldKept
  <2> QED
    BY <2>1, <2>3 DEF CacheOK
<1>3. CASE UNCHANGED bookVars /\ UNCHANGED <<cache, newer>>
  <2>1. \A q \in User : Held(q)' = Held(q)
    BY <1>3, HeldKept DEF bookVars
  <2> QED
    BY <1>3, <2>1 DEF CacheOK
<1>4. ASSUME NEW u \in User, UNCHANGED bookVars, DecryptFile(u) PROVE CacheOK'
  <2>1. \A q \in User : Held(q)' = Held(q)
    BY <1>4, HeldKept DEF bookVars
  <2>2. /\ DOMAIN cache' = User /\ newer' = newer /\ cache'[u] = Held(u)
        /\ \A q \in User : q # u => cache'[q] = cache[q]
    BY <1>4 DEF DecryptFile, BuildSecretsDict, CacheOK
  <2> QED
    BY <2>1, <2>2 DEF CacheOK
<1>5. \/ BookStep
      \/ \E u \in User : Unlock(u)
      \/ UNCHANGED bookVars /\ UNCHANGED <<cache, newer>>
      \/ \E u \in User : UNCHANGED bookVars /\ DecryptFile(u)
  BY NextSteps DEF MsgStep, Tick, NtpSyncLoop, ManualSync, SetMyName, SendMessage,
                   EncryptFile, LoseMagic, vars, msgVars
<1> QED
  BY <1>1, <1>2, <1>3, <1>4, <1>5

-----------------------------------------------------------------------------
(* The inductive invariant. *)

LEMMA InitOK == Init => IInv
<1> SUFFICES ASSUME Init PROVE IInv
  OBVIOUS
<1>1. BookInv
  BY InitBook DEF Init
<1>2. ClockInv
  <2>1. time = 0 /\ ntp = [u \in User |-> NoTime] /\ fed = [u \in User |-> TRUE]
    BY DEF Init
  <2>2. due \in [User -> 0..1]
    BY DEF Init
  <2> QED
    BY <2>1, <2>2, ClockAssumption DEF ClockInv
<1>3. SentInv /\ FileInv
  BY DEF Init, SentInv, FileInv
<1> QED
  BY <1>1, <1>2, <1>3 DEF IInv

LEMMA StepOK == IInv /\ [Next]_vars => IInv'
<1> SUFFICES ASSUME IInv, [Next]_vars PROVE IInv'
  OBVIOUS
<1>1. BookInv'
  <2>1. CASE BookStep
    BY <2>1, BookStepOK DEF BookStep, IInv
  <2>2. CASE \E u \in User : Unlock(u)
    BY <2>2, ReloadOK DEF Unlock, IInv
  <2>3. CASE UNCHANGED bookVars
    BY <2>3, BookKept DEF IInv
  <2> QED
    BY <2>1, <2>2, <2>3, NextSteps DEF MsgStep, vars
<1>2. ClockInv' /\ SentInv'
  BY ClockStep, SentStep DEF IInv
<1>3. FileInv'
  BY FileParts, FilesStep, CacheStep DEF IInv, FilesOK, CacheOK, FileInv
<1> QED
  BY <1>1, <1>2, <1>3 DEF IInv

\* The records, the clocks, the messages and the files are always in order.
THEOREM RecordsInductive == Spec => []IInv
  BY InitOK, StepOK, PTL DEF Spec

(* A field differs from what the user last stored in it only when an operation  *)
(* left it out, updates overlapped, or a text that is no key was saved: every   *)
(* update of update_friend_keys_dialog.py and the others that writes a record    *)
(* back keeps the rest of it.                                                   *)
THEOREM LossesHaveCauses == Spec => []LossHasACause
<1>1. BookInv => LossHasACause
  BY DEF BookInv, FriendOK, Mirrored, Kept, LossHasACause
<1> QED
  BY <1>1, RecordsInductive, PTL DEF IInv

(* A friend's record says that he has a ratchet without a session only while a  *)
(* reset is under way or for one of the reasons of advert.                      *)
THEOREM RatchetsAreBacked == Spec => []AdvertisedRatchetExists
<1>1. BookInv => AdvertisedRatchetExists
  BY DEF BookInv, FriendOK, Backed, Backs, AdvertisedRatchetExists
<1> QED
  BY <1>1, RecordsInductive, PTL DEF IInv

-----------------------------------------------------------------------------
\* What is read in one of the signed modes is in time.
LEMMA ReadInTime ==
  ASSUME NEW v, NEW m, m.kind \in {"rsa", "shared"}, CanRead(v, m)
  PROVE  InTime(v, m)
<1>1. LegacyDecrypt(v, m)
  BY DEF CanRead, IdentifyEnvelopeType
<1> QED
  BY <1>1 DEF LegacyDecrypt, DecryptWithRsa, DecryptWithSharedSecrets, DecryptMessage

(* Past its window or its lifetime a message is refused after one more period   *)
(* of the loop, or as long as the system's clock lags, unless the clock stands  *)
(* still for good.                                                              *)
THEOREM ReadingEnds == Spec => []LateReading
<1>1. ASSUME IInv PROVE LateReading
  <2>1. SUFFICES ASSUME NEW m \in sent, m.kind \in {"rsa", "shared"}, CanRead(Peer(m.from), m)
        PROVE  LET v == Peer(m.from)
                   limit == IF m.lifetime > 0 THEN m.lifetime ELSE Window
               IN  time <= m.at + limit + Larger(SyncPeriod, bound.lag[v]) \/ StandsStill(v)
    BY DEF LateReading
  <2> DEFINE v == Peer(m.from)
             limit == IF m.lifetime > 0 THEN m.lifetime ELSE Window
  <2>2. /\ m.from \in User /\ v \in User
        /\ m.at \in Nat /\ m.stamp \in Int /\ m.lifetime \in Nat /\ m.stamp <= m.at
    BY <1>1, <2>1, PeerIsUser DEF IInv, SentInv
  <2>3. bound.lag[v] \in Nat
    BY <1>1, <2>2, BoundTypes DEF IInv, BookInv, Shape
  <2>4. InTime(v, m)
    BY <2>1, ReadInTime
  <2>5. Clock(v) \in Int /\ time \in Nat
    BY <1>1, <2>2, ClockBehind DEF IInv, BookInv, Shape, ClockInv
  <2> HIDE DEF v
  <2>6. Clock(v) <= m.at + limit
    BY <2>2, <2>4, <2>5, ClockAssumption DEF InTime, Abs
  <2>7. limit \in Nat
    BY <2>2, ClockAssumption
  <2> HIDE DEF limit
  <2>8. CASE ntp[v] = NoTime
    <3>1. Clock(v) = time - bound.lag[v]
      BY <2>8 DEF Clock
    <3> QED
      BY <3>1, <2>2, <2>3, <2>5, <2>6, <2>7, ClockAssumption DEF Larger, v, limit
  <2>9. CASE ntp[v] # NoTime /\ fed[v]
    <3>1. Clock(v) = ntp[v] /\ time <= ntp[v] + SyncPeriod
      <4>1. time <= due[v] /\ due[v] <= ntp[v] + SyncPeriod /\ due[v] \in Nat
        BY <1>1, <2>2, <2>9 DEF IInv, ClockInv
      <4>2. Clock(v) = ntp[v]
        BY <2>9 DEF Clock
      <4> QED
        BY <2>5, <4>1, <4>2, ClockAssumption
    <3> QED
      BY <3>1, <2>2, <2>3, <2>5, <2>6, <2>7, ClockAssumption DEF Larger, v, limit
  <2>10. CASE ntp[v] # NoTime /\ ~fed[v]
    BY <2>10 DEF StandsStill, v
  <2> QED
    BY <2>8, <2>9, <2>10
<1> QED
  BY <1>1, RecordsInductive, PTL

-----------------------------------------------------------------------------
(* The round trip, by the mode that is proposed. *)

\* A ratchet message between sessions that agree.
LEMMA RatchetTrip ==
  ASSUME NEW u \in User, InStep(u), session[u] # NoSession
  PROVE  LET m == Encrypt(u, "shared", 0)
         IN  m.kind = "ratchet" /\ m # Refused /\ CanRead(Peer(u), m)
<1>1. Encrypt(u, "shared", 0) = RatchetEnvelope(u)
  BY DEF Encrypt, FriendSupportsRatchet, RatchetEncrypt
<1>2. SessionsAgree(session[u], session[Peer(u)]) /\ named[u] /\ rec[Peer(u)] # NoFriend
  BY DEF InStep
<1>3. session[Peer(u)] # NoSession
  BY <1>2 DEF SessionsAgree
<1>4. /\ RatchetEnvelope(u).kind = "ratchet" /\ RatchetEnvelope(u).named = named[u]
      /\ RatchetEnvelope(u).session = session[u] /\ RatchetEnvelope(u) # Refused
  BY DEF RatchetEnvelope, Refused
<1> QED
  BY <1>1, <1>2, <1>3, <1>4 DEF CanRead, IdentifyEnvelopeType, RatchetDecrypt,
                                FriendSupportsRatchet

\* A message encapsulated for the friend's PQC key.
LEMMA PqcTrip ==
  ASSUME NEW u \in User, InStep(u), rec[u]["pqc"] # 0
  PROVE  LET m == Encrypt(u, "pqc", 0)
         IN  m.kind = "pqc" /\ m # Refused /\ CanRead(Peer(u), m)
<1>1. Encrypt(u, "pqc", 0) = PqcEnvelope(u)
  BY DEF Encrypt, PqcEncrypt
<1>2. /\ PqcEnvelope(u).kind = "pqc" /\ PqcEnvelope(u).key = rec[u]["pqc"]
      /\ PqcEnvelope(u) # Refused
  BY DEF PqcEnvelope, Refused
<1>3. rec[u]["pqc"] = own[Peer(u)].pqc
  BY DEF InStep
<1> QED
  BY <1>1, <1>2, <1>3 DEF CanRead, IdentifyEnvelopeType, PqcDecrypt

\* A message that is signed and stamped: the friend has the key, the clocks agree.
LEMMA SignedTrip ==
  ASSUME IInv, NEW u \in User, InStep(u), NEW mode \in {"rsa", "shared"},
         Abs(Clock(u) - Clock(Peer(u))) <= Window,
         NEW m, m = LegacyEncrypt(u, mode, 0),
         mode = "shared" => rec[u]["secret"] # 0
  PROVE  m.kind = mode /\ m # Refused /\ CanRead(Peer(u), m) /\ Verified(Peer(u), m)
<1> DEFINE v == Peer(u)
<1>a. v \in User /\ BookInv /\ ClockInv /\ bound \in Instance
  BY PeerIsUser DEF IInv, BookInv, Shape
<1>1. /\ m.kind = mode /\ m.key = ResolveEncryptionKey(u, mode) /\ m.sig = Signature(u)
      /\ m.stamp = Clock(u) /\ m.lifetime = 0 /\ m # Refused
  BY DEF LegacyEncrypt, EncryptMessage, Refused
<1>2. InTime(v, m)
  <2>1. Clock(u) \in Int /\ Clock(v) \in Int
    BY <1>a, ClockBehind
  <2> QED
    BY <1>1, <2>1 DEF InTime, Abs
<1>3. Verified(v, m)
  <2>1. own[u].sig \in Nat
    BY <1>a DEF BookInv, OwnOK
  <2>2. rec[v] # NoFriend /\ rec[v]["sig"] = own[u].sig /\ rec[v]["pem"] = own[u].rsa
    BY DEF InStep
  <2>3. CASE own[u].sig > 0
    <3>1. m.sig[1] = "hybrid" /\ m.sig[2] = own[u].sig
      BY <1>1, <2>3 DEF Signature
    <3> QED
      BY <2>1, <2>2, <2>3, <3>1 DEF Verified, GetFriendsHybridList
  <2>4. CASE ~(own[u].sig > 0)
    <3>1. m.sig[1] = "rsa" /\ m.sig[2] = own[u].rsa
      BY <1>1, <2>4 DEF Signature
    <3> QED
      BY <2>2, <3>1 DEF Verified, GetDecryptionSnapshot
  <2> QED
    BY <2>3, <2>4
<1>4. LegacyDecrypt(v, m)
  <2>1. CASE mode = "rsa"
    <3>1. m.key = rec[u]["pem"]
      BY <1>1, <2>1 DEF ResolveEncryptionKey
    <3>2. rec[u]["pem"] \in {own[v].rsa, own[v].rsa - 1} \ {0}
      BY DEF InStep
    <3>3. own[v].legacy = own[v].rsa - 1
      BY <1>a DEF BookInv, OwnOK
    <3>4. m.key = GetDecryptionSnapshot(v).priv \/ m.key = GetDecryptionSnapshot(v).legacy
      BY <3>1, <3>2, <3>3 DEF GetDecryptionSnapshot
    <3> QED
      BY <1>1, <1>2, <2>1, <3>1, <3>2, <3>4 DEF LegacyDecrypt, DecryptWithRsa, DecryptMessage
  <2>2. CASE mode = "shared"
    <3>1. m.key = rec[u]["secret"] /\ m.key # 0
      BY <1>1, <2>2 DEF ResolveEncryptionKey
    <3>2. rec[v] # NoFriend /\ rec[v]["secret"] = rec[u]["secret"]
      BY DEF InStep
    <3>3. m.key \in GetDecryptionSnapshot(v).secrets
      BY <3>1, <3>2 DEF GetDecryptionSnapshot, Held
    <3> QED
      BY <1>1, <1>2, <2>2, <3>1, <3>3
         DEF LegacyDecrypt, DecryptWithSharedSecrets, DecryptMessage, DecryptWithWindow
  <2> QED
    BY <2>1, <2>2
<1> QED
  BY <1>1, <1>3, <1>4 DEF CanRead, IdentifyEnvelopeType

(* What the encryption tab proposes works between records that are in step: the *)
(* message is made, read, and verified where it is signed.                      *)
THEOREM ProposedModeWorks == Spec => []RoundTrip
<1>1. ASSUME IInv PROVE RoundTrip
  <2>1. SUFFICES ASSUME NEW u \in User, InStep(u),
                        Abs(Clock(u) - Clock(Peer(u))) <= Window \/ ModeInfoFor(u) = "pqc"
        PROVE  LET m == Encrypt(u, ModeInfoFor(u), 0)
               IN  /\ m # Refused /\ CanRead(Peer(u), m)
                   /\ m.kind \in {"rsa", "shared"} => Verified(Peer(u), m)
    BY DEF RoundTrip
  <2>2. CASE session[u] # NoSession
    <3>1. ModeInfoFor(u) = "shared"
      BY <2>2 DEF ModeInfoFor, GetFriendDetails
    <3> QED
      BY <2>1, <2>2, <3>1, RatchetTrip
  <2>3. CASE session[u] = NoSession /\ rec[u]["pqc"] # 0
    <3>1. ModeInfoFor(u) = "pqc"
      BY <2>3 DEF ModeInfoFor, GetFriendDetails
    <3> QED
      BY <2>1, <2>3, <3>1, PqcTrip
  <2>4. CASE session[u] = NoSession /\ rec[u]["pqc"] = 0
    <3> DEFINE mode == IF rec[u]["secret"] # 0 THEN "shared" ELSE "rsa"
    <3>1. ModeInfoFor(u) = mode /\ mode # "pqc"
      BY <2>4 DEF ModeInfoFor, GetFriendDetails
    <3>2. rec[u]["caps"] = 0
      BY <2>1, <2>4 DEF InStep, SessionsAgree
    <3>3. Encrypt(u, mode, 0) = LegacyEncrypt(u, mode, 0)
      BY <2>4, <3>2 DEF Encrypt, FriendSupportsRatchet
    <3>4. Abs(Clock(u) - Clock(Peer(u))) <= Window
      BY <2>1, <3>1
    <3>5. mode \in {"rsa", "shared"} /\ (mode = "shared" => rec[u]["secret"] # 0)
      OBVIOUS
    <3> HIDE DEF mode
    <3> QED
      BY <1>1, <2>1, <3>1, <3>3, <3>4, <3>5, SignedTrip
  <2> QED
    BY <2>2, <2>3, <2>4
<1> QED
  BY <1>1, RecordsInductive, PTL

-----------------------------------------------------------------------------
(* A file that was made with a secret the user holds is refused only when the   *)
(* secret was stored after FileService had collected its secrets.               *)
THEOREM FilesOpen == Spec => []RefusedOnlyByCache
<1>1. ASSUME IInv PROVE RefusedOnlyByCache
  <2>1. SUFFICES ASSUME NEW u \in User, NEW f \in files,
                        f.kind = "password" \/ f.key \in Held(u), f.key \notin newer[u]
        PROVE  CanOpen(u, f)
    BY DEF RefusedOnlyByCache
  <2>2. /\ f.kind \in {"password", "shared", "bare"} /\ (f.kind = "password" => f.key = "password")
        /\ cache[u] # NotBuilt => Held(u) \subseteq cache[u] \cup newer[u]
    BY <1>1 DEF IInv, FileInv
  <2>3. CASE f.kind = "password"
    <3>1. DecryptFileAs(u, f) = "password required"
      BY <2>3 DEF DecryptFileAs, DetectSharedFingerprint
    <3> QED
      BY <2>2, <2>3, <3>1 DEF CanOpen, PromptPasswordAndDecrypt, FileDecrypt
  <2>4. CASE f.kind # "password"
    <3>1. f.key \in BuildSecretsDict(u)
      BY <2>1, <2>2, <2>4 DEF BuildSecretsDict
    <3>2. CASE f.kind = "shared"
      <4>1. DecryptFileAs(u, f) = "opened"
        BY <3>1, <3>2 DEF DecryptFileAs, DecryptSharedFile, FileDecryptShared
      <4> QED
        BY <4>1 DEF CanOpen
    <3>3. CASE f.kind = "bare"
      <4>1. DecryptFileAs(u, f) = "detected" /\ HandleSharedDetected(u, f)
        BY <3>1, <3>3 DEF DecryptFileAs, DetectSharedFingerprint, HandleSharedDetected,
                          DecryptSharedFile, FileDecryptShared
      <4> QED
        BY <4>1 DEF CanOpen
    <3> QED
      BY <2>2, <2>4, <3>2, <3>3
  <2> QED
    BY <2>3, <2>4
<1> QED
  BY <1>1, RecordsInductive, PTL
=============================================================================

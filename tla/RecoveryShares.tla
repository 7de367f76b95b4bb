--------------------------- MODULE RecoveryShares ---------------------------
(***************************************************************************)
(* Splitting a recovery key among friends and putting it together again:   *)
(* components/key_recovery_dialog.py, components/recovery_unlock_dialog.py, *)
(* the share tables of database.py and the delegate's operations of         *)
(* services/trust_chain_service.py on shares and on the RSA key.  One user, *)
(* the owner, splits; his friends hold.  A share travels in a file that is  *)
(* encrypted to the RSA key the sender has stored for the recipient.        *)
(***************************************************************************)
EXTENDS TrustChain, Shamir

CONSTANTS Owner,       \* the user who splits his recovery keys
          FriendList,  \* his friends, in the order of the list box
          Scheme,      \* pairs <<n, k>>: n shares of which k are to suffice
          KeyByte,     \* KeyByte[s]: the key of the s-th split
          Coeff        \* Coeff[s]: the random coefficients of its polynomial

ASSUME SharesAssumption ==
  /\ Owner \in User
  /\ KeyByte \in Seq(Byte)
  /\ \A scheme \in Scheme : scheme[1] \in Nat /\ scheme[2] \in Nat

\* An instance also bounds the splits, the generations of each RSA key and the
\* entries of a dialog.
ASSUME ShareInstanceAssumption ==
  \A b \in Instance : b.split \in 0..Len(KeyByte) /\ b.rsa \in [User -> Nat] /\ b.entry \in Nat

\* What secret sharing is for: any k shares of a split, and any more, in any order, give its
\* key back.
ASSUME ThresholdAssumption ==
  \A s \in DOMAIN KeyByte : \A scheme \in {sch \in Scheme : SplitAllowed(sch[1], sch[2])} :
    \A m \in scheme[2]..scheme[1] : \A order \in [1..m -> 1..scheme[1]] :
      IsInjective(order) =>
        ReconstructSecret(
          [i \in 1..m |-> <<order[i],
             ShareOf(KeyByte[s], SubSeq(Coeff[s], 1, scheme[2] - 1), order[i])>>]) = KeyByte[s]

VARIABLES rsaKey,      \* the generation of a user's RSA key
          pem,         \* pem[u][v]: the generation of v's RSA key that u has stored, 0: not a friend
          splits,      \* the splits the owner made: <<n, k>>
          rows,        \* the rows of the owner's recovery_shares table
          session,     \* the share files the split dialog can still export
          shareFiles,  \* share files written
          held,        \* the held_shares table of each user
          dialog,      \* the dialog the owner has open
          entries,     \* the shares entered in it
          result,      \* the key it reconstructed, and from which entries
          applied      \* the key that was last made the global secret, and the split it is to be of

dialogVars == <<session, dialog, entries, result>>
shareVars == <<rsaKey, pem, splits, rows, shareFiles, held, applied, dialogVars>>
vars == <<trustVars, shareVars>>

Plain == <<"plain", 0>>   \* the recipient of a file that is not encrypted
NoResult == [key |-> NoSecret, from |-> <<>>]

\* The split of which these entries are enough shares, 0 if there is none.
SplitOf(from) ==
  LET enough == {s \in DOMAIN splits : /\ \A i \in DOMAIN from : from[i].share.split = s
                                       /\ Len(from) >= splits[s][2]}
  IN  IF from = <<>> \/ enough = {} THEN 0 ELSE CHOOSE s \in enough : TRUE

\* Mutant of Share: indices are counted from 0 but evaluated from 1.
ShareFromZero(s, i) ==
  [split |-> s, index |-> i - 1,
   byte |-> ShareOf(KeyByte[s], SubSeq(Coeff[s], 1, splits'[s][2] - 1), i)]

\* A share as it is stored: its identifier is its split and its index.
Share(s, i) ==
  [split |-> s, index |-> i,
   byte |-> ShareOf(KeyByte[s], SubSeq(Coeff[s], 1, splits'[s][2] - 1), i)]

-----------------------------------------------------------------------------
(* Keys *)

\* A user's RSA key is rotated; the old one no longer opens shares.
RotateRsa(u) ==
  /\ rsaKey[u] < bound.rsa[u]
  /\ rsaKey' = [rsaKey EXCEPT ![u] = @ + 1]
  /\ UNCHANGED <<trustVars, pem, splits, rows, shareFiles, held, applied, dialogVars>>

\* update_delegator_rsa_pem
UpdateDelegatorPem(u, v, key) ==
  /\ AssertDelegation(u, v)
  /\ pem[u][v] # 0
  /\ pem' = [pem EXCEPT ![u][v] = key]

DoUpdatePem(u, v) ==
  /\ u # v
  /\ UpdateDelegatorPem(u, v, rsaKey[v])
  /\ UNCHANGED <<trustVars, rsaKey, splits, rows, shareFiles, held, applied, dialogVars>>

\* A holder removes the owner from his friends.
RemoveOwner(u) ==
  /\ u # Owner
  /\ pem[u][Owner] # 0
  /\ pem' = [pem EXCEPT ![u][Owner] = 0]
  /\ pinned' = [pinned EXCEPT ![u][Owner] = 0]
  /\ UNCHANGED <<bound, sigKey, certs, files, ledger, now>>
  /\ UNCHANGED <<rsaKey, splits, rows, shareFiles, held, applied, dialogVars>>

-----------------------------------------------------------------------------
(* Splitting *)

\* encrypt_share, for the key u has stored of v; decrypt_share uses the present private
\* key and no other.
EncryptShare(u, v, share) == [share |-> share, to |-> <<v, pem[u][v]>>]
DecryptShare(u, f) == f.to = <<u, rsaKey[u]>>

SaveRecoveryShare(s, i, holder) == [split |-> s, index |-> i, holder |-> holder]

\* do_split: the key is fresh.  The rows are saved one by one: when one fails the earlier
\* ones stay, and there is nothing to export.
DoSplit(selected, scheme, saved) ==
  LET n == scheme[1]
      s == Len(splits) + 1
      holders == SelectSeq(FriendList, LAMBDA h : h \in selected)
  IN  /\ dialog = "recovery"
      /\ s <= bound.split
      /\ scheme[2] <= n /\ SplitAllowed(n, scheme[2])
      /\ n <= Len(holders)
      /\ \A h \in selected : pem[Owner][h] # 0
      /\ saved \in 0..n
      /\ splits' = Append(splits, scheme)
      /\ rows' = rows \cup {SaveRecoveryShare(s, i, holders[i]) : i \in 1..saved}
      /\ session' = IF saved = n THEN {EncryptShare(Owner, holders[i], Share(s, i)) : i \in 1..n} ELSE {}
      /\ UNCHANGED <<trustVars, rsaKey, pem, shareFiles, held, applied, dialog, entries, result>>

\* _make_export: a button for each friend, until the dialog is closed or splits again.
ExportShare(f) ==
  /\ f \in session
  /\ shareFiles' = shareFiles \cup {f}
  /\ UNCHANGED <<trustVars, rsaKey, pem, splits, rows, held, applied, dialogVars>>

\* The recovery dialog, with tabs to split and to recover, and the dialog of the lock screen
\* open with nothing in them and forget everything when they close.
OpenDialog(d) ==
  /\ dialog # d /\ "closed" \in {d, dialog}
  /\ dialog' = d
  /\ session' = {} /\ entries' = <<>> /\ result' = NoResult
  /\ UNCHANGED <<trustVars, rsaKey, pem, splits, rows, shareFiles, held, applied>>

-----------------------------------------------------------------------------
(* Holding *)

\* INSERT OR REPLACE by the identifier of the share.
SaveHeldShare(table, share) ==
  {h \in table : <<h.split, h.index>> # <<share.split, share.index>>} \cup {share}

DeleteHeldShare(table, share) == table \ {share}

ImportHeldShare(u, f) ==
  /\ DecryptShare(u, f)
  /\ held' = [held EXCEPT ![u] = SaveHeldShare(@, f.share)]
  /\ UNCHANGED <<trustVars, rsaKey, pem, splits, rows, shareFiles, applied, dialogVars>>

\* Without the owner's key the share is written unencrypted once that is confirmed.
ExportBack(u, h) ==
  /\ shareFiles' = shareFiles \cup
       {IF u = Owner \/ pem[u][Owner] = 0 THEN [share |-> h, to |-> Plain]
        ELSE EncryptShare(u, Owner, h)}
  /\ UNCHANGED <<trustVars, rsaKey, pem, splits, rows, held, applied, dialogVars>>

DeleteSelected(u, h) ==
  /\ held' = [held EXCEPT ![u] = DeleteHeldShare(@, h)]
  /\ UNCHANGED <<trustVars, rsaKey, pem, splits, rows, shareFiles, applied, dialogVars>>

\* The rows of the delegator are in the delegator's own database, so of the two
\* tables only the delegate's held shares lose anything.
RevokeDelegatorRecoveryShares(u) ==
  /\ AssertDelegation(u, Owner)
  /\ held' = [held EXCEPT ![u] = {}]

DoRevokeRecoveryShares(u) ==
  /\ u # Owner
  /\ RevokeDelegatorRecoveryShares(u)
  /\ UNCHANGED <<trustVars, rsaKey, pem, splits, rows, shareFiles, applied, dialogVars>>

-----------------------------------------------------------------------------
(* Reconstruction *)

Enter(f, cipher) ==
  /\ Len(entries) < bound.entry
  /\ entries' = Append(entries, [share |-> f.share, cipher |-> cipher])
  /\ UNCHANGED <<trustVars, rsaKey, pem, splits, rows, shareFiles, held, applied, session, dialog, result>>

\* An unlocked owner decrypts what he imports.
ImportShareFile(f) == dialog = "recovery" /\ DecryptShare(Owner, f) /\ Enter(f, FALSE)

\* The dialog of the lock screen has no key to decrypt with and takes the contents of the
\* file as they are; encrypted contents are longer than a share.
ImportShareFileLocked(f) == dialog = "unlock" /\ Enter(f, f.to # Plain)

\* Shares of one length are needed, and two of them; their threshold is not
\* looked at.  What encrypted contents give is no key of anything: NoSecret.
Reconstruct ==
  /\ Len(entries) >= 2
  /\ \A i, j \in DOMAIN entries : entries[i].cipher = entries[j].cipher
  /\ LET key == ReconstructSecret([i \in DOMAIN entries |->
                                     <<entries[i].share.index, entries[i].share.byte>>])
     IN  /\ key # NoSecret
         /\ result' = [key |-> IF entries[1].cipher THEN NoSecret ELSE key, from |-> entries]
  /\ UNCHANGED <<trustVars, rsaKey, pem, splits, rows, shareFiles, held, applied, session, dialog, entries>>

\* do_reconstruct of either dialog.
DoReconstruct == dialog = "recovery" /\ Reconstruct
DoReconstructLocked == dialog = "unlock" /\ Reconstruct

\* apply_as_master_key: the reconstructed key becomes the global secret.
ApplyAsMasterKey ==
  /\ dialog = "recovery"
  /\ result.from # <<>>
  /\ applied' = [key |-> result.key, split |-> SplitOf(result.from)]
  /\ UNCHANGED <<trustVars, rsaKey, pem, splits, rows, shareFiles, held, dialogVars>>

\* apply_recovery: any reconstructed key lets the owner set a new password; his
\* RSA and signing keys are replaced, his friends, certificates and held shares kept.
ApplyRecovery ==
  /\ dialog = "unlock"
  /\ result.from # <<>>
  /\ rsaKey[Owner] < bound.rsa[Owner] /\ sigKey[Owner] < bound.key[Owner]
  /\ rsaKey' = [rsaKey EXCEPT ![Owner] = @ + 1]
  /\ sigKey' = [sigKey EXCEPT ![Owner] = @ + 1]
  /\ dialog' = "closed" /\ session' = {} /\ entries' = <<>> /\ result' = NoResult
  /\ UNCHANGED <<bound, pinned, certs, files, ledger, now, pem, splits, rows, shareFiles, held, applied>>

-----------------------------------------------------------------------------
Init ==
  /\ TrustInit
  /\ rsaKey = [u \in User |-> 1]
  /\ pem = [u \in User |-> [v \in User |-> 1]]
  /\ splits = <<>> /\ rows = {} /\ session = {} /\ shareFiles = {}
  /\ held = [u \in User |-> {}]
  /\ dialog = "closed" /\ entries = <<>> /\ result = NoResult /\ applied = [key |-> NoSecret, split |-> 0]

ShareNext ==
  \/ \E u \in bound.user :
       \/ RotateRsa(u)
       \/ \E v \in bound.user : DoUpdatePem(u, v)
       \/ RemoveOwner(u)
       \/ \E f \in shareFiles : ImportHeldShare(u, f)
       \/ \E h \in held[u] : ExportBack(u, h) \/ DeleteSelected(u, h)
       \/ DoRevokeRecoveryShares(u)
  \/ \E selected \in SUBSET (User \ {Owner}), scheme \in Scheme :
       \E saved \in 0..scheme[1] : DoSplit(selected, scheme, saved)
  \/ \E f \in session : ExportShare(f)
  \/ \E d \in {"closed", "recovery", "unlock"} : OpenDialog(d)
  \/ \E f \in shareFiles : ImportShareFile(f) \/ ImportShareFileLocked(f)
  \/ DoReconstruct \/ DoReconstructLocked
  \/ ApplyAsMasterKey
  \/ ApplyRecovery

\* An instance without splits explores the trust chain alone.
Next == (TrustNext /\ UNCHANGED shareVars) \/ (bound.split > 0 /\ ShareNext)

Spec == Init /\ [][Next]_vars

-----------------------------------------------------------------------------
(* Properties *)

(* A key that was reconstructed from the threshold of one split, or more,  *)
(* is the key that was split, whatever way the shares took (encrypted to    *)
(* the holders, kept by them, sent back) and whichever dialog it was; and   *)
(* so is the key that became the global secret.                             *)
EnoughSharesRecover ==
  LET shown == [key |-> result.key, split |-> SplitOf(result.from)]
  IN  /\ shown.split # 0 /\ ~result.from[1].cipher => shown.key = KeyByte[shown.split]
      /\ applied.split # 0 => applied.key = KeyByte[applied.split]
=============================================================================

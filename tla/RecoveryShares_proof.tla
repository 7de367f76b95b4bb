------------------------ MODULE RecoveryShares_proof ------------------------
(***************************************************************************)
(* Proofs about the trust chain and the recovery shares that travel beside *)
(* it, for any users, instances, certificate types and validity periods.   *)
(***************************************************************************)
EXTENDS RecoveryShares, FiniteSetTheorems, TLAPS

File == [kind : {"single", "bundle", "exchange"}, rows : SUBSET Cert, key : Key \cup {NoKey}]

TrustTypes ==
  /\ bound \in Instance
  /\ sigKey \in [User -> Nat]
  /\ pinned \in [User -> [User -> Nat]]
  /\ certs \in [User -> SUBSET Cert]
  /\ files \in SUBSET File
  /\ ledger \in SUBSET Cert /\ IsFiniteSet(ledger)
  /\ now \in Nat

\* A key that is pinned, or travels in an exchange file, is one its owner has generated.
KeysGenerated ==
  /\ \A u \in User : sigKey[u] <= bound.key[u]
  /\ \A u, v \in User : pinned[u][v] <= sigKey[v]
  /\ \A f \in files : f.kind = "exchange" => f.key \in Key /\ f.key[2] <= sigKey[f.key[1]]
  /\ now <= bound.day

\* The signature is over the contents, and made with a key of the issuer.
Verified(c) == c.sig = <<c.issuerPub, SignedData(c)>> /\ c.issuerPub[1] = c.issuer

\* Certificates are numbered in the order they are issued, and signed.
LedgerSigned ==
  /\ \A c \in ledger : c.id \in 1 .. Cardinality(ledger) /\ Verified(c) /\ ~c.revoked
  /\ \A c, d \in ledger : c.id = d.id => c = d

\* c has the signature of d, and its identifier and subject unless these are altered.
CopyOf(c, d) ==
  /\ c.sig = d.sig
  /\ "id" \in bound.alter \/ c.id = d.id
  /\ "subject" \in bound.alter \/ c.subject = d.subject

FromLedger(c) == c.id \in 0 .. Cardinality(ledger) /\ \E d \in ledger : CopyOf(c, d)

\* Every row of a table or a file is a copy of a certificate that was issued, and the rows of
\* the tables were verified.
RowsIssued ==
  /\ \A u \in User : \A c \in certs[u] : FromLedger(c) /\ Verified(c)
  /\ \A f \in files : \A c \in f.rows : FromLedger(c)

UniqueIds(rs) == \A c, d \in rs : c.id = d.id => c = d

\* No table has two rows with the same identifier; a file may.
RowsUnique == \A u \in User : UniqueIds(certs[u])

\* The inductive invariant of the trust chain.
TrustInv == TrustTypes /\ KeysGenerated /\ LedgerSigned /\ RowsIssued /\ RowsUnique

-----------------------------------------------------------------------------
(* Rows *)

Revoked(c) == [c EXCEPT !.revoked = TRUE]

LEMMA CertFacts ==
  ASSUME NEW c \in Cert
  PROVE  c.id \in Nat /\ c.after \in Nat /\ c.before \in Nat /\ c.issuer \in User
  BY DEF Cert

\* A revocation changes neither the signature nor what it covers.
LEMMA RevokedFacts ==
  ASSUME NEW c \in Cert
  PROVE  /\ Revoked(c) \in Cert /\ Revoked(c).id = c.id
         /\ FromLedger(c) => FromLedger(Revoked(c))
         /\ Verified(c) => Verified(Revoked(c))
         /\ FactOf(Revoked(c)) = FactOf(c)
  <1>1. /\ Revoked(c) \in Cert /\ Revoked(c).id = c.id /\ Revoked(c).sig = c.sig
        /\ Revoked(c).subject = c.subject /\ Revoked(c).issuer = c.issuer
        /\ Revoked(c).issuerPub = c.issuerPub /\ Revoked(c).subjectPub = c.subjectPub
        /\ Revoked(c).type = c.type /\ Revoked(c).before = c.before /\ Revoked(c).after = c.after
    BY DEF Cert, Revoked
  <1> QED BY <1>1 DEF FromLedger, CopyOf, Verified, SignedData, FactOf

\* Two verified rows with one signature say the same.
LEMMA SameSignature ==
  ASSUME NEW c, NEW d, Verified(c), Verified(d), c.sig = d.sig
  PROVE  /\ c.issuer = d.issuer /\ c.issuerPub = d.issuerPub /\ c.subjectPub = d.subjectPub
         /\ c.type = d.type /\ c.before = d.before /\ c.after = d.after
         /\ FactOf(c) = FactOf(d)
  <1>1. <<c.issuerPub, SignedData(c)>> = <<d.issuerPub, SignedData(d)>>
    BY DEF Verified
  <1>2. c.issuerPub = d.issuerPub /\ SignedData(c) = SignedData(d)
    BY <1>1
  <1>3. /\ c.subjectPub = d.subjectPub /\ c.type = d.type /\ c.before = d.before
        /\ c.after = d.after
    BY <1>2 DEF SignedData
  <1> QED BY <1>2, <1>3 DEF Verified, FactOf

LEMMA SavedRows ==
  ASSUME NEW table \in SUBSET Cert, NEW rs \in SUBSET Cert, UniqueIds(table), UniqueIds(rs)
  PROVE  /\ Saved(table, rs) \in SUBSET Cert /\ UniqueIds(Saved(table, rs))
         /\ Saved(table, rs) \subseteq table \cup rs
         /\ rs \subseteq Saved(table, rs)
  BY DEF Saved, UniqueIds

\* What an import saves: rows of the file that are verified, one for each identifier.
LEMMA AcceptedRows ==
  ASSUME NEW u, NEW rs, NEW S \in LastOfEach(Accepted(u, rs))
  PROVE  S \in SUBSET Cert /\ S \subseteq rs /\ UniqueIds(S) /\ \A c \in S : Verified(c)
  <1>1. S \subseteq Accepted(u, rs) /\ UniqueIds(S)
    BY DEF LastOfEach, UniqueIds
  <1>2. ASSUME NEW c \in Accepted(u, rs)
        PROVE  c \in rs /\ c \in Cert /\ Verified(c)
    <2>1. /\ c \in rs /\ c \in Cert /\ c.issuerPub = ExpectedIssuerPub(u, c.issuer)
          /\ c.sig = <<c.issuerPub, SignedData(c)>>
      BY DEF Accepted, VerifyCertObject
    <2>2. c.issuerPub[1] = c.issuer
      BY <2>1 DEF ExpectedIssuerPub
    <2> QED BY <2>1, <2>2 DEF Verified
  <1> QED BY <1>1, <1>2

LEMMA UserBound == TrustTypes => bound.user \subseteq User /\ bound.key \in [User -> Nat]
                                 /\ bound.type \subseteq CertType
                                 /\ bound.cert \in Nat /\ bound.day \in Nat
  BY InstanceAssumption DEF TrustTypes

-----------------------------------------------------------------------------
(* The kinds of steps the trust chain takes, seen from its invariant. *)

\* A user gets new signing keys.
KeyStep ==
  /\ \E u \in User : sigKey[u] < bound.key[u] /\ sigKey' = [sigKey EXCEPT ![u] = @ + 1]
  /\ UNCHANGED <<bound, pinned, certs, files, ledger, now>>

\* u pins a key that v has generated, or drops the one he had.
Pins(u, v) ==
  \E g \in Nat : g <= sigKey[v] /\ pinned' = [pinned EXCEPT ![u][v] = g]

PinStep ==
  /\ \E u, v \in User : Pins(u, v)
  /\ UNCHANGED <<bound, sigKey, certs, files, ledger, now>>

\* u imports rows of a file, and perhaps pins its key.
ImportStep ==
  /\ \E u \in User, f \in files : \E rs \in SUBSET f.rows :
       \E S \in LastOfEach(Accepted(u, rs)) : certs' = [certs EXCEPT ![u] = Saved(@, S)]
  /\ pinned' = pinned \/ \E u, v \in User : Pins(u, v)
  /\ UNCHANGED <<bound, sigKey, files, ledger, now>>

\* u revokes some of his rows.
RevokeStep ==
  /\ \E u \in User : \E rs \in SUBSET certs[u] :
       certs' = [certs EXCEPT ![u] = Saved(@, {Revoked(c) : c \in rs})]
  /\ UNCHANGED <<bound, sigKey, pinned, files, ledger, now>>

IssueStep == \E u, v \in User, type \in CertType, days \in Days : DoIssue(u, v, type, days)

\* u writes rows of his to a file.
WriteStep ==
  /\ \E u \in User, f \in File :
       /\ f.rows \subseteq certs[u]
       /\ f.kind = "exchange" => f.key = <<u, sigKey[u]>>
       /\ files' = files \cup {f}
  /\ UNCHANGED <<bound, sigKey, pinned, certs, ledger, now>>

DamageStep == \E f \in files : Damage(f)

TrustStep ==
  KeyStep \/ PinStep \/ ImportStep \/ RevokeStep \/ IssueStep \/ WriteStep \/ DamageStep
  \/ Tick \/ UNCHANGED trustVars

\* A row that is saved with its flag set was revoked.
LEMMA RevokeIsStep ==
  ASSUME TrustTypes, NEW u \in User, NEW c \in certs[u], RevokeCertificate(u, c),
         UNCHANGED <<bound, sigKey, pinned, files, ledger, now>>
  PROVE  RevokeStep
  <1>1. {Revoked(d) : d \in {c}} = {[c EXCEPT !.revoked = TRUE]}
    BY DEF Revoked
  <1>2. certs' = [certs EXCEPT ![u] = Saved(@, {Revoked(d) : d \in {c}})] /\ {c} \in SUBSET certs[u]
    BY <1>1 DEF RevokeCertificate
  <1> QED BY <1>2 DEF RevokeStep

LEMMA WriteIsStep ==
  ASSUME TrustTypes, NEW u \in User, NEW rs \in SUBSET certs[u], NEW k \in {"single", "bundle"},
         \/ Write([kind |-> k, rows |-> rs, key |-> NoKey])
         \/ Write([kind |-> "exchange", rows |-> rs, key |-> <<u, sigKey[u]>>])
  PROVE  WriteStep
  <1>1. rs \in SUBSET Cert /\ <<u, sigKey[u]>> \in Key
    BY DEF TrustTypes, Key
  <1>2. /\ [kind |-> k, rows |-> rs, key |-> NoKey] \in File
        /\ [kind |-> "exchange", rows |-> rs, key |-> <<u, sigKey[u]>>] \in File
    BY <1>1 DEF File
  <1> QED BY <1>2 DEF WriteStep, Write

LEMMA ImportIsStep ==
  ASSUME TrustInv, NEW u \in User, NEW f \in files, NEW selected \in BOOLEAN,
         \/ ImportCertDialog(u, f) \/ DoImport(u, f) \/ DoImportHybridSigKey(u, f, selected)
  PROVE  ImportStep
  <1>1. CASE ImportCertDialog(u, f)
    BY <1>1 DEF ImportCertDialog, ImportStep, ImportReceivedCerts
  <1>2. CASE DoImport(u, f)
    <2>1. {} \in SUBSET f.rows /\ f.rows \in SUBSET f.rows
      OBVIOUS
    <2> QED BY <2>1, <1>2 DEF DoImport, ImportStep, ImportReceivedCerts
  <1>3. CASE DoImportHybridSigKey(u, f, selected)
    <2>1. f.key \in Key /\ f.key[2] <= sigKey[f.key[1]]
      BY <1>3 DEF DoImportHybridSigKey, TrustInv, KeysGenerated
    <2>2. f.key[1] \in User /\ f.key[2] \in Nat
      BY <2>1 DEF Key
    <2>3. pinned' = pinned \/ Pins(u, f.key[1])
      BY <1>3, <2>1, <2>2 DEF DoImportHybridSigKey, Pins
    <2>4. /\ \E S \in LastOfEach(Accepted(u, f.rows)) : certs' = [certs EXCEPT ![u] = Saved(@, S)]
          /\ f.rows \in SUBSET f.rows
      BY <1>3 DEF DoImportHybridSigKey, ImportReceivedCerts
    <2>5. UNCHANGED <<bound, sigKey, files, ledger, now>>
      BY <1>3 DEF DoImportHybridSigKey
    <2> QED BY <2>2, <2>3, <2>4, <2>5 DEF ImportStep
  <1> QED BY <1>1, <1>2, <1>3

LEMMA PinIsStep ==
  ASSUME TrustInv, NEW u \in User, NEW v \in User,
         \/ DoUpdateHsig(u, v) \/ DoUpdateDelegatorKey(u, v) \/ DoRemoveAllKeys(u, v)
         \/ v = Owner /\ RemoveOwner(u)
  PROVE  PinStep
  <1>1. sigKey[v] \in Nat /\ 0 <= sigKey[v] /\ sigKey[v] <= sigKey[v] /\ 0 \in Nat
    BY DEF TrustInv, TrustTypes
  <1>2. Pins(u, v)
    BY <1>1 DEF Pins, DoUpdateHsig, DoUpdateDelegatorKey, DoRemoveAllKeys, DelegatedPin, RemoveOwner
  <1>3. UNCHANGED <<bound, sigKey, certs, files, ledger, now>>
    BY DEF DoUpdateHsig, DoUpdateDelegatorKey, DoRemoveAllKeys, RemoveOwner
  <1> QED BY <1>2, <1>3 DEF PinStep

\* Every step of the composed system is of one of these kinds.
LEMMA TrustNextIsStep ==
  ASSUME TrustInv, TrustNext
  PROVE  TrustStep
  <1> USE DEF TrustInv
  <1>1. bound.user \subseteq User /\ bound.type \subseteq CertType
    BY UserBound
  <1>2. ASSUME NEW u \in User, GenerateHybridSig(u) PROVE KeyStep
    BY <1>2 DEF GenerateHybridSig, KeyStep
  <1>3. ASSUME NEW u \in User, NEW c \in certs[u], DoRevoke(u, c) PROVE RevokeStep
    BY <1>3, RevokeIsStep DEF DoRevoke
  <1>4. ASSUME NEW u \in User, NEW c \in certs[u], DoExport(u, c) PROVE WriteStep
    <2>1. {c} \in SUBSET certs[u]
      OBVIOUS
    <2> QED BY <1>4, <2>1, WriteIsStep DEF DoExport
  <1>5. ASSUME NEW u \in User,
               DoExportDelegation(u) \/ DoExportAll(u) \/ ExportCertBundleDialog(u)
                 \/ ExportCertsWithKey(u)
        PROVE  WriteStep
    <2>1. /\ GetAllCertificates(u) \in SUBSET certs[u]
          /\ ExportDelegationCertificates(u) \in SUBSET certs[u]
          /\ GetCertsIssuedByMe(u) \in SUBSET certs[u]
      BY DEF GetAllCertificates, ExportDelegationCertificates, GetCertsIssuedByMe,
             TrustCertificatesFor
    <2> QED BY <1>5, <2>1, WriteIsStep
            DEF DoExportDelegation, DoExportAll, ExportCertBundleDialog, ExportCertsWithKey,
                ExportTrustBundle
  <1>6. ASSUME NEW u \in User, NEW f \in files, NEW selected \in BOOLEAN,
               ImportCertDialog(u, f) \/ ImportCertFileDialog(u, f) \/ DoImport(u, f)
                 \/ DoImportHybridSigKey(u, f, selected)
        PROVE  ImportStep
    BY <1>6, ImportIsStep DEF ImportCertFileDialog
  <1>7. ASSUME NEW u \in User, NEW v \in User, CtxRevokeCert(u, v) PROVE RevokeStep
    <2>1. ChooseCert(u, v) \subseteq certs[u]
      BY DEF ChooseCert, GetCertsForFriend, TrustCertificatesFor
    <2> QED BY <1>7, <2>1, RevokeIsStep DEF CtxRevokeCert
  <1>8. ASSUME NEW u \in User, NEW v \in User, DoRevokeAllDelegatorCerts(u, v) PROVE RevokeStep
    <2> DEFINE rs == {d \in GetCertsForFriend(u, v) : Valid(d)}
    <2>1. rs \in SUBSET certs[u]
      BY DEF GetCertsForFriend, TrustCertificatesFor
    <2>2. certs' = [certs EXCEPT ![u] = Saved(@, {Revoked(c) : c \in rs})]
      BY <1>8 DEF DoRevokeAllDelegatorCerts, RevokeAllCertsForDelegator, Revoked
    <2>3. UNCHANGED <<bound, sigKey, pinned, files, ledger, now>>
      BY <1>8 DEF DoRevokeAllDelegatorCerts
    <2> HIDE DEF rs
    <2> QED BY <2>1, <2>2, <2>3 DEF RevokeStep
  <1>9. ASSUME NEW u \in User, NEW v \in User,
               DoUpdateHsig(u, v) \/ DoUpdateDelegatorKey(u, v) \/ DoRemoveAllKeys(u, v)
        PROVE  PinStep
    BY <1>9, PinIsStep
  <1>10. ASSUME NEW u \in User, NEW v \in User, NEW type \in CertType, NEW days \in Days,
                DoIssue(u, v, type, days)
         PROVE  IssueStep
    BY <1>10 DEF IssueStep
  <1>11. CASE \E f \in files : Damage(f)
    BY <1>11 DEF DamageStep, TrustStep
  <1>12. CASE Tick
    BY <1>12 DEF TrustStep
  <1>13. ASSUME NEW u \in bound.user,
               \/ GenerateHybridSig(u)
               \/ \E c \in certs[u] : DoRevoke(u, c) \/ DoExport(u, c)
               \/ DoExportDelegation(u) \/ DoExportAll(u) \/ ExportCertBundleDialog(u)
               \/ ExportCertsWithKey(u)
         PROVE  TrustStep
    BY <1>1, <1>2, <1>3, <1>4, <1>5, <1>13 DEF TrustStep
  <1>14. ASSUME NEW u \in bound.user, NEW f \in files,
               \/ ImportCertDialog(u, f) \/ ImportCertFileDialog(u, f) \/ DoImport(u, f)
               \/ \E selected \in BOOLEAN : DoImportHybridSigKey(u, f, selected)
         PROVE  TrustStep
    BY <1>1, <1>6, <1>14 DEF TrustStep
  <1>15. ASSUME NEW u \in bound.user, NEW v \in bound.user,
               \/ DoUpdateHsig(u, v) \/ CtxRevokeCert(u, v)
               \/ \E type \in bound.type, days \in Days : DoIssue(u, v, type, days)
               \/ DoUpdateDelegatorKey(u, v) \/ DoRemoveAllKeys(u, v)
               \/ DoRevokeAllDelegatorCerts(u, v)
         PROVE  TrustStep
    BY <1>1, <1>7, <1>8, <1>9, <1>10, <1>15 DEF TrustStep
  <1> QED BY <1>11, <1>12, <1>13, <1>14, <1>15 DEF TrustNext

LEMMA ShareNextIsStep ==
  ASSUME TrustInv, ShareNext
  PROVE  TrustStep
  <1> USE DEF TrustInv
  <1>1. bound.user \subseteq User /\ Owner \in User
    BY UserBound, SharesAssumption
  <1>2. ASSUME NEW u \in User, RemoveOwner(u) PROVE PinStep
    BY <1>1, <1>2, PinIsStep
  <1>3. ASSUME ApplyRecovery PROVE KeyStep
    BY <1>1, <1>3 DEF ApplyRecovery, KeyStep
  <1>4. ASSUME NEW u, NEW v,
               \/ RotateRsa(u) \/ DoUpdatePem(u, v) \/ ImportHeldShare(u, v)
               \/ ExportBack(u, v) \/ DeleteSelected(u, v) \/ DoRevokeRecoveryShares(u)
        PROVE  UNCHANGED trustVars
    BY <1>4 DEF RotateRsa, DoUpdatePem, ImportHeldShare, ExportBack, DeleteSelected,
                DoRevokeRecoveryShares, RevokeDelegatorRecoveryShares
  <1>5. ASSUME NEW f,
               \/ \E selected \in SUBSET (User \ {Owner}), scheme \in Scheme :
                    \E saved \in 0..scheme[1] : DoSplit(selected, scheme, saved)
               \/ ExportShare(f) \/ OpenDialog(f) \/ ImportShareFile(f) \/ ImportShareFileLocked(f)
               \/ DoReconstruct \/ DoReconstructLocked \/ ApplyAsMasterKey
        PROVE  UNCHANGED trustVars
    BY <1>5 DEF DoSplit, ExportShare, OpenDialog, ImportShareFile, ImportShareFileLocked, Enter,
                DoReconstruct, DoReconstructLocked, Reconstruct, ApplyAsMasterKey
  <1> QED BY <1>1, <1>2, <1>3, <1>4, <1>5 DEF ShareNext, TrustStep

LEMMA NextIsStep ==
  ASSUME TrustInv, [Next]_vars
  PROVE  TrustStep
  <1>1. CASE UNCHANGED vars
    BY <1>1 DEF vars, TrustStep
  <1> QED BY <1>1, TrustNextIsStep, ShareNextIsStep DEF Next

-----------------------------------------------------------------------------
(* The trust chain's invariant *)

LEMMA TrustInitInv == Init => TrustInv
  <1> SUFFICES ASSUME Init PROVE TrustInv
    OBVIOUS
  <1> USE DEF Init, TrustInit
  <1>1. TrustTypes
    BY FS_EmptySet DEF TrustTypes
  <1>2. KeysGenerated
    BY <1>1, UserBound DEF KeysGenerated
  <1>3. LedgerSigned /\ RowsIssued /\ RowsUnique
    BY DEF LedgerSigned, RowsIssued, RowsUnique, UniqueIds
  <1> QED BY <1>1, <1>2, <1>3 DEF TrustInv

LEMMA KeyStepPreserves ==
  ASSUME TrustInv, KeyStep
  PROVE  TrustInv'
  <1> USE DEF TrustInv, KeyStep
  <1>1. PICK u \in User : sigKey[u] < bound.key[u] /\ sigKey' = [sigKey EXCEPT ![u] = @ + 1]
    OBVIOUS
  <1>2. TrustTypes' /\ LedgerSigned' /\ RowsIssued' /\ RowsUnique'
    BY <1>1 DEF TrustTypes, LedgerSigned, RowsIssued, FromLedger, CopyOf, RowsUnique
  <1>3. \A v \in User : sigKey[v] <= sigKey'[v] /\ sigKey'[v] <= bound.key[v] /\ sigKey[v] \in Nat
                        /\ sigKey'[v] \in Nat
    BY <1>1, UserBound DEF TrustTypes, KeysGenerated
  <1>4. KeysGenerated'
    <2>1. \A v, w \in User : pinned'[v][w] <= sigKey'[w]
      BY <1>3 DEF KeysGenerated, TrustTypes
    <2>2. ASSUME NEW f \in files, f.kind = "exchange"
          PROVE  f.key \in Key /\ f.key[2] <= sigKey'[f.key[1]]
      <3>1. f.key \in Key /\ f.key[2] <= sigKey[f.key[1]]
        BY <2>2 DEF KeysGenerated
      <3>2. f.key[1] \in User /\ f.key[2] \in Nat
        BY <3>1 DEF Key
      <3> QED BY <3>1, <3>2, <1>3
    <2> QED BY <2>1, <2>2, <1>3 DEF KeysGenerated
  <1> QED BY <1>2, <1>4

LEMMA PinsKeep ==
  ASSUME TrustInv, pinned' = pinned \/ \E u, v \in User : Pins(u, v), UNCHANGED sigKey
  PROVE  pinned' \in [User -> [User -> Nat]] /\ \A u, v \in User : pinned'[u][v] <= sigKey[v]
  <1> USE DEF TrustInv, TrustTypes, KeysGenerated
  <1>1. CASE pinned' = pinned
    BY <1>1
  <1>2. ASSUME NEW u \in User, NEW v \in User, Pins(u, v)
        PROVE  pinned' \in [User -> [User -> Nat]] /\ \A x, y \in User : pinned'[x][y] <= sigKey[y]
    BY <1>2 DEF Pins
  <1> QED BY <1>1, <1>2

LEMMA PinStepPreserves ==
  ASSUME TrustInv, PinStep
  PROVE  TrustInv'
  BY PinsKeep DEF PinStep, TrustInv, TrustTypes, KeysGenerated, LedgerSigned, RowsIssued, FromLedger,
                  CopyOf, RowsUnique

\* A table in which verified copies are saved is one of verified copies.
LEMMA SavePreserves ==
  ASSUME TrustInv, NEW u \in User, NEW new \in SUBSET Cert, UniqueIds(new),
         \A c \in new : FromLedger(c) /\ Verified(c),
         certs' = [certs EXCEPT ![u] = Saved(@, new)],
         UNCHANGED <<bound, files, ledger>>
  PROVE  certs' \in [User -> SUBSET Cert] /\ LedgerSigned' /\ RowsIssued' /\ RowsUnique'
  <1> USE DEF TrustInv
  <1>1. certs'[u] = Saved(certs[u], new) /\ \A v \in User \ {u} : certs'[v] = certs[v]
    BY DEF TrustTypes
  <1>2. /\ certs'[u] \in SUBSET Cert /\ UniqueIds(certs'[u])
        /\ certs'[u] \subseteq certs[u] \cup new
    BY <1>1, SavedRows DEF TrustTypes, RowsUnique
  <1>3. certs' \in [User -> SUBSET Cert]
    BY <1>1, <1>2 DEF TrustTypes
  <1>4. \A c : FromLedger(c)' <=> FromLedger(c)
    BY DEF FromLedger, CopyOf
  <1>5. RowsIssued'
    BY <1>1, <1>2, <1>4 DEF RowsIssued
  <1>6. LedgerSigned' /\ RowsUnique'
    BY <1>1, <1>2 DEF LedgerSigned, RowsUnique
  <1> QED BY <1>3, <1>5, <1>6

LEMMA ImportStepPreserves ==
  ASSUME TrustInv, ImportStep
  PROVE  TrustInv'
  <1> USE DEF TrustInv
  <1>1. PICK u \in User, f \in files : \E rs \in SUBSET f.rows :
               \E S \in LastOfEach(Accepted(u, rs)) : certs' = [certs EXCEPT ![u] = Saved(@, S)]
    BY DEF ImportStep
  <1>2. PICK rs \in SUBSET f.rows :
               \E S \in LastOfEach(Accepted(u, rs)) : certs' = [certs EXCEPT ![u] = Saved(@, S)]
    BY <1>1
  <1>3. PICK S \in LastOfEach(Accepted(u, rs)) : certs' = [certs EXCEPT ![u] = Saved(@, S)]
    BY <1>2
  <1>4. S \in SUBSET Cert /\ S \subseteq f.rows /\ UniqueIds(S) /\ \A c \in S : Verified(c)
    BY AcceptedRows
  <1>5. \A c \in S : FromLedger(c)
    BY <1>4 DEF RowsIssued
  <1>6. UNCHANGED <<bound, sigKey, files, ledger, now>>
    BY DEF ImportStep
  <1>7. certs' \in [User -> SUBSET Cert] /\ LedgerSigned' /\ RowsIssued' /\ RowsUnique'
    BY <1>3, <1>4, <1>5, <1>6, SavePreserves
  <1>8. pinned' \in [User -> [User -> Nat]] /\ \A w, v \in User : pinned'[w][v] <= sigKey[v]
    BY PinsKeep DEF ImportStep
  <1>9. TrustTypes' /\ KeysGenerated'
    BY <1>6, <1>7, <1>8 DEF TrustTypes, KeysGenerated
  <1> QED BY <1>7, <1>9

LEMMA RevokeStepPreserves ==
  ASSUME TrustInv, RevokeStep
  PROVE  TrustInv'
  <1> USE DEF TrustInv
  <1>1. PICK u \in User : \E rs \in SUBSET certs[u] :
               certs' = [certs EXCEPT ![u] = Saved(@, {Revoked(c) : c \in rs})]
    BY DEF RevokeStep
  <1>2. PICK rs \in SUBSET certs[u] : certs' = [certs EXCEPT ![u] = Saved(@, {Revoked(c) : c \in rs})]
    BY <1>1
  <1> DEFINE new == {Revoked(c) : c \in rs}
  <1>3. certs[u] \in SUBSET Cert
    BY DEF TrustTypes
  <1>4. new \in SUBSET Cert /\ UniqueIds(new) /\ \A c \in new : FromLedger(c) /\ Verified(c)
    BY <1>3, RevokedFacts DEF UniqueIds, RowsUnique, RowsIssued
  <1>5. UNCHANGED <<bound, sigKey, pinned, files, ledger, now>>
    BY DEF RevokeStep
  <1>6. certs' = [certs EXCEPT ![u] = Saved(@, new)]
    BY <1>2
  <1> HIDE DEF new
  <1>7. certs' \in [User -> SUBSET Cert] /\ LedgerSigned' /\ RowsIssued' /\ RowsUnique'
    BY <1>4, <1>5, <1>6, SavePreserves
  <1>8. TrustTypes' /\ KeysGenerated'
    BY <1>5, <1>7 DEF TrustTypes, KeysGenerated
  <1> QED BY <1>7, <1>8

\* What issue_certificate writes.
Issued(u, v, type, days) ==
  [id |-> Cardinality(ledger) + 1, subject |-> v, subjectPub |-> <<v, pinned[u][v]>>,
   issuer |-> u, issuerPub |-> <<u, sigKey[u]>>, type |-> type,
   before |-> now, after |-> now + days,
   sig |-> <<<<u, sigKey[u]>>, <<<<v, pinned[u][v]>>, type, now, now + days>>>>,
   revoked |-> FALSE]

LEMMA IssueFacts ==
  ASSUME TrustInv, NEW u \in User, NEW v \in User, NEW type \in CertType, NEW days \in Days,
         DoIssue(u, v, type, days)
  PROVE  LET c == Issued(u, v, type, days)
         IN  /\ c \in Cert /\ c.id = Cardinality(ledger) + 1 /\ Verified(c) /\ ~ c.revoked
             /\ certs' = [certs EXCEPT ![u] = Saved(@, {c})]
             /\ ledger' = ledger \cup {c} /\ c \notin ledger
             /\ IsFiniteSet(ledger') /\ Cardinality(ledger') = Cardinality(ledger) + 1
             /\ Cardinality(ledger) \in Nat
             /\ UNCHANGED <<bound, sigKey, pinned, files, now>>
  <1> DEFINE c == Issued(u, v, type, days)
  <1> USE DEF TrustInv
  <1>1. days \in Nat /\ Cardinality(ledger) \in Nat
    BY DaysAssumption, FS_CardinalityType DEF TrustTypes
  <1>2. <<u, sigKey[u]>> \in Key /\ <<v, pinned[u][v]>> \in Key /\ now + days \in Nat /\ now \in Nat
    BY <1>1 DEF TrustTypes, Key
  <1>3. c \in Cert
    BY <1>1, <1>2 DEF Cert, Issued
  <1>4. c.id = Cardinality(ledger) + 1 /\ ~ c.revoked
    BY DEF Issued
  <1>5. certs' = [certs EXCEPT ![u] = Saved(@, {c})] /\ ledger' = ledger \cup {c}
    BY DEF DoIssue, IssueCertificate, SignedData, Issued
  <1>6. UNCHANGED <<bound, sigKey, pinned, files, now>>
    BY DEF DoIssue
  <1> HIDE DEF c
  <1>7. c \notin ledger
    BY <1>1, <1>4 DEF LedgerSigned
  <1>8. IsFiniteSet(ledger') /\ Cardinality(ledger') = Cardinality(ledger) + 1
    BY <1>5, <1>7, FS_AddElement DEF TrustTypes
  <1>9. Verified(c)
    BY DEF Verified, SignedData, Issued, c
  <1> QED BY <1>1, <1>3, <1>4, <1>5, <1>6, <1>7, <1>8, <1>9 DEF c

LEMMA IssueStepPreserves ==
  ASSUME TrustInv, IssueStep
  PROVE  TrustInv'
  <1> USE DEF TrustInv
  <1>1. PICK u \in User, v \in User, type \in CertType, days \in Days : DoIssue(u, v, type, days)
    BY DEF IssueStep
  <1>2. PICK c \in Cert :
        /\ c.id = Cardinality(ledger) + 1 /\ Verified(c) /\ ~ c.revoked
        /\ certs' = [certs EXCEPT ![u] = Saved(@, {c})]
        /\ ledger' = ledger \cup {c} /\ c \notin ledger
        /\ IsFiniteSet(ledger') /\ Cardinality(ledger') = Cardinality(ledger) + 1
        /\ Cardinality(ledger) \in Nat
        /\ UNCHANGED <<bound, sigKey, pinned, files, now>>
    BY <1>1, IssueFacts
  <1>3. certs'[u] = Saved(certs[u], {c}) /\ \A w \in User \ {u} : certs'[w] = certs[w]
    BY <1>2 DEF TrustTypes
  <1>4. certs[u] \in SUBSET Cert /\ UniqueIds(certs[u]) /\ {c} \in SUBSET Cert /\ UniqueIds({c})
    <2>1. certs[u] \in SUBSET Cert
      BY DEF TrustTypes
    <2>2. UniqueIds(certs[u])
      BY DEF RowsUnique
    <2>3. {c} \in SUBSET Cert
      BY <1>2
    <2>4. UniqueIds({c})
      BY DEF UniqueIds
    <2> QED BY <2>1, <2>2, <2>3, <2>4
  <1>5. certs'[u] \in SUBSET Cert /\ UniqueIds(certs'[u]) /\ certs'[u] \subseteq certs[u] \cup {c}
    <2> DEFINE rs == {c}
    <2>1. rs \in SUBSET Cert /\ UniqueIds(rs) /\ certs'[u] = Saved(certs[u], rs)
      BY <1>3, <1>4
    <2> HIDE DEF rs
    <2>2. certs'[u] \in SUBSET Cert /\ UniqueIds(certs'[u]) /\ certs'[u] \subseteq certs[u] \cup rs
      BY <2>1, <1>4, SavedRows
    <2> QED BY <2>2 DEF rs
  <1>6. certs' \in [User -> SUBSET Cert]
    BY <1>2, <1>3, <1>5 DEF TrustTypes
  <1>7. TrustTypes' /\ KeysGenerated'
    BY <1>2, <1>6 DEF TrustTypes, KeysGenerated
  <1>8. LedgerSigned'
    <2>1. \A d \in ledger : d.id \in 1 .. Cardinality(ledger) /\ Verified(d) /\ ~ d.revoked
      BY DEF LedgerSigned
    <2>2. \A d \in ledger' : d.id \in 1 .. Cardinality(ledger') /\ Verified(d) /\ ~ d.revoked
      BY <2>1, <1>2
    <2>3. \A d, e \in ledger' : d.id = e.id => d = e
      BY <2>1, <1>2 DEF LedgerSigned
    <2> QED BY <2>2, <2>3 DEF LedgerSigned
  <1>9. RowsIssued' /\ RowsUnique'
    <2>1. ASSUME NEW d, FromLedger(d) PROVE FromLedger(d)'
      <3>1. PICK e \in ledger : CopyOf(d, e)
        BY <2>1 DEF FromLedger
      <3>2. e \in ledger' /\ CopyOf(d, e)'
        BY <3>1, <1>2 DEF CopyOf
      <3>3. d.id \in 0 .. Cardinality(ledger')
        BY <2>1, <1>2 DEF FromLedger
      <3> QED BY <3>2, <3>3 DEF FromLedger
    <2>2. FromLedger(c)'
      <3>1. c \in ledger' /\ CopyOf(c, c)'
        BY <1>2 DEF CopyOf
      <3>2. c.id \in 0 .. Cardinality(ledger')
        BY <1>2
      <3> QED BY <3>1, <3>2 DEF FromLedger
    <2>3. RowsIssued'
      BY <1>2, <1>3, <1>5, <2>1, <2>2 DEF RowsIssued
    <2>4. RowsUnique'
      BY <1>3, <1>5 DEF RowsUnique
    <2> QED BY <2>3, <2>4
  <1> QED BY <1>7, <1>8, <1>9

LEMMA WriteStepPreserves ==
  ASSUME TrustInv, WriteStep
  PROVE  TrustInv'
  <1> USE DEF TrustInv, WriteStep
  <1>1. PICK u \in User, f \in File :
               /\ f.rows \subseteq certs[u]
               /\ f.kind = "exchange" => f.key = <<u, sigKey[u]>>
               /\ files' = files \cup {f}
    OBVIOUS
  <1>2. TrustTypes' /\ LedgerSigned'
    BY <1>1 DEF TrustTypes, LedgerSigned
  <1>3. f.kind = "exchange" => f.key \in Key /\ f.key[2] <= sigKey[f.key[1]]
    <2>1. sigKey[u] \in Nat
      BY DEF TrustTypes
    <2>2. <<u, sigKey[u]>>[1] = u /\ <<u, sigKey[u]>>[2] = sigKey[u] /\ <<u, sigKey[u]>> \in Key
      BY <2>1 DEF Key
    <2> QED BY <1>1, <2>1, <2>2
  <1>4. KeysGenerated'
    BY <1>1, <1>3 DEF KeysGenerated
  <1>5. RowsIssued' /\ RowsUnique'
    <2>1. \A c : FromLedger(c)' <=> FromLedger(c)
      BY DEF FromLedger, CopyOf
    <2> QED BY <1>1, <2>1 DEF RowsIssued, RowsUnique
  <1> QED BY <1>2, <1>4, <1>5

\* A row that is altered keeps its signature, and the fields that are not altered.
LEMMA DamagedRow ==
  ASSUME TrustInv, NEW f \in files, Damage(f)
  PROVE  \E c \in f.rows, d \in Cert :
           /\ FromLedger(d) /\ d.sig = c.sig
           /\ "revoked" \in bound.alter \/ d.revoked = c.revoked
           /\ files' = (files \ {f}) \cup {[f EXCEPT !.rows = (@ \ {c}) \cup {d}]}
  <1> DEFINE Becomes(c, d) == files' = (files \ {f}) \cup {[f EXCEPT !.rows = (@ \ {c}) \cup {d}]}
  <1>1. PICK c \in f.rows :
          \/ Becomes(c, [c EXCEPT !.after = @ + 1])
          \/ \E v \in User : Becomes(c, [c EXCEPT !.issuer = v])
          \/ "subject" \in bound.alter /\ \E v \in User : Becomes(c, [c EXCEPT !.subject = v])
          \/ "revoked" \in bound.alter /\ Becomes(c, [c EXCEPT !.revoked = ~@])
          \/ "id" \in bound.alter /\ \E i \in 0..Cardinality(ledger) : Becomes(c, [c EXCEPT !.id = i])
    BY DEF Damage
  <1> DEFINE Altered(d) == /\ FromLedger(d) /\ d.sig = c.sig
                           /\ "revoked" \in bound.alter \/ d.revoked = c.revoked
  <1> HIDE DEF Becomes
  <1>2. c \in Cert /\ FromLedger(c)
    BY DEF TrustInv, TrustTypes, File, RowsIssued
  <1>3. PICK e \in ledger : CopyOf(c, e)
    BY <1>2 DEF FromLedger
  <1>4. c.id \in 0 .. Cardinality(ledger) /\ Cardinality(ledger) \in Nat
    BY <1>2, FS_CardinalityType DEF FromLedger, TrustInv, TrustTypes
  <1>5. CASE Becomes(c, [c EXCEPT !.after = @ + 1])
    <2> DEFINE d == [c EXCEPT !.after = @ + 1]
    <2>1. d \in Cert /\ d.sig = c.sig /\ d.revoked = c.revoked /\ d.id = c.id /\ d.subject = c.subject
      BY <1>2 DEF Cert
    <2> HIDE DEF d
    <2>2. FromLedger(d)
      BY <2>1, <1>3, <1>4 DEF FromLedger, CopyOf
    <2> QED BY <1>5, <2>1, <2>2 DEF d, Becomes
  <1>6. ASSUME NEW v \in User, Becomes(c, [c EXCEPT !.issuer = v])
        PROVE  \E d \in Cert : Altered(d) /\ Becomes(c, d)
    <2> DEFINE d == [c EXCEPT !.issuer = v]
    <2>1. d \in Cert /\ d.sig = c.sig /\ d.revoked = c.revoked /\ d.id = c.id /\ d.subject = c.subject
      BY <1>2 DEF Cert
    <2> HIDE DEF d
    <2>2. FromLedger(d)
      BY <2>1, <1>3, <1>4 DEF FromLedger, CopyOf
    <2> QED BY <1>6, <2>1, <2>2 DEF d
  <1>7. ASSUME NEW v \in User, "subject" \in bound.alter, Becomes(c, [c EXCEPT !.subject = v])
        PROVE  \E d \in Cert : Altered(d) /\ Becomes(c, d)
    <2> DEFINE d == [c EXCEPT !.subject = v]
    <2>1. d \in Cert /\ d.sig = c.sig /\ d.revoked = c.revoked /\ d.id = c.id
      BY <1>2 DEF Cert
    <2> HIDE DEF d
    <2>2. FromLedger(d)
      BY <2>1, <1>3, <1>4, <1>7 DEF FromLedger, CopyOf
    <2> QED BY <1>7, <2>1, <2>2 DEF d
  <1>8. CASE "revoked" \in bound.alter /\ Becomes(c, [c EXCEPT !.revoked = ~@])
    <2> DEFINE d == [c EXCEPT !.revoked = ~@]
    <2>1. d \in Cert /\ d.sig = c.sig /\ d.id = c.id /\ d.subject = c.subject
      BY <1>2 DEF Cert
    <2> HIDE DEF d
    <2>2. FromLedger(d)
      BY <2>1, <1>3, <1>4 DEF FromLedger, CopyOf
    <2> QED BY <1>8, <2>1, <2>2 DEF d, Becomes
  <1>9. ASSUME NEW i \in 0..Cardinality(ledger), "id" \in bound.alter, Becomes(c, [c EXCEPT !.id = i])
        PROVE  \E d \in Cert : Altered(d) /\ Becomes(c, d)
    <2> DEFINE d == [c EXCEPT !.id = i]
    <2>1. d \in Cert /\ d.sig = c.sig /\ d.revoked = c.revoked /\ d.id = i /\ d.subject = c.subject
      BY <1>2, <1>4 DEF Cert
    <2> HIDE DEF d
    <2>2. FromLedger(d)
      BY <2>1, <1>3, <1>9 DEF FromLedger, CopyOf
    <2> QED BY <1>9, <2>1, <2>2 DEF d
  <1> QED BY <1>1, <1>5, <1>6, <1>7, <1>8, <1>9 DEF Becomes

LEMMA DamageStepPreserves ==
  ASSUME TrustInv, DamageStep
  PROVE  TrustInv'
  <1> USE DEF TrustInv
  <1>1. PICK f \in files : Damage(f)
    BY DEF DamageStep
  <1>2. PICK c \in f.rows, d \in Cert :
          /\ FromLedger(d)
          /\ files' = (files \ {f}) \cup {[f EXCEPT !.rows = (@ \ {c}) \cup {d}]}
    BY <1>1, DamagedRow
  <1> DEFINE g == [f EXCEPT !.rows = (@ \ {c}) \cup {d}]
  <1>3. f \in File /\ f.rows \in SUBSET Cert
    BY DEF TrustTypes, File
  <1>4. g \in File /\ g.rows = (f.rows \ {c}) \cup {d} /\ g.kind = f.kind /\ g.key = f.key
    BY <1>3 DEF File
  <1>5. files' = (files \ {f}) \cup {g}
    BY <1>2
  <1> HIDE DEF g
  <1>6. UNCHANGED <<bound, sigKey, pinned, certs, ledger, now>>
    BY <1>1 DEF Damage
  <1>7. TrustTypes' /\ LedgerSigned'
    BY <1>4, <1>5, <1>6 DEF TrustTypes, LedgerSigned
  <1>8. KeysGenerated'
    BY <1>4, <1>5, <1>6 DEF KeysGenerated
  <1>9. RowsIssued' /\ RowsUnique'
    <2>1. \A x : FromLedger(x)' <=> FromLedger(x)
      BY <1>6 DEF FromLedger, CopyOf
    <2>2. RowsIssued'
      BY <1>2, <1>4, <1>5, <1>6, <2>1 DEF RowsIssued
    <2>3. RowsUnique'
      BY <1>6 DEF RowsUnique
    <2> QED BY <2>2, <2>3
  <1> QED BY <1>7, <1>8, <1>9

LEMMA TrustNextPreserves == TrustInv /\ [Next]_vars => TrustInv'
  <1> SUFFICES ASSUME TrustInv, TrustStep PROVE TrustInv'
    BY NextIsStep
  <1>1. CASE Tick
    BY <1>1, UserBound DEF Tick, TrustInv, TrustTypes, KeysGenerated, LedgerSigned, RowsIssued,
                           FromLedger, CopyOf, RowsUnique
  <1>2. CASE UNCHANGED trustVars
    BY <1>2 DEF trustVars, TrustInv, TrustTypes, KeysGenerated, LedgerSigned, RowsIssued, FromLedger,
                CopyOf, RowsUnique
  <1> QED BY <1>1, <1>2, KeyStepPreserves, PinStepPreserves, ImportStepPreserves, RevokeStepPreserves,
             IssueStepPreserves, WriteStepPreserves, DamageStepPreserves DEF TrustStep

LEMMA TrustInvariance == Spec => []TrustInv
  BY TrustInitInv, TrustNextPreserves, PTL DEF Spec

-----------------------------------------------------------------------------
(* What the trust chain shows was earned *)

\* A row was issued with the contents it has; which certificate it is, and about whom, only
\* if that was not altered.
LEMMA RowIssued ==
  ASSUME TrustInv, NEW u \in User, NEW c \in certs[u]
  PROVE  \E d \in ledger :
           /\ CopyOf(c, d) /\ d.issuer = c.issuer /\ d.type = c.type /\ d.after = c.after
           /\ FactOf(d) = FactOf(c)
  <1>1. FromLedger(c) /\ Verified(c)
    BY DEF TrustInv, RowsIssued
  <1>2. PICK d \in ledger : CopyOf(c, d)
    BY <1>1 DEF FromLedger
  <1>3. Verified(d) /\ c.sig = d.sig
    BY <1>2 DEF CopyOf, TrustInv, LedgerSigned
  <1>4. d.issuer = c.issuer /\ d.type = c.type /\ d.after = c.after /\ FactOf(d) = FactOf(c)
    BY <1>1, <1>3, SameSignature
  <1> QED BY <1>2, <1>4

LEMMA ValidIssued ==
  ASSUME TrustInv, NEW u \in User, NEW c \in certs[u], Valid(c)
  PROVE  \E d \in Running :
           /\ CopyOf(c, d) /\ d.issuer = c.issuer /\ d.type = c.type /\ FactOf(d) = FactOf(c)
  <1>1. PICK d \in ledger :
          /\ CopyOf(c, d) /\ d.issuer = c.issuer /\ d.type = c.type /\ d.after = c.after
          /\ FactOf(d) = FactOf(c)
    BY RowIssued
  <1>2. c.after \in Nat /\ now \in Nat
    BY CertFacts DEF TrustInv, TrustTypes
  <1>3. d \in Running
    BY <1>1, <1>2 DEF Running, Valid, Expired
  <1> QED BY <1>1, <1>3

\* A valid row that was altered nowhere is the certificate that was issued.
LEMMA ValidInLedger ==
  ASSUME TrustInv, NEW u \in User, NEW c \in certs[u], Valid(c), {"id", "subject"} \cap bound.alter = {}
  PROVE  c \in Running
  <1>1. PICK d \in Running :
          /\ CopyOf(c, d) /\ d.issuer = c.issuer /\ d.type = c.type /\ FactOf(d) = FactOf(c)
    BY ValidIssued
  <1>2. c \in Cert /\ d \in Cert /\ d \in ledger
    BY DEF TrustInv, TrustTypes, Running
  <1>3. Verified(c) /\ Verified(d) /\ ~ c.revoked /\ ~ d.revoked
    BY <1>2 DEF TrustInv, RowsIssued, LedgerSigned, Valid
  <1>4. c.sig = d.sig /\ c.id = d.id /\ c.subject = d.subject
    BY <1>1 DEF CopyOf
  <1>5. /\ c.issuer = d.issuer /\ c.issuerPub = d.issuerPub /\ c.subjectPub = d.subjectPub
        /\ c.type = d.type /\ c.before = d.before /\ c.after = d.after
    BY <1>3, <1>4, SameSignature
  <1>6. c = d
    BY <1>2, <1>3, <1>4, <1>5 DEF Cert
  <1> QED BY <1>6

\* get_trust_info counts valid rows; all of them are in the ledger and running.
LEMMA InfoEarned ==
  ASSUME TrustInv, NEW u \in User, NEW v \in User, {"id", "subject"} \cap bound.alter = {}
  PROVE  LET about == {c \in Running : c.subject = v}
             info == GetTrustInfo(u, v)
         IN  /\ info.count <= Cardinality(about)
             /\ info.level = "trusted" => Cardinality(about) >= 3
  <1> DEFINE about == {c \in Running : c.subject = v}
             valid == {c \in GetCertsForFriend(u, v) : Valid(c)}
             info == GetTrustInfo(u, v)
  <1>1. valid \in SUBSET about
    <2> SUFFICES ASSUME NEW c \in valid PROVE c \in about
      OBVIOUS
    <2>1. c \in certs[u] /\ c.subject = v /\ Valid(c)
      BY DEF GetCertsForFriend, TrustCertificatesFor
    <2> QED BY <2>1, ValidInLedger
  <1>2. about \in SUBSET ledger /\ IsFiniteSet(ledger)
    BY DEF TrustInv, TrustTypes, Running
  <1>3. IsFiniteSet(about)
    BY <1>2, FS_Subset
  <1>4. /\ Cardinality(valid) <= Cardinality(about)
        /\ Cardinality(valid) \in Nat /\ Cardinality(about) \in Nat
    BY <1>1, <1>3, FS_Subset, FS_CardinalityType
  <1>5. info.count = Cardinality(valid)
    BY DEF GetTrustInfo
  <1>6. info.level = "trusted" => GetTrustLevel(u, v) = 3
    BY DEF GetTrustInfo
  <1>7. GetTrustLevel(u, v) = 3 => Cardinality(valid) >= 3
    <2>1. GetTrustLevel(u, v) = IF Cardinality(valid) >= 3 THEN 3 ELSE Cardinality(valid)
      BY DEF GetTrustLevel, ComputeTrustLevel
    <2> HIDE DEF valid
    <2> QED BY <2>1, <1>4
  <1> HIDE DEF valid, about, info
  <1>8. info.count <= Cardinality(about) /\ (info.level = "trusted" => Cardinality(about) >= 3)
    BY <1>4, <1>5, <1>6, <1>7
  <1> QED BY <1>8 DEF about, info

\* _assert_delegation, get_trust_info, verify_certificate: whatever files were written,
\* altered, repeated and imported in whatever order, for any users and any number of
\* certificates, a valid row says what its issuer signed; with the subjects, and with the
\* identifiers, as they were sent, delegations and counts were earned as well.
THEOREM TrustEarned == Spec => []TrustWasEarned
  <1>1. TrustInv => TrustWasEarned
    <2> SUFFICES ASSUME TrustInv, NEW u \in User, NEW v \in User
                 PROVE  LET about == {c \in Running : c.subject = v}
                            info == GetTrustInfo(u, v)
                        IN  /\ \A c \in certs[u] :
                                 Valid(c) => \E d \in Running : d.issuer = c.issuer /\ FactOf(d) = FactOf(c)
                            /\ "subject" \notin bound.alter =>
                                 /\ AssertDelegation(v, u) =>
                                      \E c \in about : c.issuer = u /\ c.type = "delegation"
                                 /\ info.signers \subseteq {c.issuer : c \in about}
                            /\ {"id", "subject"} \cap bound.alter = {} =>
                                 /\ info.count <= Cardinality(about)
                                 /\ info.level = "trusted" => Cardinality(about) >= 3
      BY DEF TrustWasEarned
    <2> DEFINE about == {c \in Running : c.subject = v}
    <2>1. \A c \in certs[u] : Valid(c) => \E d \in Running : d.issuer = c.issuer /\ FactOf(d) = FactOf(c)
      BY ValidIssued
    <2>2. ASSUME "subject" \notin bound.alter, NEW w \in User, NEW c \in certs[w], c.subject = v, Valid(c)
          PROVE  \E d \in about : d.issuer = c.issuer /\ d.type = c.type
      BY <2>2, ValidIssued DEF CopyOf
    <2>3. ASSUME "subject" \notin bound.alter, AssertDelegation(v, u)
          PROVE  \E c \in about : c.issuer = u /\ c.type = "delegation"
      <3>1. PICK c \in GetDelegationCertsHeldByMe(v) : c.issuer = u
        BY <2>3 DEF AssertDelegation
      <3>2. c \in certs[v] /\ c.subject = v /\ Valid(c) /\ c.type = "delegation"
        BY DEF GetDelegationCertsHeldByMe, TrustCertificatesFor
      <3>3. PICK d \in about : d.issuer = c.issuer /\ d.type = c.type
        BY <3>2, <2>2, <2>3
      <3> QED BY <3>1, <3>2, <3>3
    <2>4. ASSUME "subject" \notin bound.alter
          PROVE  GetTrustInfo(u, v).signers \subseteq {c.issuer : c \in about}
      <3> DEFINE valid == {c \in GetCertsForFriend(u, v) : Valid(c)}
      <3>1. GetTrustInfo(u, v).signers = {c.issuer : c \in valid}
        BY DEF GetTrustInfo
      <3>2. \A c \in valid : c \in certs[u] /\ c.subject = v /\ Valid(c)
        BY DEF GetCertsForFriend, TrustCertificatesFor
      <3> HIDE DEF valid
      <3>3. \A c \in valid : \E d \in about : d.issuer = c.issuer
        BY <3>2, <2>2, <2>4
      <3> HIDE DEF about
      <3> QED BY <3>1, <3>3
    <2> QED BY <2>1, <2>3, <2>4, InfoEarned
  <1> QED BY <1>1, TrustInvariance, PTL

-----------------------------------------------------------------------------
(* Revocations *)

\* Rows are in tables and in files.
Copy(c) == (\E u \in User : c \in certs[u]) \/ (\E f \in files : c \in f.rows)

LiveRows == \A x : x \in LiveSignatures <=> \E c : Copy(c) /\ ~c.revoked /\ x = c.sig

LEMMA LiveRow == LiveRows
  <1>1. \A c : c \in UNION {certs[u] : u \in User} <=> \E u \in User : c \in certs[u]
    BY Zenon
  <1>2. \A c : c \in UNION {f.rows : f \in files} <=> \E f \in files : c \in f.rows
    BY Zenon
  <1>3. ASSUME NEW c
        PROVE  c \in Copies <=> Copy(c)
    <2>1. c \in Copies <=> c \in UNION {certs[u] : u \in User} \/ c \in UNION {f.rows : f \in files}
      BY Zenon DEF Copies
    <2> QED BY <1>1, <1>2, <2>1 DEF Copy
  <1> QED BY <1>3, Zenon DEF LiveRows, LiveSignatures

\* A row that is new, in a table or a file, and not revoked has the signature of one that was
\* there and not revoked, or is the certificate just issued.
LEMMA LiveComesFromLive ==
  ASSUME TrustInv, TrustStep, "revoked" \notin bound.alter, NEW c, Copy(c)', ~c.revoked
  PROVE  (\E d : Copy(d) /\ ~d.revoked /\ d.sig = c.sig) \/ c \in ledger' \ ledger
  <1> USE DEF TrustInv
  <1>1. CASE ImportStep
    <2>1. PICK u \in User, f \in files : \E rs \in SUBSET f.rows :
                 \E S \in LastOfEach(Accepted(u, rs)) : certs' = [certs EXCEPT ![u] = Saved(@, S)]
      BY <1>1 DEF ImportStep
    <2>2. PICK rs \in SUBSET f.rows :
                 \E S \in LastOfEach(Accepted(u, rs)) : certs' = [certs EXCEPT ![u] = Saved(@, S)]
      BY <2>1
    <2>3. PICK S \in LastOfEach(Accepted(u, rs)) : certs' = [certs EXCEPT ![u] = Saved(@, S)]
      BY <2>2
    <2>4. S \subseteq f.rows
      BY AcceptedRows
    <2>5. \A w \in User : certs'[w] \subseteq certs[w] \cup f.rows
      BY <2>3, <2>4 DEF TrustTypes, Saved
    <2>6. files' = files
      BY <1>1 DEF ImportStep
    <2> QED BY <2>5, <2>6 DEF Copy
  <1>2. CASE RevokeStep
    <2>1. PICK u \in User : \E rs \in SUBSET certs[u] :
                 certs' = [certs EXCEPT ![u] = Saved(@, {Revoked(r) : r \in rs})]
      BY <1>2 DEF RevokeStep
    <2>2. PICK rs \in SUBSET certs[u] :
                 certs' = [certs EXCEPT ![u] = Saved(@, {Revoked(r) : r \in rs})]
      BY <2>1
    <2> DEFINE new == {Revoked(r) : r \in rs}
    <2>3. \A r \in new : r.revoked
      BY DEF TrustTypes, Revoked, Cert
    <2>4. certs' = [certs EXCEPT ![u] = Saved(@, new)]
      BY <2>2
    <2> HIDE DEF new
    <2>5. \A w \in User : certs'[w] \subseteq certs[w] \cup new
      BY <2>4 DEF TrustTypes, Saved
    <2>6. files' = files
      BY <1>2 DEF RevokeStep
    <2> QED BY <2>3, <2>5, <2>6 DEF Copy
  <1>3. CASE IssueStep
    <2>1. PICK u \in User, v \in User, type \in CertType, days \in Days : DoIssue(u, v, type, days)
      BY <1>3 DEF IssueStep
    <2> DEFINE e == Issued(u, v, type, days)
    <2>2. /\ e.id = Cardinality(ledger) + 1 /\ Cardinality(ledger) \in Nat
          /\ certs' = [certs EXCEPT ![u] = Saved(@, {e})] /\ ledger' = ledger \cup {e}
      BY <2>1, IssueFacts
    <2> HIDE DEF e
    <2>3. e \in ledger' \ ledger
      BY <2>2 DEF LedgerSigned
    <2>4. \A w \in User : certs'[w] \subseteq certs[w] \cup {e}
      BY <2>2 DEF TrustTypes, Saved
    <2>5. files' = files
      BY <2>1 DEF DoIssue
    <2> QED BY <2>3, <2>4, <2>5 DEF Copy
  <1>4. CASE WriteStep
    <2>1. PICK u \in User, f \in File : f.rows \subseteq certs[u] /\ files' = files \cup {f}
      BY <1>4 DEF WriteStep
    <2>2. certs' = certs
      BY <1>4 DEF WriteStep
    <2> QED BY <2>1, <2>2 DEF Copy
  <1>5. CASE DamageStep
    <2>1. PICK f \in files : Damage(f)
      BY <1>5 DEF DamageStep
    <2>2. PICK r \in f.rows, d \in Cert :
            /\ d.sig = r.sig /\ d.revoked = r.revoked
            /\ files' = (files \ {f}) \cup {[f EXCEPT !.rows = (@ \ {r}) \cup {d}]}
      BY <2>1, DamagedRow
    <2> DEFINE g == [f EXCEPT !.rows = (@ \ {r}) \cup {d}]
    <2>3. g.rows \subseteq f.rows \cup {d} /\ files' \subseteq files \cup {g}
      BY <2>2 DEF TrustTypes, File
    <2> HIDE DEF g
    <2>4. certs' = certs
      BY <2>1 DEF Damage
    <2> QED BY <2>2, <2>3, <2>4 DEF Copy
  <1>6. CASE UNCHANGED <<certs, files>>
    BY <1>6 DEF Copy
  <1> QED BY <1>1, <1>2, <1>3, <1>4, <1>5, <1>6 DEF TrustStep, KeyStep, PinStep, Tick, trustVars

\* do_revoke: once every copy of a certificate is revoked, in all tables and files, it does not
\* become valid again by any operation.
THEOREM RevocationStays == Spec => RevokedForGood
  <1> DEFINE Stays == "revoked" \notin bound.alter =>
                        LiveSignatures' \subseteq LiveSignatures \cup {c.sig : c \in ledger' \ ledger}
  <1>1. TrustInv /\ [Next]_vars => Stays
    <2> SUFFICES ASSUME TrustInv, TrustStep, "revoked" \notin bound.alter,
                        NEW x \in LiveSignatures'
                 PROVE  x \in LiveSignatures \cup {c.sig : c \in ledger' \ ledger}
      BY NextIsStep
    <2> LiveRows'
      BY LiveRow, PTL
    <2>1. PICK c : Copy(c)' /\ ~c.revoked /\ x = c.sig
      BY DEF LiveRows
    <2>2. (\E d : Copy(d) /\ ~d.revoked /\ d.sig = c.sig) \/ c \in ledger' \ ledger
      BY <2>1, LiveComesFromLive
    <2> QED BY <2>1, <2>2, LiveRow DEF LiveRows
  <1> HIDE DEF Stays
  <1>2. TrustInv /\ [Next]_vars => [Stays]_trustVars
    BY <1>1
  <1>3. Spec => [][Stays]_trustVars
    BY <1>2, TrustInvariance, PTL DEF Spec
  <1> QED BY <1>3, PTL DEF RevokedForGood, Stays

-----------------------------------------------------------------------------
(* The ledger is implemented *)

\* What the ledger shows of a user: the facts he signed, and those his table holds.
FactsIssued(u) == {FactOf(c) : c \in {d \in ledger : d.issuer = u}}
FactsKnown(u) == {FactOf(c) : c \in certs[u]}

FactsOf(rs) == {FactOf(c) : c \in rs}

\* INSERT OR REPLACE loses no fact when identifiers are as they were issued.
LEMMA SavedFacts ==
  ASSUME TrustInv, NEW table, NEW rs, "id" \notin bound.alter,
         \A c \in table \cup rs : FromLedger(c) /\ Verified(c)
  PROVE  FactsOf(Saved(table, rs)) = FactsOf(table) \cup FactsOf(rs)
  <1>1. ASSUME NEW c \in table, NEW d \in rs, c.id = d.id
        PROVE  FactOf(c) = FactOf(d)
    <2>1. PICK x \in ledger : CopyOf(c, x)
      BY DEF FromLedger
    <2>2. PICK y \in ledger : CopyOf(d, y)
      BY DEF FromLedger
    <2>3. x = y
      BY <1>1, <2>1, <2>2 DEF CopyOf, TrustInv, LedgerSigned
    <2>4. c.sig = d.sig /\ Verified(c) /\ Verified(d)
      BY <2>1, <2>2, <2>3 DEF CopyOf
    <2> QED BY <2>4, SameSignature
  <1>2. \A c \in table : c \in Saved(table, rs) \/ \E d \in rs : c.id = d.id
    BY DEF Saved
  <1>3. rs \subseteq Saved(table, rs) /\ Saved(table, rs) \subseteq table \cup rs
    BY DEF Saved
  <1> QED BY <1>1, <1>2, <1>3 DEF FactsOf

LEMMA LedgerInit == Init => Ledger!Init
  BY DEF Init, TrustInit, Ledger!Init

\* An import teaches its user facts that were signed, and takes none from him unless
\* identifiers are altered.
LEMMA ImportLearns ==
  ASSUME TrustInv, ImportStep
  PROVE  Ledger!Next
  <1> USE DEF TrustInv
  <1>1. PICK u \in User, f \in files : \E rs \in SUBSET f.rows :
               \E S \in LastOfEach(Accepted(u, rs)) : certs' = [certs EXCEPT ![u] = Saved(@, S)]
    BY DEF ImportStep
  <1>2. PICK rs \in SUBSET f.rows :
               \E S \in LastOfEach(Accepted(u, rs)) : certs' = [certs EXCEPT ![u] = Saved(@, S)]
    BY <1>1
  <1>3. PICK new \in LastOfEach(Accepted(u, rs)) : certs' = [certs EXCEPT ![u] = Saved(@, new)]
    BY <1>2
  <1>4. new \in SUBSET Cert /\ \A c \in new : FromLedger(c) /\ Verified(c)
    BY AcceptedRows DEF RowsIssued
  <1>5. \A c \in certs[u] : FromLedger(c) /\ Verified(c)
    BY DEF RowsIssued
  <1>6. certs'[u] = Saved(certs[u], new) /\ \A v \in User \ {u} : certs'[v] = certs[v]
    BY <1>3 DEF TrustTypes
  <1>7. ledger' = ledger /\ bound' = bound
    BY DEF ImportStep
  <1> DEFINE lost == FactsOf(certs[u]) \ FactsOf(certs'[u])
  <1>8. FactsOf(certs'[u]) = (FactsOf(certs[u]) \ lost) \cup FactsOf(new)
    <2>1. new \subseteq certs'[u] /\ certs'[u] \subseteq certs[u] \cup new
      BY <1>6 DEF Saved
    <2> QED BY <2>1 DEF FactsOf
  <1>9. lost # {} => "id" \in bound.alter
    BY <1>4, <1>5, <1>6, SavedFacts
  <1>10. FactsOf(new) \subseteq UNION {FactsIssued(v) : v \in User}
    <2> SUFFICES ASSUME NEW c \in new PROVE \E v \in User : FactOf(c) \in FactsIssued(v)
      BY DEF FactsOf
    <2>1. PICK d \in ledger : c.sig = d.sig
      BY <1>4 DEF FromLedger, CopyOf
    <2>2. d.issuer \in User /\ FactOf(d) = FactOf(c)
      BY <1>4, <2>1, SameSignature DEF TrustTypes, Cert, LedgerSigned
    <2>3. FactOf(c) \in FactsIssued(d.issuer)
      BY <2>2 DEF FactsIssued
    <2> QED BY <2>2, <2>3
  <1> DEFINE known == [v \in User |-> FactsKnown(v)]
             issued == [v \in User |-> FactsIssued(v)]
  <1>11. known' = [known EXCEPT ![u] = (@ \ lost) \cup FactsOf(new)] /\ issued' = issued
    <2>1. \A v \in User : FactsKnown(v)' = IF v = u THEN (FactsKnown(u) \ lost) \cup FactsOf(new)
                                           ELSE FactsKnown(v)
      BY <1>6, <1>8 DEF FactsKnown, FactsOf
    <2> HIDE DEF lost
    <2> QED BY <2>1, <1>7 DEF FactsIssued
  <1>12. FactsOf(new) \in SUBSET UNION {issued[v] : v \in User} /\ lost \in SUBSET known[u]
    BY <1>10 DEF FactsOf, FactsKnown
  <1> HIDE DEF lost
  <1>13. Ledger!Learn(u)
    BY <1>7, <1>9, <1>11, <1>12 DEF Ledger!Learn, FactsKnown, FactsIssued
  <1> QED BY <1>13 DEF Ledger!Next

\* A revocation replaces rows by rows that say the same.
LEMMA RevokeStutters ==
  ASSUME TrustInv, RevokeStep
  PROVE  \A v \in User : FactsKnown(v)' = FactsKnown(v) /\ FactsIssued(v)' = FactsIssued(v)
  <1> USE DEF TrustInv
  <1>1. PICK u \in User : \E rs \in SUBSET certs[u] :
               certs' = [certs EXCEPT ![u] = Saved(@, {Revoked(c) : c \in rs})]
    BY DEF RevokeStep
  <1>2. PICK rs \in SUBSET certs[u] : certs' = [certs EXCEPT ![u] = Saved(@, {Revoked(c) : c \in rs})]
    BY <1>1
  <1> DEFINE new == {Revoked(c) : c \in rs}
  <1>3. certs[u] \in SUBSET Cert /\ UniqueIds(certs[u])
    BY DEF TrustTypes, RowsUnique
  <1>4. certs'[u] = Saved(certs[u], new) /\ \A v \in User \ {u} : certs'[v] = certs[v]
    BY <1>2 DEF TrustTypes
  <1>5. ledger' = ledger
    BY DEF RevokeStep
  <1>6. \A d \in certs'[u] : \E c \in certs[u] : FactOf(d) = FactOf(c)
    BY <1>3, <1>4, RevokedFacts DEF Saved
  <1>7. \A c \in certs[u] : \E d \in certs'[u] : FactOf(d) = FactOf(c)
    <2> SUFFICES ASSUME NEW c \in certs[u] PROVE \E d \in certs'[u] : FactOf(d) = FactOf(c)
      OBVIOUS
    <2>1. CASE c \in rs
      <3>1. Revoked(c) \in certs'[u] /\ FactOf(Revoked(c)) = FactOf(c)
        BY <2>1, <1>3, <1>4, RevokedFacts DEF Saved
      <3> QED BY <3>1
    <2>2. CASE c \notin rs
      <3>1. \A d \in rs : Revoked(d).id # c.id
        BY <2>2, <1>3, RevokedFacts DEF UniqueIds
      <3>2. c \in certs'[u]
        BY <3>1, <1>4 DEF Saved
      <3> QED BY <3>2
    <2> QED BY <2>1, <2>2
  <1>8. FactsKnown(u)' = FactsKnown(u)
    BY <1>6, <1>7 DEF FactsKnown
  <1> QED BY <1>4, <1>5, <1>8 DEF FactsKnown, FactsIssued

\* A new certificate is a fact that its issuer signs and keeps.
LEMMA IssueSigns ==
  ASSUME TrustInv, IssueStep
  PROVE  Ledger!Next
  <1> USE DEF TrustInv
  <1>1. PICK u \in User, v \in User, type \in CertType, days \in Days : DoIssue(u, v, type, days)
    BY DEF IssueStep
  <1> DEFINE c == Issued(u, v, type, days)
             f == FactOf(c)
  <1>2. /\ c \in Cert /\ c.id = Cardinality(ledger) + 1
        /\ certs' = [certs EXCEPT ![u] = Saved(@, {c})]
        /\ ledger' = ledger \cup {c} /\ Cardinality(ledger) \in Nat
        /\ bound' = bound
    BY <1>1, IssueFacts
  <1>3. f \in FactSet
    <2>1. /\ sigKey[u] \in 1 .. bound.key[u] /\ pinned[u][v] \in 1 .. bound.key[v]
          /\ now \in 0 .. bound.day
      <3>1. sigKey[u] > 0 /\ pinned[u][v] > 0
        BY <1>1 DEF DoIssue, IssueCertificate
      <3>2. /\ sigKey[u] \in Nat /\ sigKey[v] \in Nat /\ pinned[u][v] \in Nat /\ now \in Nat
            /\ bound.key[u] \in Nat /\ bound.key[v] \in Nat /\ bound.day \in Nat
        BY UserBound DEF TrustTypes
      <3>3. /\ sigKey[u] <= bound.key[u] /\ pinned[u][v] <= sigKey[v] /\ sigKey[v] <= bound.key[v]
            /\ now <= bound.day
        BY DEF KeysGenerated
      <3> QED BY <3>1, <3>2, <3>3
    <2> DEFINE keys == UNION {UNION {{<<w, h>> : h \in 1..b.key[w]} : w \in User} : b \in Instance}
    <2>2. <<u, sigKey[u]>> \in keys /\ <<v, pinned[u][v]>> \in keys
      <3>1. \A w \in User : \A g \in 1..bound.key[w] : <<w, g>> \in keys
        <4> SUFFICES ASSUME NEW w \in User, NEW g \in 1..bound.key[w] PROVE <<w, g>> \in keys
          OBVIOUS
        <4>1. <<w, g>> \in {<<w, h>> : h \in 1..bound.key[w]}
          OBVIOUS
        <4>2. <<w, g>> \in UNION {{<<x, h>> : h \in 1..bound.key[x]} : x \in User}
          BY <4>1
        <4> QED BY <4>2 DEF TrustTypes
      <3> HIDE DEF keys
      <3> QED BY <3>1, <2>1
    <2>3. now \in UNION {0..b.day : b \in Instance}
      BY <2>1 DEF TrustTypes
    <2>4. (now + days) - now = days
      BY DaysAssumption DEF TrustTypes
    <2>5. f = [by |-> <<u, sigKey[u]>>, about |-> <<v, pinned[u][v]>>, type |-> type,
               before |-> now, days |-> days]
      BY <2>4 DEF FactOf, Issued
    <2> HIDE DEF c, f, keys
    <2>6. FactSet = [by : keys, about : keys, type : CertType,
                     before : UNION {0..b.day : b \in Instance}, days : Days]
      BY DEF FactSet, keys
    <2> QED BY <2>2, <2>3, <2>5, <2>6
  <1>4. c.issuer = u
    BY DEF Issued
  <1> HIDE DEF c
  <1>5. \A w \in User : FactsIssued(w)' = IF w = u THEN FactsIssued(w) \cup {f} ELSE FactsIssued(w)
    BY <1>2, <1>4 DEF FactsIssued
  <1>6. \A w \in User : FactsKnown(w)' = IF w = u THEN FactsKnown(w) \cup {f} ELSE FactsKnown(w)
    <2>1. \A d \in certs[u] : d.id # c.id
      BY <1>2 DEF RowsIssued, FromLedger
    <2>2. certs'[u] = certs[u] \cup {c} /\ \A w \in User \ {u} : certs'[w] = certs[w]
      BY <2>1, <1>2 DEF Saved, TrustTypes
    <2> QED BY <2>2 DEF FactsKnown
  <1> HIDE DEF f
  <1>7. Ledger!Sign(u)
    <2> DEFINE known == [w \in User |-> FactsKnown(w)]
               issued == [w \in User |-> FactsIssued(w)]
    <2>1. /\ issued' = [issued EXCEPT ![u] = @ \cup {f}]
          /\ known' = [known EXCEPT ![u] = @ \cup {f}]
      BY <1>5, <1>6
    <2> QED BY <2>1, <1>2, <1>3 DEF Ledger!Sign, FactsKnown, FactsIssued
  <1> QED BY <1>7 DEF Ledger!Next

\* trust_chain_service.py, certificate_dialog.py, trust_tab.py: for any users, keys, files,
\* alterations and certificates the tables, the imports and the revocations implement the ledger.
THEOREM TrustImplementsLedger == Spec => LedgerRefined
  <1>1. TrustInv /\ [Next]_vars => [Ledger!Next]_(Ledger!ledgerVars)
    <2> SUFFICES ASSUME TrustInv, TrustStep PROVE [Ledger!Next]_(Ledger!ledgerVars)
      BY NextIsStep
    <2>1. CASE RevokeStep
      <3>1. bound' = bound
        BY <2>1 DEF RevokeStep
      <3> QED BY <2>1, <3>1, RevokeStutters DEF Ledger!ledgerVars, FactsKnown, FactsIssued
    <2>2. CASE certs' = certs /\ ledger' = ledger /\ bound' = bound
      BY <2>2 DEF Ledger!ledgerVars
    <2> QED BY <2>1, <2>2, ImportLearns, IssueSigns
            DEF TrustStep, KeyStep, PinStep, WriteStep, DamageStep, Damage, Tick, trustVars
  <1> QED BY <1>1, LedgerInit, TrustInvariance, PTL DEF Spec, LedgerRefined, Ledger!Spec

-----------------------------------------------------------------------------
(* Shares *)

\* The byte with index i of the s-th key, split with threshold k.
ByteOf(s, k, i) == ShareOf(KeyByte[s], SubSeq(Coeff[s], 1, k - 1), i)

Bytes == {ByteOf(t[1], t[2], t[3]) : t \in Nat \X Nat \X Nat}
Piece == [split : Nat, index : Nat, byte : Bytes]
Entry == [share : Piece, cipher : BOOLEAN]

\* A share x, given the splits sp made so far: what split_secret computed for its split.
Genuine(sp, x) ==
  /\ x \in Piece
  /\ x.split \in 1 .. Len(sp)
  /\ x.index \in 1 .. sp[x.split][1]
  /\ x.byte = ByteOf(x.split, sp[x.split][2], x.index)

\* The splits that were made are ones split_secret permits.
SplitsAllowed ==
  /\ splits \in Seq(Scheme)
  /\ Len(splits) <= Len(KeyByte)
  /\ \A s \in 1 .. Len(splits) : SplitAllowed(splits[s][1], splits[s][2])

\* Every share in a file, with a holder, entered or used is genuine.
SharesGenuine ==
  /\ \A f \in session \cup shareFiles : Genuine(splits, f.share)
  /\ held \in [User -> SUBSET Piece]
  /\ \A u \in User : \A h \in held[u] : Genuine(splits, h)
  /\ entries \in Seq(Entry) /\ result.from \in Seq(Entry)
  /\ \A i \in 1 .. Len(entries) : Genuine(splits, entries[i].share)
  /\ \A i \in 1 .. Len(result.from) : Genuine(splits, result.from[i].share)

\* What reconstruct_secret is given for these entries.
Points(from) == [i \in DOMAIN from |-> <<from[i].share.index, from[i].share.byte>>]

\* The key that is shown is the one the entries give.
ResultComputed ==
  result.from # <<>> =>
    /\ ReconstructSecret(Points(result.from)) # NoSecret
    /\ ~ result.from[1].cipher => result.key = ReconstructSecret(Points(result.from))

\* The recovery dialog of an unlocked owner only holds decrypted shares.
DecryptedHere ==
  dialog = "recovery" =>
    /\ \A i \in 1 .. Len(entries) : ~ entries[i].cipher
    /\ \A i \in 1 .. Len(result.from) : ~ result.from[i].cipher

AppliedRight == applied.split # 0 => applied.key = KeyByte[applied.split]

ShareInv == SplitsAllowed /\ SharesGenuine /\ ResultComputed /\ DecryptedHere /\ AppliedRight

\* A split more leaves a share genuine.
LEMMA GenuineStays ==
  ASSUME NEW sp \in Seq(Scheme), NEW x, Genuine(sp, x), NEW scheme \in Scheme
  PROVE  Genuine(Append(sp, scheme), x)
  <1>1. /\ x.split \in 1 .. Len(sp) /\ Len(Append(sp, scheme)) = Len(sp) + 1
        /\ Append(sp, scheme)[x.split] = sp[x.split]
    BY DEF Genuine
  <1> QED BY <1>1 DEF Genuine

\* More entries than shares cannot have different indices.
LEMMA NoMoreThanShares ==
  ASSUME NEW m \in Nat, NEW n \in Nat, NEW order \in [1..m -> 1..n], IsInjective(order)
  PROVE  m <= n
  <1>1. order \in Injection(1..m, 1..n)
    BY DEF Injection, IsInjective
  <1>2. IsFiniteSet(1..n) /\ Cardinality(1..n) = n /\ Cardinality(1..m) = m
    BY FS_Interval
  <1>3. Cardinality(1..m) <= Cardinality(1..n)
    BY <1>1, <1>2, FS_Injection
  <1> QED BY <1>2, <1>3

\* Enough genuine shares of one split give its key.
LEMMA EnoughGenuine ==
  ASSUME SplitsAllowed, NEW from \in Seq(Entry),
         \A i \in 1 .. Len(from) : Genuine(splits, from[i].share),
         ReconstructSecret(Points(from)) # NoSecret, SplitOf(from) # 0
  PROVE  ReconstructSecret(Points(from)) = KeyByte[SplitOf(from)]
  <1> DEFINE enough == {s \in DOMAIN splits : /\ \A i \in DOMAIN from : from[i].share.split = s
                                              /\ Len(from) >= splits[s][2]}
             s == SplitOf(from)
             n == splits[s][1]
             k == splits[s][2]
             m == Len(from)
             order == [i \in 1..m |-> from[i].share.index]
  <1>1. s \in enough
    <2>1. enough # {} /\ s = CHOOSE x \in enough : TRUE
      BY DEF SplitOf
    <2> HIDE DEF enough, s
    <2> QED BY <2>1
  <1>2. /\ s \in 1 .. Len(splits) /\ DOMAIN from = 1..m /\ m \in Nat /\ m >= k
        /\ \A i \in 1..m : from[i].share.split = s
    BY <1>1 DEF SplitsAllowed
  <1>3. splits[s] \in Scheme /\ n \in Nat /\ k \in Nat /\ SplitAllowed(n, k) /\ s \in DOMAIN KeyByte
    <2>1. splits[s] \in Scheme /\ SplitAllowed(splits[s][1], splits[s][2])
      BY <1>2 DEF SplitsAllowed
    <2>2. s \in DOMAIN KeyByte
      BY <1>2, SharesAssumption DEF SplitsAllowed
    <2> QED BY <2>1, <2>2, SharesAssumption
  <1>4. \A i \in 1..m : /\ from[i].share.index \in 1..n
                        /\ from[i].share.byte = ByteOf(s, k, from[i].share.index)
    BY <1>2 DEF Genuine
  <1>5. order \in [1..m -> 1..n]
    BY <1>4
  <1>6. IsInjective(order)
    <2>1. Points(from) = [i \in 1..m |-> <<from[i].share.index, from[i].share.byte>>]
      BY <1>2 DEF Points
    <2>2. [j \in DOMAIN Points(from) |-> Points(from)[j][1]] = order
      BY <2>1
    <2>3. IsInjective([j \in DOMAIN Points(from) |-> Points(from)[j][1]])
      BY DEF ReconstructSecret
    <2> QED BY <2>2, <2>3
  <1>7. Points(from) = [i \in 1..m |-> <<order[i],
                          ShareOf(KeyByte[s], SubSeq(Coeff[s], 1, k - 1), order[i])>>]
    BY <1>2, <1>4 DEF Points, ByteOf
  <1> HIDE DEF s, n, k, m, order
  <1>8. m \in k..n
    <2>1. m <= n
      BY <1>2, <1>3, <1>5, <1>6, NoMoreThanShares
    <2> QED BY <2>1, <1>2, <1>3
  <1>9. splits[s] \in {sch \in Scheme : SplitAllowed(sch[1], sch[2])}
    BY <1>3 DEF n, k
  <1>10. \A l \in k..n : \A o \in [1..l -> 1..n] :
           IsInjective(o) =>
             ReconstructSecret(
               [i \in 1..l |-> <<o[i],
                  ShareOf(KeyByte[s], SubSeq(Coeff[s], 1, k - 1), o[i])>>]) = KeyByte[s]
    BY <1>3, <1>9, ThresholdAssumption DEF n, k
  <1>11. ReconstructSecret(Points(from)) = KeyByte[s]
    BY <1>5, <1>6, <1>7, <1>8, <1>10
  <1> QED BY <1>11 DEF s

LEMMA ShareInitInv == Init => ShareInv
  BY DEF Init, ShareInv, SplitsAllowed, SharesGenuine, ResultComputed, DecryptedHere, AppliedRight,
         NoResult

\* The shares that do_split makes are genuine, and those made before stay so.
LEMMA DoSplitPreserves ==
  ASSUME TrustTypes, ShareInv, NEW selected, NEW scheme \in Scheme, NEW saved,
         DoSplit(selected, scheme, saved)
  PROVE  ShareInv'
  <1> DEFINE s == Len(splits) + 1
             n == scheme[1]
  <1> USE DEF ShareInv
  <1>1. /\ splits \in Seq(Scheme) /\ splits' = Append(splits, scheme) /\ n \in Nat /\ scheme[2] \in Nat
        /\ SplitAllowed(n, scheme[2]) /\ s <= Len(KeyByte)
    BY SharesAssumption, ShareInstanceAssumption DEF DoSplit, SplitsAllowed, TrustTypes
  <1>2. splits' \in Seq(Scheme) /\ Len(splits') = s /\ splits'[s] = scheme /\ s \in Nat
        /\ \A t \in 1 .. Len(splits) : splits'[t] = splits[t]
    BY <1>1
  <1>3. SplitsAllowed'
    BY <1>1, <1>2 DEF SplitsAllowed
  <1>4. \A x : Genuine(splits, x) => Genuine(splits', x)
    BY <1>1, GenuineStays
  <1>5. \A i \in 1..n : Genuine(splits', Share(s, i))
    <2> SUFFICES ASSUME NEW i \in 1..n PROVE Genuine(splits', Share(s, i))
      OBVIOUS
    <2>1. Share(s, i) = [split |-> s, index |-> i, byte |-> ByteOf(s, scheme[2], i)]
      BY <1>2 DEF Share, ByteOf
    <2>2. ByteOf(s, scheme[2], i) \in Bytes
      <3>1. <<s, scheme[2], i>> \in Nat \X Nat \X Nat
        BY <1>1, <1>2
      <3> QED BY <3>1 DEF Bytes
    <2> QED BY <2>1, <2>2, <1>1, <1>2 DEF Genuine, Piece
  <1>6. \A f \in session' : Genuine(splits', f.share)
    <2>1. \A u, v, x : EncryptShare(u, v, x).share = x
      BY DEF EncryptShare
    <2>2. \E holders : session' = IF saved = n
                                  THEN {EncryptShare(Owner, holders[i], Share(s, i)) : i \in 1..n}
                                  ELSE {}
      BY DEF DoSplit
    <2> QED BY <2>1, <2>2, <1>5
  <1>7. UNCHANGED <<shareFiles, held, applied, dialog, entries, result>>
    BY DEF DoSplit
  <1>8. SharesGenuine'
    <2>1. \A f \in (session \cup shareFiles)' : Genuine(splits', f.share)
      BY <1>4, <1>6, <1>7 DEF SharesGenuine
    <2>2. held' \in [User -> SUBSET Piece] /\ \A u \in User : \A h \in held'[u] : Genuine(splits', h)
      BY <1>4, <1>7 DEF SharesGenuine
    <2>3. /\ \A i \in 1 .. Len(entries) : Genuine(splits', entries[i].share)
          /\ \A i \in 1 .. Len(result.from) : Genuine(splits', result.from[i].share)
      BY <1>4 DEF SharesGenuine
    <2>4. entries \in Seq(Entry) /\ result.from \in Seq(Entry)
      BY DEF SharesGenuine
    <2> QED BY <2>1, <2>2, <2>3, <2>4, <1>7 DEF SharesGenuine
  <1>9. ResultComputed' /\ DecryptedHere' /\ AppliedRight'
    BY <1>7 DEF ResultComputed, DecryptedHere, AppliedRight
  <1> QED BY <1>3, <1>8, <1>9

\* Files are written, kept, deleted and sent back as they are.
LEMMA HoldingPreserves ==
  ASSUME ShareInv, NEW u \in User, NEW f, NEW h,
         \/ f \in session /\ ExportShare(f)
         \/ f \in shareFiles /\ ImportHeldShare(u, f)
         \/ h \in held[u] /\ (ExportBack(u, h) \/ DeleteSelected(u, h))
         \/ DoRevokeRecoveryShares(u)
  PROVE  ShareInv'
  <1> USE DEF ShareInv
  <1>1. UNCHANGED <<splits, entries, result, dialog, applied, session>>
    BY DEF ExportShare, ImportHeldShare, ExportBack, DeleteSelected, DoRevokeRecoveryShares, dialogVars
  <1>2. \A g \in shareFiles' : Genuine(splits, g.share)
    BY DEF ExportShare, ImportHeldShare, ExportBack, DeleteSelected, DoRevokeRecoveryShares,
           EncryptShare, SharesGenuine
  <1>3. held' \in [User -> SUBSET Piece] /\ \A v \in User : \A x \in held'[v] : Genuine(splits, x)
    <2>1. CASE f \in shareFiles /\ ImportHeldShare(u, f)
      <3>1. f.share \in Piece /\ Genuine(splits, f.share)
        BY <2>1 DEF SharesGenuine, Genuine
      <3>2. held' = [held EXCEPT ![u] = SaveHeldShare(@, f.share)]
        BY <2>1 DEF ImportHeldShare
      <3> QED BY <3>1, <3>2 DEF SaveHeldShare, SharesGenuine
    <2>2. CASE DeleteSelected(u, h)
      BY <2>2 DEF DeleteSelected, DeleteHeldShare, SharesGenuine
    <2>3. CASE DoRevokeRecoveryShares(u)
      BY <2>3 DEF DoRevokeRecoveryShares, RevokeDelegatorRecoveryShares, SharesGenuine
    <2>4. CASE held' = held
      BY <2>4 DEF SharesGenuine
    <2> QED BY <2>1, <2>2, <2>3, <2>4 DEF ExportShare, ExportBack
  <1>4. SharesGenuine'
    BY <1>1, <1>2, <1>3 DEF SharesGenuine
  <1>5. SplitsAllowed' /\ ResultComputed' /\ DecryptedHere' /\ AppliedRight'
    BY <1>1 DEF SplitsAllowed, ResultComputed, DecryptedHere, AppliedRight
  <1> QED BY <1>4, <1>5

LEMMA OpenDialogPreserves ==
  ASSUME ShareInv, entries' = <<>>, result' = NoResult, session' = {},
         UNCHANGED <<splits, shareFiles, held, applied>>
  PROVE  ShareInv'
  BY DEF ShareInv, SplitsAllowed, SharesGenuine, ResultComputed, DecryptedHere,
         AppliedRight, NoResult

\* Entered shares are those of the file; what cannot be decrypted is entered only in the
\* dialog of the lock screen.
LEMMA EnterPreserves ==
  ASSUME ShareInv, NEW f \in shareFiles, ImportShareFile(f) \/ ImportShareFileLocked(f)
  PROVE  ShareInv'
  <1> USE DEF ShareInv
  <1>1. PICK cipher \in BOOLEAN : Enter(f, cipher) /\ (dialog = "recovery" => ~ cipher)
    BY DEF ImportShareFile, ImportShareFileLocked
  <1> DEFINE e == [share |-> f.share, cipher |-> cipher]
  <1>2. e \in Entry /\ e.share = f.share /\ e.cipher = cipher /\ Genuine(splits, f.share)
    BY DEF SharesGenuine, Genuine, Entry
  <1>3. entries' = Append(entries, e) /\ entries \in Seq(Entry)
    BY <1>1 DEF Enter, SharesGenuine
  <1> HIDE DEF e
  <1>4. /\ entries' \in Seq(Entry) /\ Len(entries') = Len(entries) + 1
        /\ entries'[Len(entries) + 1] = e /\ \A i \in 1 .. Len(entries) : entries'[i] = entries[i]
    BY <1>2, <1>3
  <1>5. UNCHANGED <<splits, shareFiles, held, applied, session, dialog, result>>
    BY <1>1 DEF Enter
  <1>6. \A i \in 1 .. Len(entries') : i \in 1 .. Len(entries) \/ i = Len(entries) + 1
    BY <1>3, <1>4
  <1>7. SharesGenuine'
    BY <1>2, <1>4, <1>5, <1>6 DEF SharesGenuine
  <1>8. DecryptedHere'
    BY <1>1, <1>2, <1>4, <1>5, <1>6 DEF DecryptedHere
  <1>9. SplitsAllowed' /\ ResultComputed' /\ AppliedRight'
    BY <1>5 DEF SplitsAllowed, ResultComputed, AppliedRight
  <1> QED BY <1>7, <1>8, <1>9

LEMMA ReconstructPreserves ==
  ASSUME ShareInv, Reconstruct
  PROVE  ShareInv'
  <1> USE DEF ShareInv
  <1>1. /\ ReconstructSecret(Points(entries)) # NoSecret /\ result'.from = entries
        /\ ~ entries[1].cipher => result'.key = ReconstructSecret(Points(entries))
    BY DEF Reconstruct, Points
  <1>2. UNCHANGED <<splits, shareFiles, held, applied, session, dialog, entries>>
    BY DEF Reconstruct
  <1>3. SharesGenuine' /\ SplitsAllowed'
    BY <1>1, <1>2 DEF SharesGenuine, SplitsAllowed
  <1>4. ResultComputed' /\ AppliedRight' /\ DecryptedHere'
    BY <1>1, <1>2 DEF ResultComputed, AppliedRight, DecryptedHere
  <1> QED BY <1>3, <1>4

LEMMA ApplyPreserves ==
  ASSUME ShareInv, ApplyAsMasterKey
  PROVE  ShareInv'
  <1> USE DEF ShareInv
  <1>1. UNCHANGED <<splits, shareFiles, held, session, dialog, entries, result>>
    BY DEF ApplyAsMasterKey, dialogVars
  <1>2. SharesGenuine' /\ SplitsAllowed' /\ ResultComputed' /\ DecryptedHere'
    BY <1>1 DEF SharesGenuine, SplitsAllowed, ResultComputed, DecryptedHere
  <1>3. AppliedRight'
    <2> SUFFICES ASSUME SplitOf(result.from) # 0 PROVE result.key = KeyByte[SplitOf(result.from)]
      BY DEF ApplyAsMasterKey, AppliedRight
    <2>1. result.from \in Seq(Entry) /\ result.from # <<>> /\ dialog = "recovery"
      BY DEF SharesGenuine, ApplyAsMasterKey
    <2>2. ~ result.from[1].cipher
      BY <2>1 DEF DecryptedHere
    <2>3. /\ ReconstructSecret(Points(result.from)) # NoSecret
          /\ result.key = ReconstructSecret(Points(result.from))
      BY <2>1, <2>2 DEF ResultComputed
    <2> QED BY <2>1, <2>3, EnoughGenuine DEF SharesGenuine
  <1> QED BY <1>2, <1>3

LEMMA ShareNextPreserves == TrustInv /\ ShareInv /\ [Next]_vars => ShareInv'
  <1> SUFFICES ASSUME TrustInv, ShareInv, [Next]_vars PROVE ShareInv'
    OBVIOUS
  <1>1. TrustTypes /\ bound.user \subseteq User
    BY UserBound DEF TrustInv
  <1>2. CASE UNCHANGED <<splits, shareFiles, held, applied, dialogVars>>
    BY <1>2 DEF ShareInv, SplitsAllowed, SharesGenuine, ResultComputed, DecryptedHere, AppliedRight,
                dialogVars
  <1>3. CASE UNCHANGED shareVars
    BY <1>2, <1>3 DEF shareVars
  <1>4. ASSUME NEW u, NEW v, RotateRsa(u) \/ DoUpdatePem(u, v) \/ RemoveOwner(u) PROVE ShareInv'
    BY <1>2, <1>4 DEF RotateRsa, DoUpdatePem, RemoveOwner
  <1>5. ASSUME NEW u \in User, NEW f, NEW h,
               \/ f \in session /\ ExportShare(f)
               \/ f \in shareFiles /\ ImportHeldShare(u, f)
               \/ h \in held[u] /\ (ExportBack(u, h) \/ DeleteSelected(u, h))
               \/ DoRevokeRecoveryShares(u)
        PROVE  ShareInv'
    BY <1>5, HoldingPreserves
  <1>6. ASSUME NEW f \in session, ExportShare(f) PROVE ShareInv'
    BY <1>5, <1>6, SharesAssumption
  <1>7. ASSUME NEW d, OpenDialog(d) \/ ApplyRecovery PROVE ShareInv'
    BY <1>7, OpenDialogPreserves DEF OpenDialog, ApplyRecovery
  <1>8. ASSUME NEW selected, NEW scheme \in Scheme, NEW saved, DoSplit(selected, scheme, saved)
        PROVE  ShareInv'
    BY <1>1, <1>8, DoSplitPreserves
  <1>9. CASE DoReconstruct \/ DoReconstructLocked
    BY <1>9, ReconstructPreserves DEF DoReconstruct, DoReconstructLocked
  <1>10. ASSUME ShareNext PROVE ShareInv'
    BY <1>1, <1>4, <1>5, <1>6, <1>7, <1>8, <1>9, <1>10, EnterPreserves, ApplyPreserves DEF ShareNext
  <1> QED BY <1>3, <1>10 DEF Next, vars

\* key_recovery_dialog.py, recovery_unlock_dialog.py: whatever way the shares took, a key
\* reconstructed from enough of them is the key that was split, and so is the key that
\* became the global secret.
THEOREM SharesRecover == Spec => []EnoughSharesRecover
  <1>1. ShareInv => EnoughSharesRecover
    <2> SUFFICES ASSUME ShareInv, SplitOf(result.from) # 0, ~ result.from[1].cipher
                 PROVE  result.key = KeyByte[SplitOf(result.from)]
      BY DEF EnoughSharesRecover, ShareInv, AppliedRight
    <2>1. result.from # <<>>
      BY DEF SplitOf
    <2>2. /\ ReconstructSecret(Points(result.from)) # NoSecret
          /\ result.key = ReconstructSecret(Points(result.from))
      BY <2>1 DEF ShareInv, ResultComputed
    <2> QED BY <2>2, EnoughGenuine DEF ShareInv, SharesGenuine
  <1>2. Spec => []ShareInv
    BY ShareInitInv, ShareNextPreserves, TrustInvariance, PTL DEF Spec
  <1> QED BY <1>1, <1>2, PTL
=============================================================================

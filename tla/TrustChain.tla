----------------------------- MODULE TrustChain -----------------------------
(***************************************************************************)
(* Trust certificates between users: services/trust_chain_service.py, the  *)
(* dialogs that drive it (components/certificate_dialog.py,                 *)
(* components/hybrid_sig_exchange_dialog.py, views/trust_tab.py), the       *)
(* signing keys of services/friends/hybrid_sig_keys.py and the certificate  *)
(* table of database.py.                                                    *)
(*                                                                          *)
(* Every user is a friend of every other.  Certificates travel in files:    *)
(* a file stays where it is, may be imported by anyone, any number of times *)
(* and in any order, and its rows may be altered on the way: in fields that *)
(* the signature covers and in fields that it does not.                     *)
(* A public key is the pair of its owner and a generation.                  *)
(***************************************************************************)
EXTENDS Integers, FiniteSets

CONSTANTS User,      \* the users of the application
          CertType,  \* kinds of certificates in use
          Days,      \* validity periods that are chosen
          Instance   \* the instances that are explored: see bound

ASSUME CertTypeAssumption == CertType \subseteq {"identity", "recovery", "delegation"}
ASSUME DaysAssumption == Days \subseteq 1..3650

\* The fields of a row that are altered in files.  Altering the dates or the issuer stands for
\* altering anything the signature or the pinned key fixes.
Field == {"id", "subject", "revoked", "issuer", "after"}

\* An instance bounds what happens: the users who take part, the signing keys
\* each of them generates, the types and the number of the certificates issued,
\* the files written, the fields altered in them and the days that pass.
ASSUME InstanceAssumption ==
  \A b \in Instance :
    /\ b.user \subseteq User
    /\ b.key \in [User -> Nat]
    /\ b.type \subseteq CertType
    /\ b.alter \subseteq Field
    /\ b.cert \in Nat /\ b.file \in Nat /\ b.day \in Nat

VARIABLES bound,   \* the instance, chosen at the start
          sigKey,  \* the generation of a user's own hybrid signing key, 0 for none
          pinned,  \* pinned[u][v]: the generation of v's signing key that u has stored, 0 for none
          certs,   \* the certificate table of each user
          files,   \* the files written
          ledger,  \* every certificate ever issued, as it was issued
          now      \* the day

trustVars == <<bound, sigKey, pinned, certs, files, ledger, now>>

Key == User \X Nat
NoKey == <<>>   \* of a file that carries no key

\* What the signature covers: the subject's key, the type and the dates.
SignedData(c) == <<c.subjectPub, c.type, c.before, c.after>>

\* What from_dict makes a certificate of; an entry that lacks a field or has a type of its own is
\* skipped on import.
Cert == [id : Nat, subject : User, subjectPub : Key, issuer : User, issuerPub : Key,
         type : CertType, before : Nat, after : Nat,
         sig : Key \X (Key \X CertType \X Nat \X Nat), revoked : BOOLEAN]

Expired(c) == now > c.after
Valid(c) == ~c.revoked /\ ~Expired(c)

\* Mutant of Saved: a certificate replaces whatever is stored about its subject.
SavedBySubject(table, rows) == {r \in table : \A c \in rows : r.subject # c.subject} \cup rows

\* save_trust_certificate: INSERT OR REPLACE by the certificate's identifier.
Saved(table, rows) == {r \in table : \A c \in rows : r.id # c.id} \cup rows

\* get_trust_certificates_for: the rows with one of these issuers and subjects.
TrustCertificatesFor(u, issuers, subjects) ==
  {c \in certs[u] : c.issuer \in issuers /\ c.subject \in subjects}

GetAllCertificates(u) == TrustCertificatesFor(u, User, User)
GetCertsForFriend(u, v) == TrustCertificatesFor(u, User, {v})
GetCertsIssuedByMe(u) == TrustCertificatesFor(u, {u}, User)

-----------------------------------------------------------------------------
(* Signing keys *)

\* generate_hybrid_sig: the keys a user has are replaced.
GenerateHybridSig(u) ==
  /\ sigKey[u] < bound.key[u]
  /\ sigKey' = [sigKey EXCEPT ![u] = @ + 1]
  /\ UNCHANGED <<bound, pinned, certs, files, ledger, now>>

\* do_update_hsig: a user pastes the key a friend copied from the exchange dialog.
DoUpdateHsig(u, v) ==
  /\ u # v
  /\ sigKey[v] > 0
  /\ pinned[u][v] # sigKey[v]
  /\ pinned' = [pinned EXCEPT ![u][v] = sigKey[v]]
  /\ UNCHANGED <<bound, sigKey, certs, files, ledger, now>>

-----------------------------------------------------------------------------
(* Issuing, verifying and revoking *)

\* issue_certificate: signed with keys of the user's own, about the key handed over.
IssueCertificate(u, v, subjectPub, type, days) ==
  LET data == [subjectPub |-> subjectPub, type |-> type, before |-> now, after |-> now + days]
      c == [id |-> Cardinality(ledger) + 1, subject |-> v, subjectPub |-> subjectPub,
            issuer |-> u, issuerPub |-> <<u, sigKey[u]>>, type |-> type,
            before |-> data.before, after |-> data.after,
            sig |-> <<<<u, sigKey[u]>>, SignedData(data)>>, revoked |-> FALSE]
  IN  /\ sigKey[u] > 0
      /\ certs' = [certs EXCEPT ![u] = Saved(@, {c})]
      /\ ledger' = ledger \cup {c}

\* do_issue hands over the key that is pinned for the subject.
DoIssue(u, v, type, days) ==
  /\ u # v
  /\ pinned[u][v] > 0
  /\ Cardinality(ledger) < bound.cert
  /\ IssueCertificate(u, v, <<v, pinned[u][v]>>, type, days)
  /\ UNCHANGED <<bound, sigKey, pinned, files, now>>

\* The key a user expects of an issuer: his own, or the one he has pinned.
ExpectedIssuerPub(u, issuer) ==
  <<issuer, IF issuer = u THEN sigKey[u] ELSE pinned[u][issuer]>>

\* Mutant of VerifyCertObject: the signature is not checked against the contents.
VerifyCertKeyOnly(u, c) ==
  LET expected == ExpectedIssuerPub(u, c.issuer)
  IN  expected[2] > 0 /\ c.issuerPub = expected /\ c.sig[1] = c.issuerPub

\* _verify_cert_object: the issuer's key is known, it is the one in the
\* certificate, and it made the signature over these contents.
VerifyCertObject(u, c) ==
  LET expected == ExpectedIssuerPub(u, c.issuer)
  IN  expected[2] > 0 /\ c.issuerPub = expected /\ c.sig = <<c.issuerPub, SignedData(c)>>

\* verify_certificate.
VerifyCertificate(u, c) == ~c.revoked /\ ~Expired(c) /\ VerifyCertObject(u, c)

RevokeCertificate(u, c) ==
  certs' = [certs EXCEPT ![u] = Saved(@, {[c EXCEPT !.revoked = TRUE]})]

\* do_revoke: any row of the certificate dialog.
DoRevoke(u, c) ==
  /\ c \in GetAllCertificates(u)
  /\ RevokeCertificate(u, c)
  /\ UNCHANGED <<bound, sigKey, pinned, files, ledger, now>>

\* _choose_cert_dialog: the rows the trust tab offers for a friend.
ChooseCert(u, v) == {c \in GetCertsForFriend(u, v) : Valid(c)}

\* _ctx_revoke_cert: without the master password.
CtxRevokeCert(u, v) ==
  /\ \E c \in ChooseCert(u, v) : RevokeCertificate(u, c)
  /\ UNCHANGED <<bound, sigKey, pinned, files, ledger, now>>

-----------------------------------------------------------------------------
(* What the tabs report of a friend *)

\* compute_trust_level counts valid certificates, up to three.
ComputeTrustLevel(rows) ==
  LET valid == {c \in rows : Valid(c)}
  IN  IF Cardinality(valid) >= 3 THEN 3 ELSE Cardinality(valid)

GetTrustLevel(u, v) == ComputeTrustLevel(GetCertsForFriend(u, v))

\* get_trust_info, as the trust tab lists it.
GetTrustInfo(u, v) ==
  LET valid == {c \in GetCertsForFriend(u, v) : Valid(c)}
  IN  [level |-> CASE GetTrustLevel(u, v) = 3 -> "trusted"
                   [] GetTrustLevel(u, v) = 0 -> "untrusted"
                   [] OTHER -> "partially_trusted",
       count |-> Cardinality(valid),
       signers |-> {c.issuer : c \in valid}]

-----------------------------------------------------------------------------
(* Files *)

Write(f) ==
  /\ Cardinality(files) < bound.file
  /\ f \notin files
  /\ files' = files \cup {f}
  /\ UNCHANGED <<bound, sigKey, pinned, certs, ledger, now>>

\* do_export, one row of the certificate dialog.
DoExport(u, c) ==
  /\ c \in GetAllCertificates(u)
  /\ Write([kind |-> "single", rows |-> {c}, key |-> NoKey])

ExportDelegationCertificates(u) == {c \in GetAllCertificates(u) : c.type = "delegation"}

\* do_export_delegation writes nothing when there is no such certificate.
DoExportDelegation(u) ==
  /\ ExportDelegationCertificates(u) # {}
  /\ Write([kind |-> "bundle", rows |-> ExportDelegationCertificates(u), key |-> NoKey])

\* export_trust_bundle: every row, whatever its state.
ExportTrustBundle(u) == [kind |-> "bundle", rows |-> GetAllCertificates(u), key |-> NoKey]

\* do_export_all, and the same in the trust tab.
DoExportAll(u) == Write(ExportTrustBundle(u))
ExportCertBundleDialog(u) == Write(ExportTrustBundle(u))

\* export_certs_with_key: the certificates the user issued, with his public key.  Without
\* any, only the key is copied.
ExportCertsWithKey(u) ==
  /\ sigKey[u] > 0
  /\ GetCertsIssuedByMe(u) # {}
  /\ Write([kind |-> "exchange", rows |-> GetCertsIssuedByMe(u), key |-> <<u, sigKey[u]>>])

\* A row of a file is altered after it was written, in one of the fields of the instance.  The
\* signature stays: nobody else can make one.  An identifier becomes that of another
\* certificate, or one that no certificate was issued with (0); it is not one that uuid4 will
\* draw later.  The dates are altered once.  The key of an exchange file is not altered.
Damage(f) ==
  /\ f \in files
  /\ \E c \in f.rows :
       LET Becomes(d) == files' = (files \ {f}) \cup {[f EXCEPT !.rows = (@ \ {c}) \cup {d}]}
       IN  \/ /\ "after" \in bound.alter
              /\ c.sig = <<c.issuerPub, SignedData(c)>>
              /\ Becomes([c EXCEPT !.after = @ + 1])
           \/ "issuer" \in bound.alter /\ \E v \in User : Becomes([c EXCEPT !.issuer = v])
           \/ "subject" \in bound.alter /\ \E v \in User : Becomes([c EXCEPT !.subject = v])
           \/ "revoked" \in bound.alter /\ Becomes([c EXCEPT !.revoked = ~@])
           \/ "id" \in bound.alter /\ \E i \in 0..Cardinality(ledger) : Becomes([c EXCEPT !.id = i])
  /\ UNCHANGED <<bound, sigKey, pinned, certs, ledger, now>>

\* The rows import_received_certs keeps: those that verify, revoked and expired ones too.
Accepted(u, rows) == {c \in rows : c \in Cert /\ VerifyCertObject(u, c)}

\* The rows are saved one by one, so the last one with an identifier is the one that stays; a
\* file's rows come in any order.
LastOfEach(rows) ==
  {S \in SUBSET rows : /\ \A c \in rows : \E d \in S : d.id = c.id
                       /\ \A c, d \in S : c.id = d.id => c = d}

\* Mutant of ImportReceivedCerts: the certificate that is built anew for the table is not revoked.
ImportUnrevoked(u, rows) ==
  \E S \in LastOfEach(Accepted(u, rows)) :
    certs' = [certs EXCEPT ![u] = Saved(@, {[c EXCEPT !.revoked = FALSE] : c \in S})]

ImportReceivedCerts(u, rows) ==
  \E S \in LastOfEach(Accepted(u, rows)) : certs' = [certs EXCEPT ![u] = Saved(@, S)]

\* import_cert_dialog: the trust tab looks for the certificates of a bundle, and takes anything
\* else for one certificate; import_cert_file_dialog does the same with a file.
ImportCertDialog(u, f) ==
  /\ f.kind \in {"single", "bundle"}
  /\ ImportReceivedCerts(u, f.rows)
  /\ UNCHANGED <<bound, sigKey, pinned, files, ledger, now>>

ImportCertFileDialog(u, f) == f \in files /\ ImportCertDialog(u, f)

\* do_import of the certificate dialog takes a bundle for one malformed certificate.
DoImport(u, f) ==
  /\ f.kind \in {"single", "bundle"}
  /\ ImportReceivedCerts(u, IF f.kind = "single" THEN f.rows ELSE {})
  /\ UNCHANGED <<bound, sigKey, pinned, files, ledger, now>>

\* do_import_hybrid_sig_key: the certificates of an exchange bundle are imported first, and the
\* key is pinned after.  Without a friend selected it stops in between.
DoImportHybridSigKey(u, f, selected) ==
  /\ f.kind = "exchange"
  /\ f.key[1] # u
  /\ ImportReceivedCerts(u, f.rows)
  /\ pinned' = IF selected THEN [pinned EXCEPT ![u][f.key[1]] = f.key[2]] ELSE pinned
  /\ UNCHANGED <<bound, sigKey, files, ledger, now>>

-----------------------------------------------------------------------------
(* What a delegation certificate permits *)

GetDelegationCertsHeldByMe(u) ==
  {c \in TrustCertificatesFor(u, User, {u}) : c.type = "delegation" /\ Valid(c)}

AssertDelegation(u, v) == \E c \in GetDelegationCertsHeldByMe(u) : c.issuer = v

\* update_delegator_pub_key and remove_all_delegator_optional_keys; 0 removes the key.
DelegatedPin(u, v, g) ==
  /\ AssertDelegation(u, v)
  /\ pinned' = [pinned EXCEPT ![u][v] = g]

\* do_update_delegator_key: the delegate pastes the delegator's key.
DoUpdateDelegatorKey(u, v) ==
  /\ u # v /\ sigKey[v] > 0
  /\ DelegatedPin(u, v, sigKey[v])
  /\ UNCHANGED <<bound, sigKey, certs, files, ledger, now>>

DoRemoveAllKeys(u, v) ==
  /\ u # v
  /\ DelegatedPin(u, v, 0)
  /\ UNCHANGED <<bound, sigKey, certs, files, ledger, now>>

RevokeAllCertsForDelegator(u, v) ==
  /\ AssertDelegation(u, v)
  /\ certs' = [certs EXCEPT ![u] =
       Saved(@, {[c EXCEPT !.revoked = TRUE] : c \in {d \in GetCertsForFriend(u, v) : Valid(d)}})]

DoRevokeAllDelegatorCerts(u, v) ==
  /\ u # v
  /\ RevokeAllCertsForDelegator(u, v)
  /\ UNCHANGED <<bound, sigKey, pinned, files, ledger, now>>

Tick ==
  /\ now < bound.day
  /\ now' = now + 1
  /\ UNCHANGED <<bound, sigKey, pinned, certs, files, ledger>>

-----------------------------------------------------------------------------
TrustInit ==
  /\ bound \in Instance
  /\ sigKey = [u \in User |-> 0]
  /\ pinned = [u \in User |-> [v \in User |-> 0]]
  /\ certs = [u \in User |-> {}]
  /\ files = {}
  /\ ledger = {}
  /\ now = 0

TrustNext ==
  \/ Tick
  \/ \E u \in bound.user :
       \/ GenerateHybridSig(u)
       \/ \E c \in certs[u] : DoRevoke(u, c) \/ DoExport(u, c)
       \/ DoExportDelegation(u) \/ DoExportAll(u) \/ ExportCertBundleDialog(u) \/ ExportCertsWithKey(u)
       \/ \E f \in files : \/ ImportCertDialog(u, f)
                           \/ ImportCertFileDialog(u, f)
                           \/ DoImport(u, f)
                           \/ \E selected \in BOOLEAN : DoImportHybridSigKey(u, f, selected)
       \/ \E v \in bound.user : \/ DoUpdateHsig(u, v)
                                \/ CtxRevokeCert(u, v)
                                \/ \E type \in bound.type, days \in Days : DoIssue(u, v, type, days)
                                \/ DoUpdateDelegatorKey(u, v)
                                \/ DoRemoveAllKeys(u, v)
                                \/ DoRevokeAllDelegatorCerts(u, v)
  \/ \E f \in files : Damage(f)

-----------------------------------------------------------------------------
(* Properties *)

\* What a signature says: who states what about which key, and for how long.  It names neither
\* the certificate nor the subject.
FactOf(c) == [by |-> c.issuerPub, about |-> c.subjectPub, type |-> c.type,
              before |-> c.before, days |-> c.after - c.before]

\* The facts that an instance can sign.
FactSet ==
  LET keys == UNION {UNION {{<<u, g>> : g \in 1..b.key[u]} : u \in User} : b \in Instance}
  IN  [by : keys, about : keys, type : CertType,
       before : UNION {0..b.day : b \in Instance}, days : Days]

Ledger == INSTANCE CertLedger
            WITH Fact <- FactSet,
                 issued <- [u \in User |-> {FactOf(c) : c \in {d \in ledger : d.issuer = u}}],
                 known <- [u \in User |-> {FactOf(c) : c \in certs[u]}],
                 lossy <- "id" \in bound.alter

(* The stores, the files and the imports implement the ledger: whatever    *)
(* altered, repeated, reordered or outdated files a user imports, his      *)
(* table holds only facts that were signed (_verify_cert_object on         *)
(* import), and it loses one only when an identifier was altered, so that  *)
(* INSERT OR REPLACE puts one certificate in the place of another.         *)
LedgerRefined == Ledger!Spec

\* The certificates that were issued and have not expired.
Running == {c \in ledger : now <= c.after}

(* What a user is shown and permitted was earned, as far as the signature   *)
(* reaches.  Whatever files were imported, a row that counts as valid says  *)
(* what the issuer it names signed, of that key and for a period that       *)
(* includes today.  If no subject was altered in a file, a delegate acts    *)
(* (_assert_delegation) on a certificate that the delegator issued to him,  *)
(* and the signers that get_trust_info lists have vouched for that friend;  *)
(* if no identifier was altered either, a friend has as many unexpired      *)
(* certificates as get_trust_info counts.                                   *)
TrustWasEarned ==
  \A u, v \in User :
    LET about == {c \in Running : c.subject = v}
        info == GetTrustInfo(u, v)
    IN  /\ \A c \in certs[u] :
             Valid(c) => \E d \in Running : d.issuer = c.issuer /\ FactOf(d) = FactOf(c)
        /\ "subject" \notin bound.alter =>
             /\ AssertDelegation(v, u) => \E c \in about : c.issuer = u /\ c.type = "delegation"
             /\ info.signers \subseteq {c.issuer : c \in about}
        /\ {"id", "subject"} \cap bound.alter = {} =>
             /\ info.count <= Cardinality(about)
             /\ info.level = "trusted" => Cardinality(about) >= 3

\* The rows there are, in the tables and in the files, and the signatures of those not revoked.
Copies == (UNION {certs[u] : u \in User}) \cup (UNION {f.rows : f \in files})
LiveSignatures == {c.sig : c \in {d \in Copies : ~d.revoked}}

(* "This action cannot be reversed" (do_revoke) holds of all copies         *)
(* together: once every row with a signature is revoked, in the tables of   *)
(* all users and in all files, no export, import, revocation or deletion    *)
(* makes it valid again for anyone, unless the revocation is altered in a   *)
(* file.  One table alone may go back to a copy that was exported before.   *)
RevokedForGood ==
  [][ "revoked" \notin bound.alter =>
        LiveSignatures' \subseteq LiveSignatures \cup {c.sig : c \in ledger' \ ledger} ]_trustVars
=============================================================================

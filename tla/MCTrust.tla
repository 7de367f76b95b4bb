------------------------------ MODULE MCTrust ------------------------------
(***************************************************************************)
(* Instances of RecoveryShares, and of the trust chain it extends.          *)
(***************************************************************************)
EXTENDS RecoveryShares

CONSTANTS alice, bob, carol

MCUser == {alice, bob, carol}
MCFriendList == <<bob, carol>>
MCScheme == {<<2, 2>>}
MCKeyByte == <<83, 200>>
MCCoeff == <<<<77, 3>>, <<129, 0>>>>

Each(a, b, c) == [u \in MCUser |-> CASE u = alice -> a [] u = bob -> b [] u = carol -> c]

\* An instance for the trust chain alone.
Chain(users, keys, types, certificates, fs, days, fields) ==
  [user |-> users, key |-> keys, type |-> types, cert |-> certificates, file |-> fs, day |-> days,
   alter |-> fields, split |-> 0, rsa |-> Each(1, 1, 1), entry |-> 0]

\* A split key and a new RSA key; a split key and a delegate who holds a share.
MCSplitting ==
  {[user |-> MCUser, key |-> Each(1, 0, 0), type |-> {}, cert |-> 0, file |-> 0, day |-> 0,
    alter |-> {}, split |-> 1, rsa |-> Each(2, 1, 1), entry |-> 2],
   [user |-> {alice, bob}, key |-> Each(1, 1, 0), type |-> {"delegation"}, cert |-> 1, file |-> 1,
    day |-> 0, alter |-> {"after"}, split |-> 1, rsa |-> Each(2, 1, 1), entry |-> 0]}

\* Two certificates in one file between two users who keep their keys, altered in what is
\* signed and in what is not; one certificate altered in two ways; new keys and time; three
\* certificates about one friend.
MCInstance ==
  MCSplitting \cup
  {Chain({alice, bob}, Each(1, 1, 0), {"identity", "delegation"}, 2, 1, 0, {"after"}),
   Chain({alice, bob}, Each(1, 1, 0), {"delegation"}, 2, 1, 0, {"issuer", "revoked"}),
   Chain({alice, bob}, Each(1, 1, 0), {"identity"}, 2, 1, 0, {"id"}),
   Chain({alice, bob}, Each(1, 1, 0), {"delegation"}, 1, 1, 0, {"id", "subject"}),
   Chain({alice, bob}, Each(2, 2, 0), {"recovery", "delegation"}, 1, 1, 2, {"after"}),
   Chain({alice, bob}, Each(1, 1, 0), {"identity"}, 3, 0, 2, {})}

\* Any k of n shares give the secret, in any order, and so do more than k.
ASSUME ShamirRecovers ==
  \A k \in 2..3 : \A secret \in {0, 1, 83, 255}, a \in {0, 129}, b \in {3, 254} :
    \A subset \in {S \in SUBSET (1..4) : Cardinality(S) >= k} : \A first \in subset :
      LET order == <<first>> \o SetToSeq(subset \ {first})
          coeffs == SubSeq(<<a, b>>, 1, k - 1)
      IN  ReconstructSecret([i \in DOMAIN order |-> <<order[i], ShareOf(secret, coeffs, order[i])>>])
            = secret
=============================================================================

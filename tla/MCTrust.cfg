SPECIFICATION Spec
CONSTANTS
  alice = alice
  bob = bob
  carol = carol
  User <- MCUser
  CertType = {"identity", "recovery", "delegation"}
  Days = {1}
  Instance <- MCInstance
  Owner = alice
  FriendList <- MCFriendList
  Scheme <- MCScheme
  KeyByte <- MCKeyByte
  Coeff <- MCCoeff
INVARIANTS
  TrustWasEarned
  EnoughSharesRecover
PROPERTIES
  LedgerRefined
  RevokedForGood
CHECK_DEADLOCK FALSE

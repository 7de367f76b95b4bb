------------------------------ MODULE MCKeyStore ------------------------------
(* KeyStore with passwords that may be exchanged for each other.               *)
EXTENDS KeyStore, TLC

CONSTANTS p1, p2, alice, w1

Alike == Permutations(Passwords)
==============================================================================

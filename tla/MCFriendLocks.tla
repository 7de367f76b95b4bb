---------------------------- MODULE MCFriendLocks ----------------------------
(* FriendLocks on small instances.                                          *)
EXTENDS FriendLocks

CONSTANTS t1, t2, t3

\* Friend 2 is removed and added again; friend 1 is always listed.
OneRemoved == {{1, 2}, {1}}
=============================================================================

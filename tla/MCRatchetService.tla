--------------------------- MODULE MCRatchetService ---------------------------
(* RatchetService on small instances.                                       *)
EXTENDS RatchetService

CONSTANTS alice, t1, t2, m1, k1, k2
=============================================================================

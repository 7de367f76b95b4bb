--------------------------- MODULE MCRatchetSession ---------------------------
(* RatchetSession on small instances.                                       *)
EXTENDS RatchetSession
=============================================================================

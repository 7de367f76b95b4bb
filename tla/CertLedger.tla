----------------------------- MODULE CertLedger -----------------------------
(***************************************************************************)
(* What the trust chain promises: a fact a user's store holds was signed,  *)
(* by the owner of the key it names, and a store never loses a fact as     *)
(* long as identifiers arrive as they were sent.  How certificates travel  *)
(* (files, bundles, the clipboard), and what is done to them on the way,   *)
(* is not visible here.                                                    *)
(***************************************************************************)
EXTENDS Integers, FiniteSets

CONSTANTS User,   \* the users of the application
          Fact    \* what a signature covers

VARIABLES issued,  \* the facts each user has signed
          known,   \* the facts each user's store holds
          lossy    \* identifiers are altered on the way

ledgerVars == <<issued, known, lossy>>

Init ==
  /\ issued = [u \in User |-> {}]
  /\ known = [u \in User |-> {}]
  /\ lossy \in BOOLEAN

\* A user signs a fact and keeps it.
Sign(u) ==
  \E f \in Fact :
    /\ issued' = [issued EXCEPT ![u] = @ \cup {f}]
    /\ known' = [known EXCEPT ![u] = @ \cup {f}]
    /\ UNCHANGED lossy

\* A user learns facts that others have signed, and forgets some if identifiers are altered.
Learn(u) ==
  \E S \in SUBSET UNION {issued[v] : v \in User}, L \in SUBSET known[u] :
    /\ L # {} => lossy
    /\ known' = [known EXCEPT ![u] = (@ \ L) \cup S]
    /\ UNCHANGED <<issued, lossy>>

Next == (\E u \in User : Learn(u)) \/ (\E u \in User : Sign(u))

Spec == Init /\ [][Next]_ledgerVars
=============================================================================

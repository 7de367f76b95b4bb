------------------------------ MODULE MCLockout ------------------------------
(* Lockout with a schedule of the same shape as the real one: no delay at    *)
(* first, then longer delays, the hard lockout one failure past the table.   *)
EXTENDS Lockout

ShortTable == <<0, 0, 1, 2>>
=============================================================================

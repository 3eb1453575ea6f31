--------------------------- MODULE MCVerification ---------------------------
(* Model values for TLC. *)
EXTENDS Verification, TLC

CONSTANTS p1, f1, f2, r1, r2, u1, u2
=============================================================================

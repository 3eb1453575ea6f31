----------------------------- MODULE MCSessions -----------------------------
(* Sessions with the sets TLC explores. *)
EXTENDS Sessions, TLC

CONSTANTS u1, u2, g1, q1
=============================================================================

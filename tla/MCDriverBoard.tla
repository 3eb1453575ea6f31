---------------------------- MODULE MCDriverBoard ----------------------------
(* Model values for TLC. *)
EXTENDS DriverBoard, TLC

CONSTANTS t1, t2, s1, r1
=============================================================================

-------------------------- MODULE MCPositionReports --------------------------
(* PositionReports with the sets TLC explores. *)
EXTENDS PositionReports

CONSTANTS v1, v2, p1, p2, p3
=============================================================================

---------------------------- MODULE MCBookingForm ----------------------------
(* BookingForm with the sets TLC explores. *)
EXTENDS BookingForm

CONSTANTS p1, p2, s1, s2, l1
=============================================================================

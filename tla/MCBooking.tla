------------------------------ MODULE MCBooking ------------------------------
(* A small instance of Booking for TLC: half hours of two ticks, sessions of *)
(* half of one and appointments of one.                                      *)
EXTENDS Booking, TLC

Minutes == [kind \in Kinds |-> IF kind = "appointment" THEN 2 ELSE 1]
Symmetry == Permutations(Requests) \cup Permutations(Reps)
=============================================================================

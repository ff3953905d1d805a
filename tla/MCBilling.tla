------------------------------ MODULE MCBilling ------------------------------
(* A small instance of Billing for TLC: interchangeable webhook requests.   *)
EXTENDS Billing, TLC

Symmetry == Permutations(Workers)
=============================================================================

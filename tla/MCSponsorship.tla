---------------------------- MODULE MCSponsorship ----------------------------
(* A small instance of Sponsorship for TLC. *)
EXTENDS Sponsorship
=============================================================================
